---------------------------- MODULE TermsProofs ----------------------------
(***************************************************************************)
(* Proofs about Terms, for any number of terminals, requests and failures. *)
(***************************************************************************)
EXTENDS Terms, SequenceTheorems, TLAPS

\* The values that stand for nothing are well typed.
LEMMA NoneTyped == NoJob \in Job /\ NoAttach \in Attach /\ NoSize \in Sizes
  BY TermsAssumption DEF NoJob, NoAttach, NoSize, Job, Attach

\* next_delay keeps the backoff within its bound.
LEMMA NextDelayTyped == \A b \in 0 .. MaxBackoff : NextDelay(b) \in 0 .. MaxBackoff
  BY TermsAssumption DEF NextDelay

\* Telling PTYs to close keeps them PTYs.
LEMMA HangTyped == ASSUME TypeOK, NEW S PROVE Hang(S) \subseteq Pty
  BY DEF Hang, TypeOK, Pty

\* The task starts idle, without terminals.
LEMMA InitInv == Init => IInv
  <1> SUFFICES ASSUME Init PROVE IInv
    OBVIOUS
  <1>1. TypeOK
    <2>1. pending \in Seq(Job) /\ outq \in Seq(Tagged)
      BY DEF Init
    <2>2. slot \in [Ids -> Slot]
      BY NoneTyped DEF Init, Slot
    <2> QED
      BY <2>1, <2>2, NoneTyped, TermsAssumption DEF Init, TypeOK
  <1>2. Live = {}
    BY DEF Init, Live, LiveIn
  <1>3. Control /\ Views /\ LinkServesTerminals /\ TermStateTold /\ NoStrayPty
    BY <1>2, TermsAssumption
    DEF Init, Control, Views, LinkServesTerminals, TermStateTold, NoStrayPty, Down, Ids
  <1> QED
    BY <1>1, <1>3 DEF IInv

\* A step that leaves the map of terminals and the owners' view alone.
LEMMA MapUnchanged ==
  ASSUME IInv, UNCHANGED <<slot, view, heard>>, nextId' \in Nat, nextId' >= nextId
  PROVE  Views'
  BY DEF IInv, Views, TypeOK, Ids

\* An Open that waits in `pending` touches nothing the invariant is about.
LEMMA CmdOpenBusyInv ==
  ASSUME IInv, NEW r \in Reqs, NEW z \in Sizes, CmdOpenBusy(r, z) PROVE IInv'
  <1> USE DEF IInv
  <1>1. TypeOK'
    <2>1. [req |-> r, size |-> z] \in Job
      BY DEF Job
    <2>2. pending' \in Seq(Job)
      BY <2>1, AppendProperties DEF CmdOpenBusy, TypeOK
    <2> QED
      BY <2>2 DEF CmdOpenBusy, TypeOK, Answer, taskVars, connVars, tellVars
  <1>2. Views'
    BY MapUnchanged DEF CmdOpenBusy, tellVars, TypeOK
  <1> QED
    BY <1>1, <1>2 DEF CmdOpenBusy, taskVars, connVars, tellVars, Busy, Control,
       LinkServesTerminals, TermStateTold, NoStrayPty, Owned, Attached, Live, LiveIn

\* Neither does an Open sent to a task that has ended.
LEMMA CmdOpenStoppedInv ==
  ASSUME IInv, NEW r \in Reqs, CmdOpenStopped(r) PROVE IInv'
  <1> USE DEF IInv
  <1>1. TypeOK'
    BY DEF CmdOpenStopped, TypeOK, Answer, taskVars, connVars, tellVars
  <1>2. Views'
    BY MapUnchanged DEF CmdOpenStopped, tellVars, TypeOK
  <1> QED
    BY <1>1, <1>2 DEF CmdOpenStopped, taskVars, connVars, tellVars, Control,
       LinkServesTerminals, TermStateTold, NoStrayPty, Owned, Attached, Live, LiveIn

\* A reconnect begins on a link that is down, where nothing is attached.
LEMMA ReconnectInv == ASSUME IInv, CmdRetry \/ Timer PROVE IInv'
  <1> USE DEF IInv, CmdRetry, Timer, Reconnect, BeginConnect
  <1>1. TypeOK'
    BY NoneTyped DEF TypeOK, connVars, tellVars
  <1>2. Views'
    BY MapUnchanged DEF TypeOK, tellVars
  <1>3. Control'
    BY DEF connVars, AtSelect, Control, LinkServesTerminals, Down, Attached, Live, LiveIn
  <1> QED
    BY <1>1, <1>2, <1>3 DEF connVars, AtSelect, LinkServesTerminals, TermStateTold,
       NoStrayPty, Owned, Attached, Live, LiveIn

\* The task does not notice at once that the connection is gone.
LEMMA LinkDropInv == ASSUME IInv, LinkDrop PROVE IInv'
  <1> USE DEF IInv
  <1>1. TypeOK'
    BY TermsAssumption DEF LinkDrop, TypeOK, taskVars, tellVars
  <1>2. Views'
    BY MapUnchanged DEF LinkDrop, TypeOK, tellVars
  <1> QED
    BY <1>1, <1>2 DEF LinkDrop, taskVars, tellVars, Control,
       LinkServesTerminals, TermStateTold, NoStrayPty, Owned, Attached, Live, LiveIn

\* A new size changes no terminal's state or generation.
LEMMA CmdResizeInv ==
  ASSUME IInv, NEW i \in Ids, NEW z \in Sizes, CmdResize(i, z) PROVE IInv'
  <1> USE DEF IInv
  <1>0. slot \in [Ids -> Slot]
    BY DEF TypeOK
  <1>1. /\ slot' \in [Ids -> Slot]
        /\ \A j \in Ids : slot'[j].state = slot[j].state /\ slot'[j].gen = slot[j].gen
    BY <1>0 DEF CmdResize, Slot
  <1>2. ptys' \subseteq Pty
    BY DEF CmdResize, TypeOK, Pty
  <1>3. TypeOK'
    BY <1>1, <1>2 DEF CmdResize, TypeOK, taskVars, connVars, tellVars
  <1>4. Live' = Live /\ \A j \in Ids : Attached(j)' = Attached(j)
    BY <1>1 DEF Live, LiveIn, Attached
  <1>5. Views'
    BY <1>1 DEF CmdResize, Views, tellVars
  <1>6. Control' /\ LinkServesTerminals' /\ TermStateTold'
    BY <1>1, <1>4 DEF CmdResize, taskVars, connVars, tellVars, Control, LinkServesTerminals,
       TermStateTold, Live, LiveIn
  <1>7. NoStrayPty'
    BY <1>1, <1>4 DEF CmdResize, NoStrayPty, Owned, TypeOK, Pty
  <1> QED
    BY <1>3, <1>5, <1>6, <1>7

\* idle_if_empty keeps the connection's state well typed.
LEMMA IdleTyped ==
  ASSUME TypeOK, NEW s, NEW l \in {"Idle", "Up", "Busy"} \cup Down,
         NEW t \in {"none", "Up"} \cup Down, NEW b \in 0 .. MaxBackoff,
         IdleIfEmpty(s, l, t, b)
  PROVE  /\ link' \in {"Idle", "Up", "Busy"} \cup Down
         /\ term' \in {"none", "Up"} \cup Down
         /\ backoff' \in 0 .. MaxBackoff
         /\ conn' \in {"up", "gone"}
  BY TermsAssumption DEF IdleIfEmpty, TypeOK

\* Taking a terminal out of the map: it is no longer live, the others stay as
\* they are, and its PTY is told to close.
LEMMA RemoveFacts ==
  ASSUME IInv, NEW i \in Ids, NEW w \in {"exited", "closed"},
         slot' = [slot EXCEPT ![i].state = "none"],
         view' = [view EXCEPT ![i] = w],
         ptys' = Hang({i}), UNCHANGED <<nextId, heard>>, i \in Live
  PROVE  /\ slot' \in [Ids -> Slot] /\ ptys' \subseteq Pty
         /\ view' \in [Ids -> {"none", "attached", "detached", "exited", "closed"}]
         /\ Live' = Live \ {i}
         /\ \A j \in Ids : slot'[j].gen = slot[j].gen
         /\ \A j \in Ids \ {i} : view'[j] = view[j] /\ (Attached(j)' <=> Attached(j))
         /\ Views' /\ NoStrayPty'
  <1> USE DEF IInv
  <1>0. slot \in [Ids -> Slot]
    BY DEF TypeOK
  <1>1. /\ slot' \in [Ids -> Slot]
        /\ \A j \in Ids : slot'[j].gen = slot[j].gen
        /\ \A j \in Ids \ {i} : slot'[j].state = slot[j].state
        /\ slot'[i].state = "none"
    BY <1>0 DEF Slot
  <1>2. ptys' \subseteq Pty
    BY HangTyped
  <1>3. view' \in [Ids -> {"none", "attached", "detached", "exited", "closed"}]
    BY DEF TypeOK
  <1>4. Live' = Live \ {i} /\ \A j \in Ids \ {i} : Attached(j)' <=> Attached(j)
    BY <1>1 DEF Live, LiveIn, Attached
  <1>5. Views'
    BY <1>1 DEF Views, TypeOK, Ids, Live, LiveIn
  <1>6. NoStrayPty'
    BY <1>1 DEF NoStrayPty, Hang, Owned, Attached, TypeOK, Pty
  <1> QED
    BY <1>1, <1>2, <1>3, <1>4, <1>5, <1>6 DEF TypeOK

\* A terminal may be closed at the loop and in the middle of every handler.
LEMMA CmdCloseInv == ASSUME IInv, NEW i \in Ids, CmdClose(i) PROVE IInv'
  <1> USE DEF IInv
  <1>1. /\ slot' \in [Ids -> Slot] /\ ptys' \subseteq Pty
        /\ view' \in [Ids -> {"none", "attached", "detached", "exited", "closed"}]
        /\ Live' = Live \ {i}
        /\ \A j \in Ids : slot'[j].gen = slot[j].gen
        /\ \A j \in Ids \ {i} : view'[j] = view[j] /\ (Attached(j)' <=> Attached(j))
        /\ Views' /\ NoStrayPty'
    BY RemoveFacts DEF CmdClose
  <1>2. LiveIn(slot') = Live'
    BY DEF Live, LiveIn
  <1>3. CASE pc = "loop"
    <2>1. IdleIfEmpty(slot', link, term, backoff)
      BY <1>3 DEF CmdClose
    <2>2. /\ link' \in {"Idle", "Up", "Busy"} \cup Down
          /\ term' \in {"none", "Up"} \cup Down
          /\ backoff' \in 0 .. MaxBackoff
          /\ conn' \in {"up", "gone"}
      BY <2>1, IdleTyped DEF TypeOK
    <2>3. TypeOK'
      BY <1>1, <2>2 DEF CmdClose, TypeOK, taskVars
    <2>4. Control' /\ LinkServesTerminals' /\ TermStateTold'
      BY <1>1, <1>2, <1>3, <2>1 DEF CmdClose, taskVars, IdleIfEmpty, Control,
         LinkServesTerminals, TermStateTold, Down, Live, LiveIn
    <2> QED
      BY <1>1, <2>3, <2>4
  <1>4. CASE pc # "loop"
    <2>1. UNCHANGED connVars /\ UNCHANGED taskVars
      BY <1>4 DEF CmdClose
    <2>2. TypeOK'
      BY <1>1, <2>1 DEF CmdClose, TypeOK, taskVars, connVars
    <2>3. Control'
      BY <1>1, <1>4, <2>1 DEF CmdClose, taskVars, connVars, Control, AtSelect, Busy,
         Live, LiveIn
    <2> QED
      BY <1>1, <1>4, <2>1, <2>2, <2>3 DEF taskVars, LinkServesTerminals, TermStateTold
  <1> QED
    BY <1>3, <1>4

\* Stopping closes every terminal and tells every PTY to close.
LEMMA CmdStopInv == ASSUME IInv, CmdStop PROVE IInv'
  <1> USE DEF IInv
  <1>0. slot \in [Ids -> Slot]
    BY DEF TypeOK
  <1>1. /\ slot' \in [Ids -> Slot]
        /\ \A j \in Ids : slot'[j].state = "none" /\ slot'[j].gen = slot[j].gen
    BY <1>0 DEF CmdStop, Slot
  <1>2. ptys' \subseteq Pty
    BY HangTyped DEF CmdStop
  <1>3. TypeOK'
    <2>1. pending' \in Seq(Job) /\ outq' \in Seq(Tagged)
      BY DEF CmdStop
    <2>2. reply' \in [Reqs -> {"unsent", "waiting", "opened", "failed", "stopped"}]
      BY DEF CmdStop, TypeOK
    <2>3. view' \in [Ids -> {"none", "attached", "detached", "exited", "closed"}]
      BY DEF CmdStop, TypeOK
    <2> QED
      BY <1>1, <1>2, <2>1, <2>2, <2>3, NoneTyped DEF CmdStop, TypeOK
  <1>4. Live' = {}
    BY <1>1 DEF Live, LiveIn
  <1>5. Views'
    BY <1>1 DEF CmdStop, Views, TypeOK, Live, LiveIn
  <1>6. NoStrayPty'
    BY <1>1 DEF CmdStop, NoStrayPty, Hang, Owned, Attached, Live, LiveIn, TypeOK, Pty
  <1> QED
    BY <1>3, <1>4, <1>5, <1>6 DEF CmdStop, Control, LinkServesTerminals, TermStateTold

\* open's attach, begun over the slots and views of the next state: the fresh
\* id has never been used.
LEMMA OpenAttachFacts ==
  ASSUME TypeOK, NEW j \in Job, OpenAttach(j), term' = "Up",
         slot' \in [Ids -> Slot], \A i \in Live' : Attached(i)',
         \A i \in Ids :
           /\ i >= nextId => view'[i] = "none" /\ slot'[i].gen = 0 /\ heard'[i] = 0
           /\ slot'[i].state = "none" => view'[i] \notin {"attached", "detached"}
           /\ slot'[i].state # "none" => view'[i] = slot'[i].state
  PROVE  /\ job' \in Job /\ cur' \in Attach /\ todo' \subseteq Ids /\ nextId' \in Nat \ {0}
         /\ Views' /\ Control' /\ pc' = "attach" /\ fn' = "open" /\ link' = "Busy"
  <1>1. /\ job' \in Job /\ cur' \in Attach /\ todo' \subseteq Ids /\ nextId' \in Nat \ {0}
        /\ pc' = "attach" /\ fn' = "open" /\ link' = "Busy"
    BY DEF OpenAttach, BeginAttach, TypeOK, Job, Attach, Ids
  <1>2. /\ cur'.id \in Ids /\ cur'.id < nextId' /\ cur'.id = nextId /\ cur'.gen = 0
    BY DEF OpenAttach, BeginAttach, TypeOK, Ids
  <1>3. Views'
    BY DEF OpenAttach, Views, TypeOK, Ids
  <1>4. /\ view'[cur'.id] = "none" /\ slot'[cur'.id].gen = 0 /\ heard'[cur'.id] = 0
        /\ slot'[cur'.id].state = "none"
    BY <1>2 DEF Ids, TypeOK, Slot
  <1>5. Control'
    BY <1>1, <1>2, <1>4 DEF Control, Live, LiveIn, Attached
  <1> QED
    BY <1>1, <1>3, <1>5

\* An Open begins: by a reconnect, a connect or an attach, as the link is.
LEMMA BeginOpenInv ==
  ASSUME IInv, NEW j \in Job, pc = "loop", BeginOpen(j),
         pending' \in Seq(Job),
         reply' \in [Reqs -> {"unsent", "waiting", "opened", "failed", "stopped"}]
  PROVE  IInv'
  <1> USE DEF IInv
  <1>0. UNCHANGED <<slot, backoff, conn, term, ptys, outq, faults, view, heard>>
    BY DEF BeginOpen, tellVars
  <1>1. CASE link = "Up" /\ OpenAttach(j)
    <2>1. /\ job' \in Job /\ cur' \in Attach /\ todo' \subseteq Ids /\ nextId' \in Nat \ {0}
          /\ Views' /\ Control' /\ pc' = "attach" /\ fn' = "open" /\ link' = "Busy"
      <3>1. slot' \in [Ids -> Slot] /\ term' = "Up" /\ \A i \in Live' : Attached(i)'
        BY <1>0, <1>1 DEF TypeOK, LinkServesTerminals, TermStateTold, Live, LiveIn, Attached
      <3> QED
        BY <1>0, <1>1, <3>1, OpenAttachFacts DEF Views
    <2>2. TypeOK'
      BY <1>0, <2>1 DEF TypeOK
    <2> QED
      BY <1>0, <2>1, <2>2 DEF LinkServesTerminals, TermStateTold, NoStrayPty, Owned, Attached
  <1>2. CASE /\ \/ link \in Down /\ BeginConnect("reconnect", j)
                \/ link = "Idle" /\ BeginConnect("open", j)
             /\ UNCHANGED <<link, nextId>>
    <2>1. TypeOK'
      BY <1>0, <1>2, NoneTyped DEF BeginConnect, TypeOK
    <2>2. Views'
      BY <1>0, <1>2, MapUnchanged DEF TypeOK
    <2>3. Control'
      BY <1>0, <1>2 DEF BeginConnect, Control, LinkServesTerminals, Down, Attached, Live, LiveIn
    <2> QED
      BY <1>0, <1>2, <2>1, <2>2, <2>3 DEF BeginConnect, LinkServesTerminals, TermStateTold,
         NoStrayPty, Owned, Attached
  <1> QED
    BY <1>1, <1>2 DEF BeginOpen

\* The two ways an Open is taken up.
LEMMA OpenInv ==
  ASSUME IInv, (\E r \in Reqs, z \in Sizes : CmdOpen(r, z)) \/ PopPending
  PROVE  IInv'
  <1>0. TypeOK
    BY DEF IInv
  <1>1. ASSUME NEW r \in Reqs, NEW z \in Sizes, CmdOpen(r, z) PROVE IInv'
    <2>1. [req |-> r, size |-> z] \in Job
      BY DEF Job
    <2> QED
      BY <1>0, <1>1, <2>1, BeginOpenInv DEF CmdOpen, AtSelect, Answer, TypeOK
  <1>2. CASE PopPending
    <2>1. Head(pending) \in Job /\ Tail(pending) \in Seq(Job)
      BY <1>0, <1>2, HeadTailProperties DEF PopPending, TypeOK
    <2> QED
      BY <1>0, <1>2, <2>1, BeginOpenInv DEF PopPending, TypeOK
  <1> QED
    BY <1>1, <1>2

\* lost: no terminal leaves the map, all are detached, no PTY is left running.
LEMMA LostFacts ==
  ASSUME IInv, Lost, UNCHANGED <<nextId, heard>>
  PROVE  /\ slot' \in [Ids -> Slot] /\ ptys' \subseteq Pty
         /\ view' \in [Ids -> {"none", "attached", "detached", "exited", "closed"}]
         /\ backoff' \in 0 .. MaxBackoff /\ conn' \in {"up", "gone"}
         /\ Live' = Live /\ \A j \in Ids : ~Attached(j)'
         /\ IF Live = {} THEN link' = "Idle" /\ term' = "none"
                         ELSE link' = "Retrying" /\ term' = "Retrying"
         /\ Views' /\ NoStrayPty'
  <1> USE DEF IInv
  <1>0. slot \in [Ids -> Slot]
    BY DEF TypeOK
  <1>1. /\ slot' \in [Ids -> Slot]
        /\ \A j \in Ids : /\ slot'[j].gen = slot[j].gen
                          /\ slot'[j].state = IF j \in Live THEN "detached" ELSE "none"
    BY <1>0 DEF Lost, Slot, Live, LiveIn
  <1>2. ptys' \subseteq Pty
    BY HangTyped DEF Lost
  <1>3. view' \in [Ids -> {"none", "attached", "detached", "exited", "closed"}]
    BY DEF Lost, TypeOK
  <1>4. Live' = Live /\ \A j \in Ids : ~Attached(j)'
    BY <1>1 DEF Live, LiveIn, Attached
  <1>5. PICK stable \in BOOLEAN :
          IdleIfEmpty(slot, "Retrying", "Retrying", NextDelay(IF stable THEN 0 ELSE backoff))
    BY DEF Lost
  <1>6. NextDelay(IF stable THEN 0 ELSE backoff) \in 0 .. MaxBackoff
    BY NextDelayTyped, TermsAssumption DEF TypeOK
  <1>7. backoff' \in 0 .. MaxBackoff /\ conn' \in {"up", "gone"}
    BY <1>5, <1>6, TermsAssumption DEF IdleIfEmpty, TypeOK
  <1>8. IF Live = {} THEN link' = "Idle" /\ term' = "none"
                     ELSE link' = "Retrying" /\ term' = "Retrying"
    BY <1>5 DEF IdleIfEmpty, Live
  <1>9. Views'
    BY <1>1 DEF Lost, Views, TypeOK, Ids, Live, LiveIn
  <1>10. NoStrayPty'
    BY <1>1 DEF Lost, NoStrayPty, Hang, Owned, Attached, Live, LiveIn, TypeOK, Pty
  <1> QED
    BY <1>1, <1>2, <1>3, <1>4, <1>7, <1>8, <1>9, <1>10

\* The loop of reconnect, continued over the slots of the next state: of its
\* terminals, exactly those still to be attached are detached.
LEMMA AttachNextFacts ==
  ASSUME TypeOK, NEW ids \in SUBSET Ids, AttachNext(slot', ids), slot' \in [Ids -> Slot],
         \A i \in Live' : Attached(i)' <=> i \notin ids,
         \A i \in Live' : i < nextId,
         \A i \in Ids :
           /\ i >= nextId => view'[i] = "none" /\ slot'[i].gen = 0 /\ heard'[i] = 0
           /\ slot'[i].state = "none" => view'[i] \notin {"attached", "detached"}
           /\ slot'[i].state # "none" => view'[i] = slot'[i].state
  PROVE  /\ pc' \in {"loop", "connect", "attach", "stopped"}
         /\ fn' \in {"none", "open", "reconnect", "ended"}
         /\ job' \in Job /\ cur' \in Attach /\ todo' \subseteq Ids /\ nextId' \in Nat \ {0}
         /\ link' \in {"Idle", "Up", "Busy"} \cup Down /\ term' \in {"none", "Up"} \cup Down
         /\ backoff' \in 0 .. MaxBackoff /\ conn' \in {"up", "gone"}
         /\ Views' /\ Control' /\ LinkServesTerminals' /\ TermStateTold'
  <1> DEFINE left == ids \cap LiveIn(slot')
  <1>0. LiveIn(slot') = Live'
    BY DEF Live
  <1>1. CASE left # {}
    <2>1. PICK i \in left : /\ BeginAttach("reconnect", i, slot'[i].gen + 1, slot'[i].size)
                            /\ todo' = left \ {i}
      BY <1>1 DEF AttachNext
    <2>2. term' = "Up" /\ conn' = "up" /\ UNCHANGED <<job, nextId, backoff>>
      BY <1>1 DEF AttachNext
    <2>3. i \in Ids /\ i < nextId /\ slot'[i] \in Slot /\ i \in Live'
      BY <1>0, <2>1 DEF Live, LiveIn
    <2>4. /\ pc' = "attach" /\ fn' = "reconnect" /\ link' = "Busy" /\ todo' \subseteq Ids
          /\ cur' \in Attach /\ cur'.id = i /\ cur'.gen = slot'[i].gen + 1
      BY <2>1, <2>3 DEF BeginAttach, Attach, Slot
    <2>5. /\ \A k \in Live' : Attached(k)' <=> k \notin todo' \cup {cur'.id}
          /\ cur'.id \notin todo'
      BY <1>0, <2>1, <2>4
    <2>6. Control'
      BY <2>2, <2>3, <2>4, <2>5 DEF Control
    <2>7. Views'
      BY <2>2 DEF Views
    <2> QED
      BY <2>2, <2>4, <2>6, <2>7 DEF TypeOK, LinkServesTerminals, TermStateTold
  <1>2. CASE left = {}
    <2>0. ReconnectDone(slot') /\ \A i \in Live' : Attached(i)'
      BY <1>0, <1>2 DEF AttachNext
    <2>1. CASE Live' = {}
      <3>1. /\ IdleIfEmpty(slot', "Up", "Up", backoff)
            /\ IF job = NoJob THEN ToLoop ELSE BeginConnect("open", job)
            /\ UNCHANGED nextId
        BY <1>0, <2>0, <2>1 DEF ReconnectDone
      <3>2. link' = "Idle" /\ term' = "none" /\ backoff' = 0 /\ conn' = "gone"
        BY <1>0, <2>1, <3>1 DEF IdleIfEmpty
      <3>3. /\ pc' \in {"loop", "connect"} /\ cur' \in Attach /\ todo' \subseteq Ids
            /\ fn' = IF pc' = "loop" THEN "none" ELSE "open"
            /\ job' \in Job /\ (pc' = "loop" => job' = NoJob)
        BY <3>1, NoneTyped DEF ToLoop, BeginConnect, TypeOK
      <3>4. Control'
        BY <2>1, <3>2, <3>3 DEF Control
      <3>5. Views'
        BY <3>1 DEF Views
      <3> QED
        BY <2>1, <3>1, <3>2, <3>3, <3>4, <3>5, TermsAssumption
        DEF TypeOK, LinkServesTerminals, TermStateTold, Down
    <2>2. CASE Live' # {} /\ job = NoJob
      <3>1. /\ ToLoop /\ link' = "Up" /\ term' = "Up" /\ conn' = "up"
            /\ UNCHANGED <<nextId, backoff>>
        BY <1>0, <2>0, <2>2 DEF ReconnectDone
      <3>2. Views'
        BY <3>1 DEF Views
      <3> QED
        BY <2>0, <2>2, <3>1, <3>2, NoneTyped
        DEF ToLoop, TypeOK, Control, LinkServesTerminals, TermStateTold, Down
    <2>3. CASE Live' # {} /\ job # NoJob
      <3>1. OpenAttach(job) /\ term' = "Up" /\ conn' = "up" /\ UNCHANGED backoff
        BY <1>0, <2>0, <2>3 DEF ReconnectDone
      <3>2. /\ job' \in Job /\ cur' \in Attach /\ todo' \subseteq Ids /\ nextId' \in Nat \ {0}
            /\ Views' /\ Control' /\ pc' = "attach" /\ fn' = "open" /\ link' = "Busy"
        BY <2>0, <3>1, OpenAttachFacts DEF TypeOK
      <3> QED
        BY <3>1, <3>2 DEF TypeOK, LinkServesTerminals, TermStateTold
    <2> QED
      BY <2>1, <2>2, <2>3
  <1> QED
    BY <1>1, <1>2

\* Only ids that were handed out are in use.
LEMMA LiveIsOld == ASSUME IInv PROVE \A i \in Live : i < nextId
  BY DEF IInv, Views, Live, LiveIn, TypeOK, Ids, Slot

\* A new connection serves the Open, or the first terminal to come back.
LEMMA ConnectOkInv == ASSUME IInv, ConnectOk PROVE IInv'
  <1> USE DEF IInv
  <1>0. UNCHANGED <<slot, pending, ptys, outq, faults, view, heard, reply>>
    BY DEF ConnectOk, tellVars
  <1>1. slot' \in [Ids -> Slot] /\ Live' = Live /\ \A i \in Ids : Attached(i)' <=> Attached(i)
    BY <1>0 DEF TypeOK, Live, LiveIn, Attached
  <1>2. NoStrayPty'
    BY <1>0 DEF NoStrayPty, Owned, Attached
  <1>3. CASE fn = "open"
    <2>1. OpenAttach(job) /\ term' = "Up" /\ conn' = "up" /\ UNCHANGED backoff
      BY <1>3 DEF ConnectOk
    <2>2. \A i \in Live' : Attached(i)'
      BY <1>1, <1>3 DEF ConnectOk, Control
    <2>3. /\ job' \in Job /\ cur' \in Attach /\ todo' \subseteq Ids /\ nextId' \in Nat \ {0}
          /\ Views' /\ Control' /\ pc' = "attach" /\ fn' = "open" /\ link' = "Busy"
      BY <1>0, <1>1, <2>1, <2>2, OpenAttachFacts DEF TypeOK, Views
    <2> QED
      BY <1>0, <1>1, <1>2, <2>1, <2>3 DEF TypeOK, LinkServesTerminals, TermStateTold
  <1>4. CASE fn = "reconnect"
    <2>1. AttachNext(slot', Live)
      BY <1>0, <1>4 DEF ConnectOk
    <2>2. \A i \in Live' : (Attached(i)' <=> i \notin Live) /\ i < nextId
      <3>1. \A i \in Live : i \in Ids /\ ~Attached(i)
        BY <1>4 DEF ConnectOk, Control, Live, LiveIn
      <3> QED
        BY <1>1, <3>1, LiveIsOld
    <2>3. Live \in SUBSET Ids
      BY DEF Live, LiveIn
    <2>4. /\ pc' \in {"loop", "connect", "attach", "stopped"}
          /\ fn' \in {"none", "open", "reconnect", "ended"}
          /\ job' \in Job /\ cur' \in Attach /\ todo' \subseteq Ids /\ nextId' \in Nat \ {0}
          /\ link' \in {"Idle", "Up", "Busy"} \cup Down /\ term' \in {"none", "Up"} \cup Down
          /\ backoff' \in 0 .. MaxBackoff /\ conn' \in {"up", "gone"}
          /\ Views' /\ Control' /\ LinkServesTerminals' /\ TermStateTold'
      BY <1>0, <1>1, <2>1, <2>2, <2>3, AttachNextFacts DEF Views
    <2> QED
      BY <1>0, <1>1, <1>2, <2>4 DEF TypeOK
  <1> QED
    BY <1>3, <1>4 DEF ConnectOk

\* reconnect gave up, with the terminals and the link of the next state.
LEMMA ReconnectFailedFacts ==
  ASSUME TypeOK, ReconnectFailed, Live' = Live, \A i \in Ids : ~Attached(i)',
         IF Live = {} THEN link' = "Idle" /\ term' = "none"
                      ELSE link' \in Down /\ term' = link'
  PROVE  /\ pc' \in {"loop", "connect"} /\ fn' \in {"none", "open"}
         /\ job' \in Job /\ cur' \in Attach /\ todo' \subseteq Ids
         /\ reply' \in [Reqs -> {"unsent", "waiting", "opened", "failed", "stopped"}]
         /\ Control' /\ LinkServesTerminals' /\ TermStateTold'
  <1>1. CASE job # NoJob /\ Live = {}
    BY <1>1, NoneTyped DEF ReconnectFailed, BeginConnect, TypeOK, Control,
       LinkServesTerminals, TermStateTold
  <1>2. CASE ~(job # NoJob /\ Live = {})
    <2>1. ToLoop /\ reply' = IF job = NoJob THEN reply ELSE Answer(job.req, "failed")
      BY <1>2 DEF ReconnectFailed
    <2>2. reply' \in [Reqs -> {"unsent", "waiting", "opened", "failed", "stopped"}]
      BY <2>1 DEF Answer, TypeOK
    <2> QED
      BY <2>1, <2>2, NoneTyped DEF ToLoop, TypeOK, Control, LinkServesTerminals,
         TermStateTold, Down, Live, LiveIn
  <1> QED
    BY <1>1, <1>2

\* A failed connect leaves an Open unserved, or the terminals detached.
LEMMA ConnectErrInv == ASSUME IInv, NEW e \in Down, ConnectErr(e) PROVE IInv'
  <1> USE DEF IInv
  <1>0. UNCHANGED <<slot, pending, nextId, ptys, outq, view, heard>>
    BY DEF ConnectErr, tellVars
  <1>1. /\ slot' \in [Ids -> Slot] /\ Live' = Live
        /\ \A i \in Ids : Attached(i)' <=> Attached(i)
    BY <1>0 DEF TypeOK, Live, LiveIn, Attached
  <1>2. Views' /\ NoStrayPty'
    BY <1>0, MapUnchanged DEF TypeOK, NoStrayPty, Owned, Attached
  <1>3. faults' \in 0 .. MaxFaults
    BY TermsAssumption DEF ConnectErr, TypeOK
  <1>4. CASE fn = "open"
    <2>1. /\ ToLoop /\ link' = "Idle" /\ term' = "none" /\ UNCHANGED <<backoff, conn>>
          /\ reply' = Answer(job.req, "failed")
      BY <1>4 DEF ConnectErr
    <2>2. Live' = {}
      BY <1>1, <1>4 DEF ConnectErr, Control
    <2>3. TypeOK'
      BY <1>0, <1>1, <1>3, <2>1, NoneTyped DEF ToLoop, TypeOK, Answer
    <2> QED
      BY <1>2, <2>1, <2>2, <2>3 DEF ToLoop, Control, LinkServesTerminals, TermStateTold, Down
  <1>5. CASE fn = "reconnect"
    <2> DEFINE b == IF e = "Retrying" THEN NextDelay(backoff) ELSE backoff
    <2>1. IdleIfEmpty(slot, e, e, b) /\ ReconnectFailed
      BY <1>5 DEF ConnectErr
    <2>2. b \in 0 .. MaxBackoff
      BY NextDelayTyped DEF TypeOK
    <2>3. /\ backoff' \in 0 .. MaxBackoff /\ conn' \in {"up", "gone"}
          /\ IF Live = {} THEN link' = "Idle" /\ term' = "none"
                          ELSE link' \in Down /\ term' = link'
      BY <2>1, <2>2, TermsAssumption DEF IdleIfEmpty, Live, TypeOK, Down
    <2>4. \A i \in Ids : ~Attached(i)'
      BY <1>1, <1>5 DEF ConnectErr, Control, Live, LiveIn, Attached
    <2>5. /\ pc' \in {"loop", "connect"} /\ fn' \in {"none", "open"}
          /\ job' \in Job /\ cur' \in Attach /\ todo' \subseteq Ids
          /\ reply' \in [Reqs -> {"unsent", "waiting", "opened", "failed", "stopped"}]
          /\ Control' /\ LinkServesTerminals' /\ TermStateTold'
      BY <1>1, <2>1, <2>3, <2>4, ReconnectFailedFacts
    <2>6. TypeOK'
      BY <1>0, <1>1, <1>3, <2>3, <2>5 DEF TypeOK
    <2> QED
      BY <1>2, <2>5, <2>6
  <1> QED
    BY <1>4, <1>5 DEF ConnectErr

\* A failed attach ends an Open, or counts as a lost connection.
LEMMA AttachErrInv == ASSUME IInv, NEW e \in Down, AttachErr(e) PROVE IInv'
  <1> USE DEF IInv
  <1>0. UNCHANGED <<pending, nextId, outq, heard>>
    BY DEF AttachErr
  <1>1. faults' \in 0 .. MaxFaults
    BY TermsAssumption DEF AttachErr, TypeOK
  <1>2. CASE fn = "open"
    <2>1. /\ ToLoop /\ IdleIfEmpty(slot, "Up", term, backoff)
          /\ reply' = Answer(job.req, "failed") /\ UNCHANGED <<slot, view, ptys>>
      BY <1>2 DEF AttachErr
    <2>2. /\ link' \in {"Idle", "Up", "Busy"} \cup Down
          /\ term' \in {"none", "Up"} \cup Down
          /\ backoff' \in 0 .. MaxBackoff
          /\ conn' \in {"up", "gone"}
      BY <2>1, IdleTyped DEF TypeOK
    <2>3. IF Live = {} THEN link' = "Idle" /\ term' = "none" ELSE link' = "Up" /\ term' = "Up"
      BY <1>2, <2>1 DEF AttachErr, IdleIfEmpty, Control, Live
    <2>4. TypeOK'
      BY <1>0, <1>1, <2>1, <2>2, NoneTyped DEF ToLoop, TypeOK, Answer
    <2>5. Views' /\ NoStrayPty'
      BY <1>0, <2>1, MapUnchanged DEF TypeOK, NoStrayPty, Owned, Attached
    <2>6. Live' = Live /\ \A i \in Live : Attached(i)'
      BY <1>2, <2>1 DEF AttachErr, Control, Live, LiveIn, Attached
    <2> QED
      BY <2>1, <2>3, <2>4, <2>5, <2>6
      DEF ToLoop, Control, LinkServesTerminals, TermStateTold, Down
  <1>3. CASE fn \in {"reconnect", "ended"}
    <2>0. Lost
      BY <1>3 DEF AttachErr
    <2>1. /\ slot' \in [Ids -> Slot] /\ ptys' \subseteq Pty
          /\ view' \in [Ids -> {"none", "attached", "detached", "exited", "closed"}]
          /\ backoff' \in 0 .. MaxBackoff /\ conn' \in {"up", "gone"}
          /\ Live' = Live /\ \A j \in Ids : ~Attached(j)'
          /\ IF Live = {} THEN link' = "Idle" /\ term' = "none"
                          ELSE link' = "Retrying" /\ term' = "Retrying"
          /\ Views' /\ NoStrayPty'
      BY <1>0, <2>0, LostFacts
    <2>2. CASE fn = "reconnect"
      <3>1. ReconnectFailed
        BY <2>2 DEF AttachErr
      <3>2. /\ pc' \in {"loop", "connect"} /\ fn' \in {"none", "open"}
            /\ job' \in Job /\ cur' \in Attach /\ todo' \subseteq Ids
            /\ reply' \in [Reqs -> {"unsent", "waiting", "opened", "failed", "stopped"}]
            /\ Control' /\ LinkServesTerminals' /\ TermStateTold'
        BY <2>1, <3>1, ReconnectFailedFacts DEF Down
      <3>3. TypeOK'
        BY <1>0, <1>1, <2>1, <3>2 DEF TypeOK, Down
      <3> QED
        BY <2>1, <3>2, <3>3
    <2>3. CASE fn = "ended"
      <3>1. ToLoop /\ UNCHANGED reply
        BY <2>3 DEF AttachErr
      <3>2. TypeOK'
        BY <1>0, <1>1, <2>1, <3>1, NoneTyped DEF ToLoop, TypeOK, Down
      <3> QED
        BY <2>1, <3>1, <3>2
        DEF ToLoop, Control, LinkServesTerminals, TermStateTold, Down, Live, LiveIn
    <2> QED
      BY <1>3, <2>2, <2>3
  <1> QED
    BY <1>2, <1>3 DEF AttachErr

\* Putting a terminal back into the map with its new PTY, over slots where it
\* was not attached: the new PTY is the only running one of that terminal.
LEMMA AttachFacts ==
  ASSUME IInv, cur.id \in Ids, ~Attached(cur.id), NEW x \in Slot,
         x.state = "attached", x.gen = cur.gen, cur.id < nextId,
         slot' = [slot EXCEPT ![cur.id] = x],
         view' = [view EXCEPT ![cur.id] = "attached"],
         ptys' = ptys \cup {NewPty("run")}, UNCHANGED heard
  PROVE  /\ slot' \in [Ids -> Slot] /\ ptys' \subseteq Pty
         /\ view' \in [Ids -> {"none", "attached", "detached", "exited", "closed"}]
         /\ Live' = Live \cup {cur.id} /\ slot'[cur.id].state = "attached"
         /\ \A j \in Ids \ {cur.id} : Attached(j)' <=> Attached(j)
         /\ \A i \in Ids :
              /\ i >= nextId => view'[i] = "none" /\ slot'[i].gen = 0 /\ heard'[i] = 0
              /\ slot'[i].state = "none" => view'[i] \notin {"attached", "detached"}
              /\ slot'[i].state # "none" => view'[i] = slot'[i].state
         /\ NoStrayPty'
  <1> USE DEF IInv
  <1>0. slot \in [Ids -> Slot]
    BY DEF TypeOK
  <1>1. /\ slot' \in [Ids -> Slot] /\ slot'[cur.id] = x
        /\ \A j \in Ids \ {cur.id} : slot'[j] = slot[j]
    BY <1>0
  <1>2. ptys' \subseteq Pty
    BY DEF TypeOK, NewPty, Pty, Attach
  <1>3. view' \in [Ids -> {"none", "attached", "detached", "exited", "closed"}]
    BY DEF TypeOK
  <1>4. /\ Live' = Live \cup {cur.id} /\ slot'[cur.id].state = "attached"
        /\ \A j \in Ids \ {cur.id} : Attached(j)' <=> Attached(j)
    BY <1>1 DEF Live, LiveIn, Attached
  <1>5. \A i \in Ids :
          /\ i >= nextId => view'[i] = "none" /\ slot'[i].gen = 0 /\ heard'[i] = 0
          /\ slot'[i].state = "none" => view'[i] \notin {"attached", "detached"}
          /\ slot'[i].state # "none" => view'[i] = slot'[i].state
    BY <1>1 DEF Views, TypeOK, Ids
  <1>6. NoStrayPty'
    <2> SUFFICES ASSUME NEW q \in ptys', q.st = "run" PROVE Owned(q)'
      BY DEF NoStrayPty
    <2>1. CASE q = NewPty("run")
      BY <1>1, <2>1 DEF NewPty, Owned, Attached
    <2>2. CASE q \in ptys
      <3>1. Owned(q) /\ q.id \in Ids
        BY <2>2 DEF NoStrayPty, TypeOK, Pty
      <3> QED
        BY <1>1, <3>1 DEF Owned, Attached
    <2> QED
      BY <2>1, <2>2
  <1> QED
    BY <1>1, <1>2, <1>3, <1>4, <1>5, <1>6

\* The same for a terminal of reconnect or channel_ended, which may have been
\* closed while it was being attached.
LEMMA ResumeFacts ==
  ASSUME IInv, cur.id \in Ids, cur.id < nextId, cur.id \in Live => ~Attached(cur.id),
         Resume, UNCHANGED heard
  PROVE  /\ slot' \in [Ids -> Slot] /\ ptys' \subseteq Pty
         /\ view' \in [Ids -> {"none", "attached", "detached", "exited", "closed"}]
         /\ Live' = Live /\ (cur.id \in Live => slot'[cur.id].state = "attached")
         /\ \A j \in Ids \ {cur.id} : Attached(j)' <=> Attached(j)
         /\ \A i \in Ids :
              /\ i >= nextId => view'[i] = "none" /\ slot'[i].gen = 0 /\ heard'[i] = 0
              /\ slot'[i].state = "none" => view'[i] \notin {"attached", "detached"}
              /\ slot'[i].state # "none" => view'[i] = slot'[i].state
         /\ NoStrayPty'
  <1> USE DEF IInv
  <1>1. CASE cur.id \in Live
    <2> DEFINE x == [slot[cur.id] EXCEPT !.state = "attached", !.gen = cur.gen]
    <2>1. slot[cur.id] \in Slot /\ cur.gen \in Nat
      BY DEF TypeOK, Attach
    <2>2. x \in Slot /\ x.state = "attached" /\ x.gen = cur.gen
      BY <2>1 DEF Slot
    <2>3. slot' = [slot EXCEPT ![cur.id] = x]
      BY <1>1, <2>1 DEF Resume, TypeOK, Slot
    <2>4. /\ view' = [view EXCEPT ![cur.id] = "attached"]
          /\ ptys' = ptys \cup {NewPty("run")}
      BY <1>1 DEF Resume
    <2> HIDE DEF x
    <2>5. Live' = Live
      BY <1>1, <2>2, <2>3 DEF Live, LiveIn, TypeOK
    <2>6. ~Attached(cur.id)
      BY <1>1
    <2> QED
      BY <2>2, <2>3, <2>4, <2>5, <2>6, AttachFacts
  <1>2. CASE cur.id \notin Live
    <2>1. ptys' = ptys \cup {NewPty("told")} /\ UNCHANGED <<slot, view, heard>>
      BY <1>2 DEF Resume
    <2>2. ptys' \subseteq Pty
      BY <2>1 DEF TypeOK, NewPty, Pty, Attach
    <2>3. NoStrayPty'
      BY <2>1 DEF NoStrayPty, NewPty, Owned, Attached
    <2> QED
      BY <1>2, <2>1, <2>2, <2>3 DEF TypeOK, Live, LiveIn, Attached, Views
  <1> QED
    BY <1>1, <1>2

\* An attached PTY belongs to its terminal, or is closed with it at once.
LEMMA AttachOkInv == ASSUME IInv, AttachOk PROVE IInv'
  <1> USE DEF IInv
  <1>0. UNCHANGED <<pending, outq, faults, heard>> /\ cur.id \in Ids /\ cur.id < nextId
    BY DEF AttachOk, Control
  <1>1. CASE fn = "open"
    <2> DEFINE x == [state |-> "attached", gen |-> cur.gen, quick |-> 0, size |-> cur.size]
    <2>1. /\ ToLoop /\ link' = "Up" /\ UNCHANGED <<nextId, backoff, term, conn>>
          /\ slot' = [slot EXCEPT ![cur.id] = x]
          /\ view' = [view EXCEPT ![cur.id] = "attached"]
          /\ ptys' = ptys \cup {NewPty("run")} /\ reply' = Answer(job.req, "opened")
      BY <1>1 DEF AttachOk
    <2>2. x \in Slot /\ x.state = "attached" /\ x.gen = cur.gen
      BY DEF TypeOK, Attach, Slot
    <2>3. /\ ~Attached(cur.id) /\ term = "Up"
          /\ \A i \in Live : i \in Ids /\ Attached(i)
      BY <1>0, <1>1 DEF AttachOk, Control, Live, LiveIn, Attached
    <2> HIDE DEF x
    <2>4. /\ slot' \in [Ids -> Slot] /\ ptys' \subseteq Pty
          /\ view' \in [Ids -> {"none", "attached", "detached", "exited", "closed"}]
          /\ Live' = Live \cup {cur.id} /\ slot'[cur.id].state = "attached"
          /\ \A j \in Ids \ {cur.id} : Attached(j)' <=> Attached(j)
          /\ \A i \in Ids :
               /\ i >= nextId => view'[i] = "none" /\ slot'[i].gen = 0 /\ heard'[i] = 0
               /\ slot'[i].state = "none" => view'[i] \notin {"attached", "detached"}
               /\ slot'[i].state # "none" => view'[i] = slot'[i].state
          /\ NoStrayPty'
      BY <1>0, <2>1, <2>2, <2>3, AttachFacts
    <2>5. TypeOK'
      BY <1>0, <2>1, <2>4, NoneTyped DEF ToLoop, TypeOK, Answer
    <2>6. Views'
      BY <2>1, <2>4 DEF Views
    <2>7. Control' /\ LinkServesTerminals' /\ TermStateTold'
      <3>1. \A i \in Live' : Attached(i)'
        BY <2>3, <2>4 DEF Attached
      <3> QED
        BY <2>1, <2>3, <2>4, <3>1
        DEF ToLoop, Control, LinkServesTerminals, TermStateTold, Down
    <2> QED
      BY <2>4, <2>5, <2>6, <2>7
  <1>2. CASE fn \in {"reconnect", "ended"}
    <2>0. Resume /\ (cur.id \in Live => ~Attached(cur.id))
      BY <1>2 DEF AttachOk, Control
    <2>1. /\ slot' \in [Ids -> Slot] /\ ptys' \subseteq Pty
          /\ view' \in [Ids -> {"none", "attached", "detached", "exited", "closed"}]
          /\ Live' = Live /\ (cur.id \in Live => slot'[cur.id].state = "attached")
          /\ \A j \in Ids \ {cur.id} : Attached(j)' <=> Attached(j)
          /\ \A i \in Ids :
               /\ i >= nextId => view'[i] = "none" /\ slot'[i].gen = 0 /\ heard'[i] = 0
               /\ slot'[i].state = "none" => view'[i] \notin {"attached", "detached"}
               /\ slot'[i].state # "none" => view'[i] = slot'[i].state
          /\ NoStrayPty'
      BY <1>0, <2>0, ResumeFacts
    <2>2. CASE fn = "reconnect"
      <3>1. AttachNext(slot', todo) /\ UNCHANGED reply
        BY <2>2 DEF AttachOk
      <3>2. \A i \in Live : i \in Ids /\ (Attached(i) <=> i \notin todo \cup {cur.id})
        BY <2>2 DEF AttachOk, Control, Live, LiveIn
      <3>3. todo \ {cur.id} \in SUBSET Ids /\ todo \in SUBSET Ids
        BY DEF TypeOK
      <3>4. cur.id \notin todo
        BY <2>2 DEF AttachOk, Control
      <3>5. \A i \in Live' : (Attached(i)' <=> i \notin todo) /\ i < nextId
        BY <2>1, <3>2, <3>4, LiveIsOld DEF Attached
      <3>6. /\ pc' \in {"loop", "connect", "attach", "stopped"}
            /\ fn' \in {"none", "open", "reconnect", "ended"}
            /\ job' \in Job /\ cur' \in Attach /\ todo' \subseteq Ids /\ nextId' \in Nat \ {0}
            /\ link' \in {"Idle", "Up", "Busy"} \cup Down /\ term' \in {"none", "Up"} \cup Down
            /\ backoff' \in 0 .. MaxBackoff /\ conn' \in {"up", "gone"}
            /\ Views' /\ Control' /\ LinkServesTerminals' /\ TermStateTold'
        BY <2>1, <3>1, <3>3, <3>5, AttachNextFacts
      <3> QED
        BY <1>0, <2>1, <3>1, <3>6 DEF TypeOK
    <2>3. CASE fn = "ended"
      <3>1. /\ IdleIfEmpty(slot', "Up", term, backoff) /\ ToLoop
            /\ UNCHANGED <<nextId, reply>>
        BY <2>3 DEF AttachOk
      <3>2. term = "Up" /\ \A i \in Live : i \in Ids /\ (Attached(i) <=> i # cur.id)
        BY <2>3 DEF AttachOk, Control, Live, LiveIn
      <3>3. \A i \in Live' : Attached(i)'
        BY <2>1, <3>2 DEF Attached
      <3>4. /\ link' \in {"Idle", "Up", "Busy"} \cup Down
            /\ term' \in {"none", "Up"} \cup Down
            /\ backoff' \in 0 .. MaxBackoff
            /\ conn' \in {"up", "gone"}
        BY <3>1, IdleTyped DEF TypeOK
      <3>5. IF Live' = {} THEN link' = "Idle" /\ term' = "none"
                          ELSE link' = "Up" /\ term' = "Up"
        BY <3>1, <3>2 DEF IdleIfEmpty, Live
      <3>6. TypeOK'
        BY <1>0, <2>1, <3>1, <3>4, NoneTyped DEF ToLoop, TypeOK
      <3>7. Views'
        BY <2>1, <3>1 DEF Views
      <3> QED
        BY <2>1, <3>1, <3>3, <3>5, <3>6, <3>7
        DEF ToLoop, Control, LinkServesTerminals, TermStateTold, Down
    <2> QED
      BY <1>2, <2>2, <2>3
  <1> QED
    BY <1>1, <1>2 DEF AttachOk

\* A terminal that finished leaves the map, the last one takes the link along.
LEMMA FinishInv ==
  ASSUME IInv, NEW i \in Ids, Attached(i), pc = "loop", Finish(i),
         outq' \in Seq(Tagged), UNCHANGED <<heard, pending, nextId, faults, reply>>
  PROVE  IInv'
  <1> USE DEF IInv
  <1>1. /\ slot' \in [Ids -> Slot] /\ ptys' \subseteq Pty
        /\ view' \in [Ids -> {"none", "attached", "detached", "exited", "closed"}]
        /\ Live' = Live \ {i}
        /\ \A j \in Ids : slot'[j].gen = slot[j].gen
        /\ \A j \in Ids \ {i} : view'[j] = view[j] /\ (Attached(j)' <=> Attached(j))
        /\ Views' /\ NoStrayPty'
    BY RemoveFacts DEF Finish, Live, LiveIn, Attached
  <1>2. LiveIn(slot') = Live'
    BY DEF Live
  <1>3. IdleIfEmpty(slot', link, term, backoff) /\ UNCHANGED taskVars
    BY DEF Finish
  <1>4. /\ link' \in {"Idle", "Up", "Busy"} \cup Down
        /\ term' \in {"none", "Up"} \cup Down
        /\ backoff' \in 0 .. MaxBackoff
        /\ conn' \in {"up", "gone"}
    BY <1>3, IdleTyped DEF TypeOK
  <1>5. TypeOK'
    BY <1>1, <1>3, <1>4 DEF TypeOK, taskVars
  <1>6. Control' /\ LinkServesTerminals' /\ TermStateTold'
    BY <1>1, <1>2, <1>3 DEF taskVars, IdleIfEmpty, Control, LinkServesTerminals,
       TermStateTold, Down, Live, LiveIn
  <1> QED
    BY <1>1, <1>5, <1>6

\* A closed channel ends the terminal or detaches it for its reattach.
LEMMA ChannelEndedInv ==
  ASSUME IInv, NEW i \in Ids, Attached(i), pc = "loop", link = "Up", ChannelEnded(i),
         outq' \in Seq(Tagged), UNCHANGED <<heard, pending, nextId, faults, reply>>
  PROVE  IInv'
  <1> USE DEF IInv
  <1>1. CASE Finish(i)
    BY <1>1, FinishInv
  <1>2. ASSUME NEW q \in Nat,
               slot' = [slot EXCEPT ![i].state = "detached", ![i].quick = q],
               view' = [view EXCEPT ![i] = "detached"],
               ptys' = Hang({i}),
               BeginAttach("ended", i, slot[i].gen + 1, slot[i].size),
               UNCHANGED <<job, todo, term, backoff, conn>>
        PROVE  IInv'
    <2>0. slot \in [Ids -> Slot] /\ slot[i] \in Slot /\ i \in Live /\ i < nextId
      BY LiveIsOld DEF TypeOK, Live, LiveIn, Attached
    <2>1. /\ slot' \in [Ids -> Slot]
          /\ \A j \in Ids : slot'[j].gen = slot[j].gen
          /\ \A j \in Ids \ {i} : slot'[j].state = slot[j].state
          /\ slot'[i].state = "detached"
      BY <1>2, <2>0 DEF Slot
    <2>2. ptys' \subseteq Pty
      BY <1>2, HangTyped
    <2>3. /\ pc' = "attach" /\ fn' = "ended" /\ link' = "Busy" /\ cur' \in Attach
          /\ cur'.id = i /\ cur'.gen = slot'[i].gen + 1
      BY <1>2, <2>0, <2>1 DEF BeginAttach, Attach, Slot
    <2>4. TypeOK'
      BY <1>2, <2>1, <2>2, <2>3 DEF TypeOK
    <2>5. \A j \in Live' : Attached(j)' <=> j # i
      BY <2>1 DEF LinkServesTerminals, Live, LiveIn, Attached
    <2>6. Control'
      BY <1>2, <2>0, <2>3, <2>5 DEF Control, TermStateTold
    <2>7. Views'
      BY <1>2, <2>0, <2>1 DEF Views, TypeOK, Live, LiveIn, Ids
    <2>8. NoStrayPty'
      BY <1>2, <2>1 DEF NoStrayPty, Hang, Owned, Attached, TypeOK, Pty
    <2> QED
      BY <2>3, <2>4, <2>6, <2>7, <2>8 DEF LinkServesTerminals, TermStateTold
  <1>3. slot[i].quick + 1 \in Nat /\ 0 \in Nat
    BY DEF TypeOK, Slot
  <1>4. \/ Finish(i)
        \/ \E q \in {slot[i].quick + 1, 0} :
             /\ slot' = [slot EXCEPT ![i].state = "detached", ![i].quick = q]
             /\ view' = [view EXCEPT ![i] = "detached"]
             /\ ptys' = Hang({i})
             /\ BeginAttach("ended", i, slot[i].gen + 1, slot[i].size)
             /\ UNCHANGED <<job, todo, term, backoff, conn>>
    <2>1. PICK soon \in BOOLEAN :
            LET q == IF soon THEN slot[i].quick + 1 ELSE 0 IN
            \/ q >= MaxQuickEnds /\ Finish(i)
            \/ /\ q < MaxQuickEnds
               /\ slot' = [slot EXCEPT ![i].state = "detached", ![i].quick = q]
               /\ view' = [view EXCEPT ![i] = "detached"]
               /\ ptys' = Hang({i})
               /\ BeginAttach("ended", i, slot[i].gen + 1, slot[i].size)
               /\ UNCHANGED <<job, todo, term, backoff, conn>>
      BY DEF ChannelEnded
    <2>2. CASE soon
      BY <2>1, <2>2
    <2>3. CASE ~soon
      BY <2>1, <2>3
    <2> QED
      BY <2>2, <2>3
  <1> QED
    BY <1>1, <1>2, <1>3, <1>4

\* Every kind of output, of a present and of an earlier PTY.
LEMMA OutputInv == ASSUME IInv, Output PROVE IInv'
  <1> USE DEF IInv
  <1> DEFINE m == Head(outq)
  <1>0. /\ pc = "loop" /\ UNCHANGED <<pending, nextId, faults, reply>>
        /\ m \in Tagged /\ outq' \in Seq(Tagged) /\ m.id \in Ids
    <2>1. Head(outq) \in Tagged /\ Tail(outq) \in Seq(Tagged)
      BY HeadTailProperties DEF Output, TypeOK
    <2> QED
      BY <2>1 DEF Output, AtSelect, Tagged
  <1> HIDE DEF m
  <1>1. CASE UNCHANGED <<taskVars, connVars, slot, ptys, tellVars>>
    <2>1. Views'
      BY <1>0, <1>1, MapUnchanged DEF tellVars, TypeOK
    <2> QED
      BY <1>0, <1>1, <2>1 DEF taskVars, connVars, tellVars, TypeOK, Control, Live, LiveIn,
         LinkServesTerminals, TermStateTold, NoStrayPty, Owned, Attached
  <1>2. CASE /\ Current(m) /\ heard' = [heard EXCEPT ![m.id] = m.gen + 1]
             /\ UNCHANGED <<taskVars, connVars, slot, ptys, view>>
    <2>1. heard' \in [Ids -> Nat]
      BY <1>0, <1>2 DEF TypeOK, Tagged
    <2>2. m.id \in Live /\ m.id < nextId
      BY <1>0, <1>2, LiveIsOld DEF Current, Attached, Live, LiveIn
    <2>3. Views'
      BY <1>0, <1>2, <2>2 DEF Views, TypeOK, Ids
    <2> QED
      BY <1>0, <1>2, <2>1, <2>3 DEF taskVars, connVars, TypeOK, Control, Live, LiveIn,
         LinkServesTerminals, TermStateTold, NoStrayPty, Owned, Attached
  <1>3. CASE Current(m) /\ Finish(m.id) /\ UNCHANGED heard
    BY <1>0, <1>3, FinishInv DEF Current
  <1>4. CASE Current(m) /\ link = "Up" /\ ChannelEnded(m.id) /\ UNCHANGED heard
    BY <1>0, <1>4, ChannelEndedInv DEF Current
  <1>5. CASE Lost /\ UNCHANGED taskVars /\ UNCHANGED heard
    <2>1. /\ slot' \in [Ids -> Slot] /\ ptys' \subseteq Pty
          /\ view' \in [Ids -> {"none", "attached", "detached", "exited", "closed"}]
          /\ backoff' \in 0 .. MaxBackoff /\ conn' \in {"up", "gone"}
          /\ Live' = Live /\ \A j \in Ids : ~Attached(j)'
          /\ IF Live = {} THEN link' = "Idle" /\ term' = "none"
                          ELSE link' = "Retrying" /\ term' = "Retrying"
          /\ Views' /\ NoStrayPty'
      BY <1>0, <1>5, LostFacts
    <2>2. TypeOK'
      BY <1>0, <1>5, <2>1 DEF TypeOK, taskVars, Down
    <2> QED
      BY <1>0, <1>5, <2>1, <2>2
      DEF taskVars, Control, LinkServesTerminals, TermStateTold, Down, Live, LiveIn
  <1>6. \/ UNCHANGED <<taskVars, connVars, slot, ptys, tellVars>>
        \/ /\ Current(m) /\ heard' = [heard EXCEPT ![m.id] = m.gen + 1]
           /\ UNCHANGED <<taskVars, connVars, slot, ptys, view>>
        \/ Current(m) /\ Finish(m.id) /\ UNCHANGED heard
        \/ Current(m) /\ link = "Up" /\ ChannelEnded(m.id) /\ UNCHANGED heard
        \/ Lost /\ UNCHANGED taskVars /\ UNCHANGED heard
    BY Zenon DEF Output, m
  <1> QED
    BY <1>1, <1>2, <1>3, <1>4, <1>5, <1>6

\* A PTY writes, or ends.
LEMMA PtyStepInv == ASSUME IInv, NEW p \in ptys, PtyStep(p) PROVE IInv'
  <1> USE DEF IInv
  <1>0. /\ UNCHANGED <<taskVars, connVars, slot, pending, nextId, tellVars, reply>>
        /\ ptys' \subseteq ptys
    BY DEF PtyStep, PtyData, PtyExit, PtyEnd
  <1>1. faults' \in 0 .. MaxFaults
    BY TermsAssumption DEF PtyStep, PtyData, PtyExit, PtyEnd, TypeOK
  <1>2. outq' \in Seq(Tagged)
    <2>1. \A o \in {"data", "exit", "end"} :
            /\ [id |-> p.id, gen |-> p.gen, out |-> o] \in Tagged
            /\ Say(p, o) \in Seq(Tagged)
      <3>1. \A o \in {"data", "exit", "end"} : [id |-> p.id, gen |-> p.gen, out |-> o] \in Tagged
        BY DEF TypeOK, Pty, Tagged
      <3> QED
        BY <3>1, AppendProperties DEF Say, TypeOK
    <2>2. <<[id |-> p.id, gen |-> p.gen, out |-> "end"]>> \in Seq(Tagged)
      BY <2>1
    <2> QED
      BY <2>1, <2>2, ConcatProperties DEF PtyStep, PtyData, PtyExit, PtyEnd
  <1>3. TypeOK'
    BY <1>0, <1>1, <1>2 DEF TypeOK, taskVars, connVars, tellVars
  <1>4. Views'
    BY <1>0, MapUnchanged DEF tellVars, TypeOK
  <1> QED
    BY <1>0, <1>3, <1>4 DEF taskVars, connVars, tellVars, Control, Live, LiveIn,
       LinkServesTerminals, TermStateTold, NoStrayPty, Owned, Attached

\* A step that changes nothing.
LEMMA StutterInv == ASSUME IInv, UNCHANGED vars PROVE IInv'
  BY DEF IInv, vars, TypeOK, Control, Views, LinkServesTerminals, TermStateTold, NoStrayPty,
     Owned, Attached, Live, LiveIn

\* IInv is inductive.
LEMMA NextInv == IInv /\ [Next]_vars => IInv'
  <1> SUFFICES ASSUME IInv, [Next]_vars PROVE IInv'
    OBVIOUS
  <1>1. CASE Command
    BY <1>1, OpenInv, CmdOpenBusyInv, CmdOpenStoppedInv, CmdCloseInv, CmdResizeInv,
       ReconnectInv, CmdStopInv DEF Command
  <1>2. CASE ConnectDone \/ AttachDone
    BY <1>2, ConnectOkInv, ConnectErrInv, AttachOkInv, AttachErrInv DEF ConnectDone, AttachDone
  <1>3. CASE PopPending \/ Timer \/ Output
    BY <1>3, OpenInv, ReconnectInv, OutputInv
  <1>4. CASE LinkDrop \/ \E p \in ptys : PtyStep(p)
    BY <1>4, LinkDropInv, PtyStepInv
  <1>5. CASE UNCHANGED vars
    BY <1>5, StutterInv
  <1> QED
    BY <1>1, <1>2, <1>3, <1>4, <1>5 DEF Next

\* The inductive invariant of the terminal task holds in every state it reaches:
\* wherever it waits, the link, the map of terminals and what it told agree.
THEOREM Invariance == Spec => []IInv
  BY InitInv, NextInv, PTL DEF Spec

\* Every state of the terminal task is well typed, for any number of requests,
\* terminals and failures.
THEOREM TypeCorrect == Spec => []TypeOK
  <1>1. IInv => TypeOK
    BY DEF IInv
  <1> QED
    BY <1>1, Invariance, PTL

\* Back at its loop, the task holds a connection exactly while it has
\* terminals, and the link serves all of them or none.
THEOREM LinkCorrect == Spec => []LinkServesTerminals
  <1>1. IInv => LinkServesTerminals
    BY DEF IInv
  <1> QED
    BY <1>1, Invariance, PTL

\* The app is told the state the terminal connection is in.
THEOREM TermStateCorrect == Spec => []TermStateTold
  <1>1. IInv => TermStateTold
    BY DEF IInv
  <1> QED
    BY <1>1, Invariance, PTL

\* No handler leaks a running `zellij attach`.
THEOREM NoPtyLeaks == Spec => []NoStrayPty
  <1>1. IInv => NoStrayPty
    BY DEF IInv
  <1> QED
    BY <1>1, Invariance, PTL

-----------------------------------------------------------------------------
(* Terms implements TermOwner.                                             *)

\* The terminals in the map are the ones their owners know to be open.
LEMMA OpenIsLive ==
  ASSUME IInv
  PROVE  Owner!Open = Live /\ \A i \in Ids : view[i] = "attached" <=> Attached(i)
  BY DEF IInv, Views, TypeOK, Slot, Owner!Open, Live, LiveIn, Attached

\* A step that changes no generation and no view, and delivers no output.
LEMMA OwnerStutter ==
  ASSUME UNCHANGED <<view, heard>>, \A i \in Ids : slot'[i].gen = slot[i].gen
  PROVE  UNCHANGED Owner!vars
  BY DEF Owner!vars, Reattachments

\* Detaching, closing or finishing terminals of the map.
LEMMA OwnerLeave ==
  ASSUME IInv, UNCHANGED heard, NEW S \in SUBSET Live,
         \A i \in Ids : slot'[i].gen = slot[i].gen,
         \/ view' = [i \in Ids |-> IF i \in S THEN "detached" ELSE view[i]]
         \/ view' = [i \in Ids |-> IF i \in S THEN "closed" ELSE view[i]]
  PROVE  [Owner!Next]_Owner!vars
  <1>0. UNCHANGED Reattachments /\ Live \subseteq Ids
    BY DEF Reattachments, Live, LiveIn
  <1>1. CASE S = {}
    <2>1. UNCHANGED view
      BY <1>1 DEF IInv, TypeOK
    <2> QED
      BY <1>0, <2>1 DEF Owner!vars
  <1>2. CASE S # {}
    <2>1. Owner!Detach(S) \/ Owner!Close(S)
      BY <1>0, <1>2, OpenIsLive DEF Owner!Detach, Owner!Close
    <2>2. S \in SUBSET Ids
      BY <1>0
    <2> QED
      BY <2>1, <2>2 DEF Owner!Next
  <1> QED
    BY <1>1, <1>2

\* Finishing is the owner's Exit.
LEMMA OwnerFinish ==
  ASSUME IInv, NEW i \in Ids, Attached(i), Finish(i), UNCHANGED heard
  PROVE  Owner!Next
  <1>1. \A j \in Ids : slot'[j].gen = slot[j].gen
    BY DEF IInv, TypeOK, Slot, Finish
  <1>2. Owner!Exit(i)
    BY <1>1, OpenIsLive DEF Owner!Exit, Finish, Reattachments
  <1> QED
    BY <1>2 DEF Owner!Next

\* A lost connection is the owner's Detach of all open terminals.
LEMMA OwnerLost ==
  ASSUME IInv, Lost, UNCHANGED heard PROVE [Owner!Next]_Owner!vars
  <1>1. \A j \in Ids : slot'[j].gen = slot[j].gen
    BY DEF IInv, TypeOK, Slot, Lost
  <1> QED
    BY <1>1, OwnerLeave DEF Lost

\* Output is the owner's Output, Exit or Detach, or is not told at all.
LEMMA OwnerOutput == ASSUME IInv, Output PROVE [Owner!Next]_Owner!vars
  <1> DEFINE m == Head(outq)
  <1>0. m.id \in Ids /\ m.gen \in Nat /\ slot \in [Ids -> Slot]
    <2>1. Head(outq) \in Tagged /\ slot \in [Ids -> Slot]
      BY HeadTailProperties DEF IInv, Output, TypeOK
    <2> QED
      BY <2>1 DEF Tagged
  <1> HIDE DEF m
  <1>1. CASE UNCHANGED <<taskVars, connVars, slot, ptys, tellVars>>
    BY <1>1, OwnerStutter DEF tellVars
  <1>2. CASE /\ Current(m) /\ heard' = [heard EXCEPT ![m.id] = m.gen + 1]
             /\ UNCHANGED <<slot, view>>
    <2>1. Owner!Output(m.id)
      BY <1>0, <1>2, OpenIsLive DEF Owner!Output, Current, Reattachments
    <2> QED
      BY <1>0, <2>1 DEF Owner!Next
  <1>3. CASE Current(m) /\ Finish(m.id) /\ UNCHANGED heard
    BY <1>0, <1>3, OwnerFinish DEF Current
  <1>4. CASE Current(m) /\ ChannelEnded(m.id) /\ UNCHANGED heard
    <2>1. CASE Finish(m.id)
      BY <1>0, <1>4, <2>1, OwnerFinish DEF Current
    <2>2. CASE ~Finish(m.id)
      <3>1. /\ \E q : slot' = [slot EXCEPT ![m.id].state = "detached", ![m.id].quick = q]
            /\ view' = [view EXCEPT ![m.id] = "detached"]
        BY <1>4, <2>2 DEF ChannelEnded
      <3>2. \A j \in Ids : slot'[j].gen = slot[j].gen
        BY <1>0, <3>1 DEF Slot
      <3>3. view' = [i \in Ids |-> IF i \in {m.id} THEN "detached" ELSE view[i]]
        BY <1>0, <3>1 DEF IInv, TypeOK
      <3>4. {m.id} \in SUBSET Live
        BY <1>0, <1>4 DEF Current, Attached, Live, LiveIn
      <3> QED
        BY <1>4, <3>2, <3>3, <3>4, OwnerLeave
    <2> QED
      BY <2>1, <2>2
  <1>5. CASE Lost /\ UNCHANGED heard
    BY <1>5, OwnerLost
  <1>6. \/ UNCHANGED <<taskVars, connVars, slot, ptys, tellVars>>
        \/ /\ Current(m) /\ heard' = [heard EXCEPT ![m.id] = m.gen + 1]
           /\ UNCHANGED <<taskVars, connVars, slot, ptys, view>>
        \/ Current(m) /\ Finish(m.id) /\ UNCHANGED heard
        \/ Current(m) /\ link = "Up" /\ ChannelEnded(m.id) /\ UNCHANGED heard
        \/ Lost /\ UNCHANGED taskVars /\ UNCHANGED heard
    BY Zenon DEF Output, m
  <1> QED
    BY <1>1, <1>2, <1>3, <1>4, <1>5, <1>6

\* An attach is the owner's Begin or Reattach, or is not told at all.
LEMMA OwnerAttachOk == ASSUME IInv, AttachOk PROVE [Owner!Next]_Owner!vars
  <1>0. /\ slot \in [Ids -> Slot] /\ cur.id \in Ids /\ cur.gen \in Nat
        /\ UNCHANGED heard
    BY DEF IInv, TypeOK, Control, AttachOk, Attach
  <1>1. CASE fn = "open"
    <2>1. /\ slot' = [slot EXCEPT ![cur.id] = [state |-> "attached", gen |-> cur.gen,
                                               quick |-> 0, size |-> cur.size]]
          /\ view' = [view EXCEPT ![cur.id] = "attached"]
      BY <1>1 DEF AttachOk
    <2>2. view[cur.id] = "none" /\ slot[cur.id].gen = 0 /\ cur.gen = 0
      BY <1>1 DEF IInv, Control, AttachOk
    <2>3. \A j \in Ids : slot'[j].gen = slot[j].gen
      BY <1>0, <2>1, <2>2 DEF Slot
    <2>4. Owner!Begin(cur.id)
      BY <1>0, <2>1, <2>2, <2>3 DEF Owner!Begin, Reattachments
    <2> QED
      BY <1>0, <2>4 DEF Owner!Next
  <1>2. CASE fn # "open" /\ cur.id \in Live
    <2>1. /\ slot' = [slot EXCEPT ![cur.id].state = "attached", ![cur.id].gen = cur.gen]
          /\ view' = [view EXCEPT ![cur.id] = "attached"]
      BY <1>2 DEF AttachOk, Resume
    <2>2. slot[cur.id].state # "attached" /\ cur.gen = slot[cur.id].gen + 1
      BY <1>2 DEF IInv, Control, AttachOk, Attached
    <2>3. view[cur.id] = "detached"
      BY <1>0, <1>2, <2>2 DEF IInv, Views, Live, LiveIn, Slot
    <2>4. /\ slot'[cur.id].gen = slot[cur.id].gen + 1
          /\ \A j \in Ids \ {cur.id} : slot'[j].gen = slot[j].gen
      BY <1>0, <2>1, <2>2 DEF Slot
    <2>5. Reattachments' = [Reattachments EXCEPT ![cur.id] = @ + 1]
      BY <1>0, <2>4 DEF Reattachments
    <2>6. Owner!Reattach(cur.id)
      BY <1>0, <2>1, <2>3, <2>5 DEF Owner!Reattach
    <2> QED
      BY <1>0, <2>6 DEF Owner!Next
  <1>3. CASE fn # "open" /\ cur.id \notin Live
    <2>1. UNCHANGED <<slot, view>>
      BY <1>3 DEF AttachOk, Resume
    <2> QED
      BY <1>0, <2>1, OwnerStutter
  <1> QED
    BY <1>1, <1>2, <1>3

\* Every step of the task is a step of the owners' contract or leaves what
\* they see alone.
LEMMA OwnerStep == IInv /\ [Next]_vars => [Owner!Next]_Owner!vars
  <1> SUFFICES ASSUME IInv, [Next]_vars PROVE [Owner!Next]_Owner!vars
    OBVIOUS
  <1>0. slot \in [Ids -> Slot]
    BY DEF IInv, TypeOK
  <1>1. CASE UNCHANGED <<slot, view, heard>>
    BY <1>1, OwnerStutter
  <1>2. ASSUME NEW i \in Ids, NEW z \in Sizes, CmdResize(i, z) PROVE [Owner!Next]_Owner!vars
    <2>1. \A j \in Ids : slot'[j].gen = slot[j].gen
      BY <1>0, <1>2 DEF CmdResize, Slot
    <2> QED
      BY <1>2, <2>1, OwnerStutter DEF CmdResize, tellVars
  <1>3. ASSUME NEW i \in Ids, CmdClose(i) PROVE [Owner!Next]_Owner!vars
    <2>1. \A j \in Ids : slot'[j].gen = slot[j].gen
      BY <1>0, <1>3 DEF CmdClose, Slot
    <2>2. view' = [j \in Ids |-> IF j \in {i} THEN "closed" ELSE view[j]]
      BY <1>3 DEF CmdClose, IInv, TypeOK
    <2>3. {i} \in SUBSET Live /\ UNCHANGED heard
      BY <1>3 DEF CmdClose
    <2> QED
      BY <2>1, <2>2, <2>3, OwnerLeave
  <1>4. CASE CmdStop
    <2>1. \A j \in Ids : slot'[j].gen = slot[j].gen
      BY <1>0, <1>4 DEF CmdStop, Slot
    <2> QED
      BY <1>4, <2>1, OwnerLeave DEF CmdStop
  <1>5. ASSUME NEW e \in Down, AttachErr(e) PROVE [Owner!Next]_Owner!vars
    <2>1. CASE Lost
      BY <1>5, <2>1, OwnerLost DEF AttachErr
    <2>2. CASE ~Lost
      BY <1>5, <2>2, OwnerStutter DEF AttachErr
    <2> QED
      BY <2>1, <2>2
  <1>6. ASSUME \/ \E r \in Reqs, z \in Sizes : CmdOpen(r, z) \/ CmdOpenBusy(r, z)
               \/ \E r \in Reqs : CmdOpenStopped(r)
               \/ CmdRetry \/ PopPending \/ Timer \/ ConnectDone \/ LinkDrop
               \/ \E p \in ptys : PtyStep(p)
        PROVE  UNCHANGED <<slot, view, heard>>
    BY <1>6 DEF CmdOpen, CmdOpenBusy, CmdOpenStopped, CmdRetry, PopPending, Timer, Reconnect,
       BeginOpen, ConnectDone, ConnectOk, ConnectErr, LinkDrop, PtyStep, tellVars
  <1>7. CASE UNCHANGED vars
    BY <1>1, <1>7 DEF vars
  <1> QED
    BY <1>1, <1>2, <1>3, <1>4, <1>5, <1>6, <1>7, OwnerOutput, OwnerAttachOk
    DEF Next, Command, AttachDone

\* The terminal task implements the contract of the terminals' owners.
THEOREM TermsImplementsOwner == Spec => OwnerContract
  <1>1. Init => Owner!Init
    BY DEF Init, Owner!Init, Reattachments
  <1> QED
    BY <1>1, OwnerStep, Invariance, PTL DEF Spec, OwnerContract, Owner!Spec

-----------------------------------------------------------------------------
(* What an attached terminal is attached to.                               *)

\* The end of the PTY of terminal i with generation g is in the queue q.
EndIn(q, i, g) ==
  \E k \in DOMAIN q : q[k].id = i /\ q[k].gen = g /\ q[k].out \in {"exit", "end"}

\* A terminal that is attached again was attached before, and no PTY is newer
\* than the generation its terminal remembers.
Begun == pc = "attach" /\ fn # "open" => view[cur.id] # "none"
PtyAges ==
  \A p \in ptys : view[p.id] # "none" /\ (p.id \in Live => p.gen <= slot[p.id].gen)

\* What is said after it does not hide an end.
LEMMA EndStays ==
  ASSUME NEW q \in Seq(Tagged), NEW r \in Seq(Tagged), NEW i, NEW g, EndIn(q, i, g)
  PROVE  EndIn(q \o r, i, g)
  <1>1. PICK k \in DOMAIN q : q[k].id = i /\ q[k].gen = g /\ q[k].out \in {"exit", "end"}
    BY DEF EndIn
  <1>2. k \in DOMAIN (q \o r) /\ (q \o r)[k] = q[k]
    BY ConcatProperties
  <1> QED
    BY <1>1, <1>2 DEF EndIn

\* An end is in the queue once it is said.
LEMMA EndSaid ==
  ASSUME NEW q \in Seq(Tagged), NEW e \in Tagged
  PROVE  /\ e.out \in {"exit", "end"} => EndIn(Append(q, e), e.id, e.gen)
         /\ \A i, g : EndIn(q, i, g) => EndIn(Append(q, e), i, g)
  <1>1. Append(q, e)[Len(q) + 1] = e /\ Len(q) + 1 \in DOMAIN Append(q, e)
    BY AppendProperties
  <1>2. \A k \in DOMAIN q : k \in DOMAIN Append(q, e) /\ Append(q, e)[k] = q[k]
    BY AppendProperties
  <1> QED
    BY <1>1, <1>2 DEF EndIn

\* An end stays in the queue until it is taken.
LEMMA EndWaits ==
  ASSUME NEW q \in Seq(Tagged), q # <<>>, NEW i, NEW g, EndIn(q, i, g),
         ~(Head(q).id = i /\ Head(q).gen = g /\ Head(q).out \in {"exit", "end"})
  PROVE  EndIn(Tail(q), i, g)
  <1>1. PICK k \in DOMAIN q : q[k].id = i /\ q[k].gen = g /\ q[k].out \in {"exit", "end"}
    BY DEF EndIn
  <1>2. k \in 2 .. Len(q)
    BY <1>1
  <1>3. k - 1 \in DOMAIN Tail(q) /\ Tail(q)[k - 1] = q[k]
    BY <1>2
  <1> QED
    BY <1>1, <1>3 DEF EndIn

\* PTYs that are told to close are the same PTYs.
LEMMA HangSame ==
  ASSUME TypeOK, NEW S
  PROVE  /\ \A q \in Hang(S) : \E p \in ptys : p.id = q.id /\ p.gen = q.gen /\ p.size = q.size
         /\ \A p \in ptys : \E q \in Hang(S) : p.id = q.id /\ p.gen = q.gen
  <1> DEFINE Told(p) == IF p.id \in S /\ Owned(p) /\ p.st = "run"
                          THEN [p EXCEPT !.st = "told"] ELSE p
  <1>1. Hang(S) = {Told(p) : p \in ptys}
    BY DEF Hang
  <1>2. \A p \in ptys : Told(p).id = p.id /\ Told(p).gen = p.gen /\ Told(p).size = p.size
    BY DEF TypeOK, Pty
  <1> HIDE DEF Told
  <1> QED
    BY <1>1, <1>2

\* A step that attaches nothing and starts no PTY.
Quiet ==
  /\ \A i \in Ids : /\ slot'[i].gen = slot[i].gen /\ slot'[i].size = slot[i].size
                    /\ Attached(i)' => Attached(i)
  /\ ptys' = ptys \/ \E S : ptys' = Hang(S)

\* lost, closing and finishing are quiet.
LEMMA QuietParts ==
  ASSUME IInv, \/ Lost \/ CmdStop
               \/ \E i \in Ids : CmdClose(i) \/ Finish(i)
               \/ \E i \in Ids : \E q :
                    /\ slot' = [slot EXCEPT ![i].state = "detached", ![i].quick = q]
                    /\ ptys' = Hang({i})
  PROVE  Quiet
  <1>0. slot \in [Ids -> Slot]
    BY DEF IInv, TypeOK
  <1>1. CASE Lost
    BY <1>0, <1>1 DEF Lost, Quiet, Slot, Attached
  <1>2. CASE CmdStop
    BY <1>0, <1>2 DEF CmdStop, Quiet, Slot, Attached
  <1>3. ASSUME NEW i \in Ids, CmdClose(i) \/ Finish(i) PROVE Quiet
    <2>1. slot' = [slot EXCEPT ![i].state = "none"] /\ ptys' = Hang({i})
      BY <1>3 DEF CmdClose, Finish
    <2> QED
      BY <1>0, <2>1 DEF Quiet, Slot, Attached
  <1>4. ASSUME NEW i \in Ids, NEW q,
               slot' = [slot EXCEPT ![i].state = "detached", ![i].quick = q],
               ptys' = Hang({i})
        PROVE  Quiet
    BY <1>0, <1>4 DEF Quiet, Slot, Attached
  <1> QED
    BY <1>1, <1>2, <1>3, <1>4

\* What taking output from the queue does to its terminal.
LEMMA OutputQuiet ==
  ASSUME IInv, Output
  PROVE  /\ Quiet /\ outq # <<>> /\ outq' = Tail(outq)
         /\ Current(Head(outq)) /\ Head(outq).out \in {"exit", "end"}
              => \A i \in Ids : i = Head(outq).id => ~Attached(i)'
  <1>1. outq # <<>> /\ outq' = Tail(outq) /\ slot \in [Ids -> Slot]
    BY DEF IInv, Output, TypeOK
  <1>2. PICK m \in Tagged : m = Head(outq)
    BY <1>1, HeadTailProperties DEF IInv, TypeOK
  <1>3. PICK i \in Ids : i = m.id
    BY DEF Tagged
  <1>4. \/ ~Current(m) /\ UNCHANGED <<slot, ptys>>
        \/ Current(m) /\ m.out = "data" /\ UNCHANGED <<slot, ptys>>
        \/ Current(m) /\ Finish(i)
        \/ Current(m) /\ ChannelEnded(i)
        \/ Current(m) /\ Lost
    BY <1>2, <1>3, Zenon DEF Output
  <1>5. Quiet /\ (Current(m) /\ m.out \in {"exit", "end"} => ~Attached(i)')
    <2>1. CASE (~Current(m) \/ m.out = "data") /\ UNCHANGED <<slot, ptys>>
      BY <2>1 DEF Quiet, Attached
    <2>2. CASE Finish(i)
      <3>1. ~Attached(i)'
        BY <1>1, <2>2 DEF Finish, Attached, Slot
      <3>2. Quiet
        BY <2>2, QuietParts, Zenon
      <3> QED
        BY <3>1, <3>2
    <2>3. CASE Lost
      <3>1. ~Attached(i)'
        BY <1>1, <2>3 DEF Lost, Attached, Slot, Live, LiveIn
      <3>2. Quiet
        BY <2>3, QuietParts, Zenon
      <3> QED
        BY <3>1, <3>2
    <2>4. CASE ChannelEnded(i) /\ ~Finish(i)
      <3>1. PICK q : /\ slot' = [slot EXCEPT ![i].state = "detached", ![i].quick = q]
                     /\ ptys' = Hang({i})
        BY <2>4 DEF ChannelEnded
      <3>2. ~Attached(i)'
        BY <1>1, <3>1 DEF Attached, Slot
      <3>3. Quiet
        BY <3>1, QuietParts, Zenon
      <3> QED
        BY <3>2, <3>3
    <2> QED
      BY <1>4, <2>1, <2>2, <2>3, <2>4
  <1> QED
    BY <1>1, <1>2, <1>3, <1>5

\* Every step is quiet, except for those of the PTYs, Resize and AttachOk.
LEMMA StepKinds ==
  ASSUME IInv, [Next]_vars
  PROVE  \/ Quiet /\ outq' = outq
         \/ CmdStop
         \/ Output
         \/ \E p \in ptys : PtyStep(p)
         \/ \E i \in Ids, z \in Sizes : CmdResize(i, z)
         \/ AttachOk
  <1>1. CASE UNCHANGED <<slot, ptys, outq>>
    BY <1>1 DEF Quiet, Attached
  <1>2. ASSUME \/ \E r \in Reqs, z \in Sizes : CmdOpen(r, z) \/ CmdOpenBusy(r, z)
               \/ \E r \in Reqs : CmdOpenStopped(r)
               \/ CmdRetry \/ PopPending \/ Timer \/ ConnectDone \/ LinkDrop
        PROVE  UNCHANGED <<slot, ptys, outq>>
    BY <1>2 DEF CmdOpen, CmdOpenBusy, CmdOpenStopped, CmdRetry, PopPending, Timer, Reconnect,
       BeginOpen, ConnectDone, ConnectOk, ConnectErr, LinkDrop
  <1>3. ASSUME NEW i \in Ids, CmdClose(i) PROVE Quiet /\ outq' = outq
    BY <1>3, QuietParts DEF CmdClose
  <1>4. ASSUME NEW e \in Down, AttachErr(e) PROVE Quiet /\ outq' = outq
    <2>1. CASE Lost
      BY <1>4, <2>1, QuietParts DEF AttachErr
    <2>2. CASE ~Lost
      BY <1>4, <2>2 DEF AttachErr, Quiet, Attached
    <2> QED
      BY <2>1, <2>2
  <1>5. CASE UNCHANGED vars
    BY <1>1, <1>5 DEF vars
  <1> QED
    BY <1>1, <1>2, <1>3, <1>4, <1>5 DEF Next, Command, AttachDone

\* What a new PTY does to the map.
LEMMA AttachOkFacts ==
  ASSUME IInv, AttachOk
  PROVE  /\ outq' = outq /\ cur.id \in Ids /\ cur.gen \in Nat /\ cur.size \in Sizes
         /\ \E st \in {"run", "told"} : ptys' = ptys \cup {NewPty(st)}
         /\ \/ /\ fn = "open" /\ view[cur.id] = "none"
               /\ slot' = [slot EXCEPT ![cur.id] = [state |-> "attached", gen |-> cur.gen,
                                                    quick |-> 0, size |-> cur.size]]
            \/ /\ fn # "open" /\ cur.id \in Live /\ cur.gen = slot[cur.id].gen + 1
               /\ slot' = [slot EXCEPT ![cur.id].state = "attached", ![cur.id].gen = cur.gen]
            \/ fn # "open" /\ cur.id \notin Live /\ slot' = slot
  <1>1. cur.id \in Ids /\ cur.gen \in Nat /\ cur.size \in Sizes /\ outq' = outq /\ pc = "attach"
    BY DEF IInv, TypeOK, Control, AttachOk, Attach
  <1>2. CASE fn = "open"
    BY <1>1, <1>2 DEF AttachOk, IInv, Control
  <1>3. CASE fn # "open"
    <2>1. Resume
      BY <1>3 DEF AttachOk
    <2>2. cur.gen = slot[cur.id].gen + 1
      BY <1>1, <1>3 DEF IInv, Control
    <2> QED
      BY <1>1, <1>3, <2>1, <2>2 DEF Resume
  <1> QED
    BY <1>2, <1>3

\* A new PTY is its terminal's, if that is still there.
LEMMA AttachOkServed == ASSUME IInv, AttachedIsServed, AttachOk PROVE AttachedIsServed'
  <1>1. slot \in [Ids -> Slot] /\ outq' = outq /\ cur.id \in Ids
    BY AttachOkFacts DEF IInv, TypeOK
  <1>2. PICK st \in {"run", "told"} : ptys' = ptys \cup {NewPty(st)}
    BY AttachOkFacts
  <1>3. NewPty(st) \in ptys' /\ NewPty(st).id = cur.id /\ NewPty(st).gen = cur.gen
    <2>1. NewPty(st) \in ptys'
      BY <1>2
    <2> QED
      BY <2>1 DEF NewPty
  <1>4. ASSUME NEW i \in Ids, Attached(i)'
        PROVE  \/ i = cur.id /\ slot'[i].gen = cur.gen
               \/ Attached(i) /\ slot'[i].gen = slot[i].gen
    BY <1>1, <1>4, AttachOkFacts DEF Attached, Slot
  <1>5. ASSUME NEW i \in Ids, Attached(i)'
        PROVE  \/ \E p \in ptys' : p.id = i /\ p.gen = slot'[i].gen
               \/ EndIn(outq', i, slot'[i].gen)
    <2>1. CASE i = cur.id /\ slot'[i].gen = cur.gen
      BY <1>3, <2>1
    <2>2. CASE Attached(i) /\ slot'[i].gen = slot[i].gen
      BY <1>1, <1>2, <2>2 DEF AttachedIsServed, EndIn
    <2> QED
      BY <1>4, <1>5, <2>1, <2>2
  <1> QED
    BY <1>5 DEF AttachedIsServed, EndIn

\* A PTY that ends says so.
LEMMA PtyStepServed ==
  ASSUME IInv, AttachedIsServed, NEW p \in ptys, PtyStep(p) PROVE AttachedIsServed'
  <1>1. slot' = slot /\ outq \in Seq(Tagged)
    BY DEF PtyStep, IInv, TypeOK
  <1>2. \A o \in {"data", "exit", "end"} : [id |-> p.id, gen |-> p.gen, out |-> o] \in Tagged
    BY DEF IInv, TypeOK, Pty, Tagged
  <1>3. PICK o \in {"data", "exit", "end"}, r \in Seq(Tagged) :
          /\ outq' = Say(p, o) \o r
          /\ ptys' = IF o = "data" THEN ptys ELSE ptys \ {p}
    <2>1. \A o \in {"data", "exit", "end"} : Say(p, o) \in Seq(Tagged)
      BY <1>1, <1>2, AppendProperties DEF Say
    <2>2. <<>> \in Seq(Tagged) /\ <<[id |-> p.id, gen |-> p.gen, out |-> "end"]>> \in Seq(Tagged)
      BY <1>2
    <2>3. \A o \in {"data", "exit", "end"} : Say(p, o) \o <<>> = Say(p, o)
      BY <2>1, ConcatEmptySeq
    <2>4. CASE PtyData(p)
      BY <2>2, <2>3, <2>4 DEF PtyData
    <2>5. CASE PtyExit(p)
      BY <2>2, <2>5 DEF PtyExit
    <2>6. CASE PtyEnd(p)
      BY <2>2, <2>3, <2>6 DEF PtyEnd
    <2> QED
      BY <2>4, <2>5, <2>6 DEF PtyStep
  <1> DEFINE e == [id |-> p.id, gen |-> p.gen, out |-> o]
  <1>4. e \in Tagged /\ Append(outq, e) \in Seq(Tagged) /\ outq' = Append(outq, e) \o r
    BY <1>1, <1>2, <1>3, AppendProperties DEF Say
  <1>5. \A i, g : EndIn(outq, i, g) => EndIn(outq', i, g)
    BY <1>1, <1>4, EndSaid, EndStays
  <1>6. o # "data" => EndIn(outq', p.id, p.gen)
    <2>1. e.id = p.id /\ e.gen = p.gen /\ e.out = o
      OBVIOUS
    <2> HIDE DEF e
    <2> QED
      BY <1>1, <1>4, <2>1, EndSaid, EndStays
  <1>7. ASSUME NEW i \in Ids, Attached(i)'
        PROVE  \/ \E q \in ptys' : q.id = i /\ q.gen = slot'[i].gen
               \/ EndIn(outq', i, slot'[i].gen)
    <2>1. Attached(i)
      BY <1>1, <1>7 DEF Attached
    <2>2. CASE EndIn(outq, i, slot[i].gen)
      BY <1>1, <1>5, <2>2
    <2>3. CASE \E q \in ptys : q.id = i /\ q.gen = slot[i].gen
      BY <1>1, <1>3, <1>6, <2>3
    <2> QED
      BY <2>1, <2>2, <2>3 DEF AttachedIsServed, EndIn
  <1> QED
    BY <1>7 DEF AttachedIsServed, EndIn

\* Who was served is served, as long as the end of its PTY is not taken from
\* the queue.
LEMMA StillServed ==
  ASSUME AttachedIsServed,
         \A i \in Ids : Attached(i)' =>
           /\ Attached(i) /\ slot'[i].gen = slot[i].gen
           /\ EndIn(outq, i, slot[i].gen) => EndIn(outq', i, slot[i].gen),
         \A p \in ptys : \E q \in ptys' : p.id = q.id /\ p.gen = q.gen
  PROVE  AttachedIsServed'
  <1>1. ASSUME NEW i \in Ids, Attached(i)'
        PROVE  \/ \E p \in ptys' : p.id = i /\ p.gen = slot'[i].gen
               \/ EndIn(outq', i, slot'[i].gen)
    <2>1. /\ Attached(i) /\ slot'[i].gen = slot[i].gen
          /\ EndIn(outq, i, slot[i].gen) => EndIn(outq', i, slot[i].gen)
      BY <1>1
    <2>2. (\E p \in ptys : p.id = i /\ p.gen = slot[i].gen) \/ EndIn(outq, i, slot[i].gen)
      BY <2>1 DEF AttachedIsServed, EndIn
    <2> QED
      BY <2>1, <2>2
  <1> QED
    BY <1>1 DEF AttachedIsServed, EndIn

\* Every step leaves attached terminals served.
LEMMA NextServed == IInv /\ AttachedIsServed /\ [Next]_vars => AttachedIsServed'
  <1> SUFFICES ASSUME IInv, AttachedIsServed, [Next]_vars PROVE AttachedIsServed'
    OBVIOUS
  <1>0. TypeOK /\ slot \in [Ids -> Slot] /\ outq \in Seq(Tagged)
    BY DEF IInv, TypeOK
  <1>1. ASSUME Quiet
        PROVE  \A p \in ptys : \E q \in ptys' : p.id = q.id /\ p.gen = q.gen
    BY <1>0, <1>1, HangSame DEF Quiet
  <1>2. CASE Quiet /\ outq' = outq
    BY <1>1, <1>2, StillServed DEF Quiet
  <1>3. CASE CmdStop
    <2>1. \A i \in Ids : ~Attached(i)'
      BY <1>0, <1>3 DEF CmdStop, Attached, Slot
    <2> QED
      BY <2>1 DEF AttachedIsServed
  <1>4. CASE Output
    <2>1. Quiet /\ outq # <<>> /\ outq' = Tail(outq)
      BY <1>4, OutputQuiet
    <2>2. ASSUME NEW i \in Ids, Attached(i)', EndIn(outq, i, slot[i].gen)
          PROVE  EndIn(outq', i, slot[i].gen)
      <3>1. Attached(i)
        BY <2>1, <2>2 DEF Quiet
      <3>2. ~(Head(outq).id = i /\ Head(outq).gen = slot[i].gen
              /\ Head(outq).out \in {"exit", "end"})
        BY <1>4, <2>2, <3>1, OutputQuiet DEF Current
      <3> QED
        BY <1>0, <2>1, <2>2, <3>2, EndWaits
    <2> QED
      BY <1>1, <2>1, <2>2, StillServed DEF Quiet
  <1>5. ASSUME NEW i \in Ids, NEW z \in Sizes, CmdResize(i, z) PROVE AttachedIsServed'
    <2>1. /\ outq' = outq
          /\ \A j \in Ids : (Attached(j)' <=> Attached(j)) /\ slot'[j].gen = slot[j].gen
      BY <1>0, <1>5 DEF CmdResize, Attached, Slot
    <2> DEFINE Sized(p) == IF p.id = i /\ Owned(p) THEN [p EXCEPT !.size = z] ELSE p
    <2>2. ptys' = {Sized(p) : p \in ptys}
      BY <1>5 DEF CmdResize
    <2>3. \A p \in ptys : Sized(p).id = p.id /\ Sized(p).gen = p.gen
      BY <1>0 DEF TypeOK, Pty
    <2> HIDE DEF Sized
    <2> QED
      BY <2>1, <2>2, <2>3, StillServed
  <1> QED
    BY <1>2, <1>3, <1>4, <1>5, StepKinds, AttachOkServed, PtyStepServed

\* An attached terminal has its PTY, or the end of it is still to be acted
\* upon, however PTYs end, links drop and terminals are attached again.
THEOREM AttachedAreServed == Spec => []AttachedIsServed
  <1>1. Init => AttachedIsServed
    BY DEF Init, AttachedIsServed, Attached
  <1> QED
    BY <1>1, NextServed, Invariance, PTL DEF Spec

-----------------------------------------------------------------------------
(* Sizes.                                                                  *)

\* An attach that begins is open's, or of a terminal that is there.
LEMMA AttachBegins ==
  ASSUME IInv, [Next]_vars, pc' = "attach", fn' # "open"
  PROVE  UNCHANGED <<pc, fn, cur>> \/ \E i \in Live' : cur'.id = i
  <1>0. Live' = LiveIn(slot')
    BY DEF Live, LiveIn
  <1>1. CASE \/ \E r \in Reqs, z \in Sizes : CmdOpen(r, z)
             \/ PopPending \/ CmdRetry \/ Timer \/ CmdStop
             \/ (\E e \in Down : ConnectErr(e)) \/ (\E e \in Down : AttachErr(e))
    BY <1>1 DEF CmdOpen, PopPending, CmdRetry, Timer, Reconnect, CmdStop, ConnectErr, AttachErr,
       BeginOpen, BeginConnect, OpenAttach, BeginAttach, ToLoop, ReconnectFailed
  <1>2. ASSUME NEW ids, AttachNext(slot', ids) PROVE \E i \in Live' : cur'.id = i
    BY <1>0, <1>2 DEF AttachNext, ReconnectDone, OpenAttach, BeginAttach, BeginConnect, ToLoop
  <1>3. CASE ConnectOk
    <2>1. slot' = slot
      BY <1>3 DEF ConnectOk
    <2> QED
      BY <1>2, <1>3, <2>1 DEF ConnectOk, OpenAttach, BeginAttach
  <1>4. CASE AttachOk
    BY <1>2, <1>4 DEF AttachOk, ToLoop
  <1>5. CASE Output
    <2>1. CASE UNCHANGED taskVars
      BY <2>1 DEF taskVars
    <2>2. CASE ~UNCHANGED taskVars
      <3>1. PICK m \in Tagged : m = Head(outq)
        BY <1>5, HeadTailProperties DEF Output, IInv, TypeOK
      <3>2. Current(m) /\ ChannelEnded(m.id) /\ ~Finish(m.id)
        BY <1>5, <2>2, <3>1, Zenon DEF Output, Finish
      <3>3. m.id \in Ids /\ slot \in [Ids -> Slot]
        BY DEF Tagged, IInv, TypeOK
      <3>4. \E q : slot' = [slot EXCEPT ![m.id].state = "detached", ![m.id].quick = q]
        BY <3>2 DEF ChannelEnded
      <3>5. cur'.id = m.id
        BY <3>2 DEF ChannelEnded, BeginAttach
      <3>6. m.id \in LiveIn(slot')
        BY <3>3, <3>4 DEF LiveIn, Slot
      <3> QED
        BY <1>0, <3>5, <3>6
    <2> QED
      BY <2>1, <2>2
  <1>6. CASE \/ \E r \in Reqs, z \in Sizes : CmdOpenBusy(r, z)
             \/ \E r \in Reqs : CmdOpenStopped(r)
             \/ \E i \in Ids : CmdClose(i) \/ \E z \in Sizes : CmdResize(i, z)
             \/ LinkDrop \/ (\E p \in ptys : PtyStep(p)) \/ UNCHANGED vars
    BY <1>6 DEF CmdOpenBusy, CmdOpenStopped, CmdClose, CmdResize, LinkDrop, PtyStep, taskVars, vars
  <1> QED
    BY <1>1, <1>3, <1>4, <1>5, <1>6 DEF Next, Command, ConnectDone, AttachDone

\* What the owners' contract says of a terminal that was opened: it stays so,
\* does not come back once it is gone, and its generations only grow.
LEMMA OwnerGrows ==
  ASSUME IInv, IInv', [Next]_vars, NEW i \in Ids, view[i] # "none"
  PROVE  /\ view'[i] # "none"
         /\ i \in Live' => i \in Live
         /\ slot[i].gen <= slot'[i].gen
  <1>0. /\ slot[i].gen \in Nat /\ slot'[i].gen \in Nat
        /\ view \in [Ids -> {"none", "attached", "detached", "exited", "closed"}]
        /\ Reattachments[i] = slot[i].gen /\ Reattachments'[i] = slot'[i].gen
        /\ Reattachments \in [Ids -> Nat]
    BY DEF IInv, TypeOK, Slot, Reattachments
  <1>1. Owner!Open = Live /\ Owner!Open' = Live'
    <2>1. Owner!Open = Live
      BY OpenIsLive
    <2>2. Owner!Open' = Live'
      BY DEF IInv, Views, TypeOK, Slot, Owner!Open, Live, LiveIn
    <2> QED
      BY <2>1, <2>2
  <1>2. [Owner!Next]_Owner!vars
    BY OwnerStep
  <1>3. /\ view'[i] # "none" /\ (i \in Owner!Open' => i \in Owner!Open)
        /\ Reattachments[i] <= Reattachments'[i]
    <2>1. CASE UNCHANGED Owner!vars
      BY <1>0, <2>1 DEF Owner!vars, Owner!Open
    <2>2. ASSUME NEW j \in Ids, Owner!Begin(j) \/ Owner!Reattach(j) \/ Owner!Exit(j) \/ Owner!Output(j)
          PROVE  /\ view'[i] # "none" /\ (i \in Owner!Open' => i \in Owner!Open)
                 /\ Reattachments[i] <= Reattachments'[i]
      <3>1. CASE Owner!Reattach(j)
        BY <1>0, <3>1 DEF Owner!Reattach, Owner!Open
      <3>2. CASE Owner!Begin(j) \/ Owner!Exit(j) \/ Owner!Output(j)
        BY <1>0, <3>2 DEF Owner!Begin, Owner!Exit, Owner!Output, Owner!Open
      <3> QED
        BY <2>2, <3>1, <3>2
    <2>3. ASSUME NEW S \in SUBSET Ids, Owner!Detach(S) \/ Owner!Close(S)
          PROVE  /\ view'[i] # "none" /\ (i \in Owner!Open' => i \in Owner!Open)
                 /\ Reattachments[i] <= Reattachments'[i]
      BY <1>0, <2>3 DEF Owner!Detach, Owner!Close, Owner!Open
    <2> QED
      BY <1>2, <2>1, <2>2, <2>3 DEF Owner!Next
  <1> QED
    BY <1>0, <1>1, <1>3

\* Every PTY there is after a step was there before, up to its size and being
\* told to close, or is the one just attached.
LEMMA PtysFrom ==
  ASSUME IInv, [Next]_vars, NEW q \in ptys'
  PROVE  \/ \E p \in ptys : p.id = q.id /\ p.gen = q.gen
         \/ AttachOk /\ \E st \in {"run", "told"} : q = NewPty(st)
  <1>0. TypeOK
    BY DEF IInv
  <1>1. CASE Quiet
    BY <1>0, <1>1, HangSame DEF Quiet
  <1>2. ASSUME NEW p \in ptys, PtyStep(p) PROVE q \in ptys
    BY <1>2 DEF PtyStep, PtyData, PtyExit, PtyEnd
  <1>3. ASSUME NEW i \in Ids, NEW z \in Sizes, CmdResize(i, z)
        PROVE  \E p \in ptys : p.id = q.id /\ p.gen = q.gen
    BY <1>0, <1>3 DEF CmdResize, TypeOK, Pty
  <1>4. CASE AttachOk
    BY <1>4, AttachOkFacts
  <1>5. CmdStop \/ Output => Quiet
    BY QuietParts, OutputQuiet
  <1> QED
    BY <1>1, <1>2, <1>3, <1>4, <1>5, StepKinds

\* PTYs are no newer than what their terminals remember.
LEMMA NextAges == IInv /\ IInv' /\ Begun /\ PtyAges /\ [Next]_vars => Begun' /\ PtyAges'
  <1> SUFFICES ASSUME IInv, IInv', Begun, PtyAges, [Next]_vars PROVE Begun' /\ PtyAges'
    OBVIOUS
  <1>0. /\ slot \in [Ids -> Slot] /\ slot' \in [Ids -> Slot] /\ Live \subseteq Ids /\ Live' \subseteq Ids
        /\ \A p \in ptys : p.id \in Ids /\ p.gen \in Nat
    BY DEF IInv, TypeOK, Pty, Live, LiveIn
  <1>1. Begun'
    <2> SUFFICES ASSUME pc' = "attach", fn' # "open" PROVE view'[cur'.id] # "none"
      BY DEF Begun
    <2>1. CASE UNCHANGED <<pc, fn, cur>>
      <3>1. view[cur.id] # "none" /\ cur.id \in Ids
        BY <2>1 DEF Begun, IInv, Control
      <3> QED
        BY <2>1, <3>1, OwnerGrows
    <2>2. ASSUME NEW i \in Live', cur'.id = i PROVE view'[cur'.id] # "none"
      BY <1>0, <2>2 DEF IInv, Views, Live, LiveIn
    <2> QED
      BY <2>1, <2>2, AttachBegins
  <1>2. ASSUME NEW q \in ptys'
        PROVE  view'[q.id] # "none" /\ (q.id \in Live' => q.gen <= slot'[q.id].gen)
    <2>1. ASSUME NEW p \in ptys, p.id = q.id, p.gen = q.gen
          PROVE  view'[q.id] # "none" /\ (q.id \in Live' => q.gen <= slot'[q.id].gen)
      <3>1. p.id \in Ids /\ p.gen \in Nat /\ view[p.id] # "none"
            /\ (p.id \in Live => p.gen <= slot[p.id].gen)
            /\ slot[p.id].gen \in Nat /\ slot'[p.id].gen \in Nat
        BY <1>0 DEF PtyAges, Slot
      <3>2. /\ view'[p.id] # "none" /\ (p.id \in Live' => p.id \in Live)
            /\ slot[p.id].gen <= slot'[p.id].gen
        BY <3>1, OwnerGrows
      <3> QED
        BY <2>1, <3>1, <3>2
    <2>2. ASSUME AttachOk, NEW st \in {"run", "told"}, q = NewPty(st)
          PROVE  view'[q.id] # "none" /\ (q.id \in Live' => q.gen <= slot'[q.id].gen)
      <3>1. cur.id \in Ids /\ cur.gen \in Nat /\ q.id = cur.id /\ q.gen = cur.gen
        BY <2>2, AttachOkFacts DEF NewPty
      <3>2. CASE slot'[cur.id].gen = cur.gen /\ slot'[cur.id].state = "attached"
        BY <3>1, <3>2 DEF IInv, Views
      <3>3. CASE fn # "open" /\ cur.id \notin Live /\ slot' = slot
        <4>1. view[cur.id] # "none" /\ cur.id \notin LiveIn(slot')
          BY <2>2, <3>3 DEF Begun, AttachOk, Live
        <4>2. Live' = LiveIn(slot')
          BY DEF Live, LiveIn
        <4> QED
          BY <3>1, <4>1, <4>2, OwnerGrows
      <3>4. \/ slot'[cur.id].gen = cur.gen /\ slot'[cur.id].state = "attached"
            \/ fn # "open" /\ cur.id \notin Live /\ slot' = slot
        BY <1>0, <2>2, <3>1, AttachOkFacts DEF Slot
      <3> QED
        BY <3>2, <3>3, <3>4
    <2> QED
      BY <2>1, <2>2, PtysFrom
  <1> QED
    BY <1>1, <1>2 DEF PtyAges

\* A step that goes astray with a size attaches with one that is out of date.
LEMMA NextSizes ==
  ASSUME IInv, PtyAges, [Next]_vars, SizeIsCurrent
  PROVE  SizeIsCurrent' \/ (pc = "attach" /\ cur.size # slot[cur.id].size)
  <1>0. /\ TypeOK /\ slot \in [Ids -> Slot]
        /\ \A p \in ptys : p.id \in Ids /\ p.gen \in Nat
    BY DEF IInv, TypeOK, Pty
  <1>1. CASE Quiet
    <2>1. \A q \in ptys' : \E p \in ptys : p.id = q.id /\ p.gen = q.gen /\ p.size = q.size
      BY <1>0, <1>1, HangSame DEF Quiet
    <2>2. ASSUME NEW q \in ptys', Attached(q.id)', q.gen = slot'[q.id].gen
          PROVE  q.size = slot'[q.id].size
      <3>1. PICK p \in ptys : p.id = q.id /\ p.gen = q.gen /\ p.size = q.size
        BY <2>1
      <3>2. PICK i \in Ids : i = p.id
        BY <1>0
      <3>3. Attached(i)'
        BY <2>2, <3>1, <3>2
      <3>4. Attached(i) /\ slot'[i].gen = slot[i].gen /\ slot'[i].size = slot[i].size
        BY <1>1, <3>3 DEF Quiet
      <3> QED
        BY <2>2, <3>1, <3>2, <3>4 DEF SizeIsCurrent, Owned
    <2> QED
      BY <2>2 DEF SizeIsCurrent, Owned
  <1>2. ASSUME NEW p \in ptys, PtyStep(p) PROVE SizeIsCurrent'
    BY <1>2 DEF PtyStep, PtyData, PtyExit, PtyEnd, SizeIsCurrent, Owned, Attached
  <1>3. ASSUME NEW i \in Ids, NEW z \in Sizes, CmdResize(i, z) PROVE SizeIsCurrent'
    <2>1. \A j \in Ids : /\ slot'[j].gen = slot[j].gen /\ slot'[j].state = slot[j].state
                         /\ slot'[j].size = IF j = i THEN z ELSE slot[j].size
      BY <1>0, <1>3 DEF CmdResize, Slot
    <2> DEFINE Sized(p) == IF p.id = i /\ Owned(p) THEN [p EXCEPT !.size = z] ELSE p
    <2>2. ptys' = {Sized(p) : p \in ptys}
      BY <1>3 DEF CmdResize
    <2>3. \A p \in ptys : /\ Sized(p).id = p.id /\ Sized(p).gen = p.gen
                          /\ Sized(p).size = IF p.id = i /\ Owned(p) THEN z ELSE p.size
      BY <1>0 DEF TypeOK, Pty
    <2> HIDE DEF Sized
    <2>4. ASSUME NEW p \in ptys, slot'[p.id].state = "attached", p.gen = slot'[p.id].gen
          PROVE  Sized(p).size = slot'[p.id].size
      <3>1. Owned(p)
        BY <1>0, <2>1, <2>4 DEF Owned, Attached
      <3> QED
        BY <1>0, <2>1, <2>3, <3>1 DEF SizeIsCurrent
    <2> QED
      BY <2>2, <2>3, <2>4 DEF SizeIsCurrent, Owned, Attached
  <1>4. ASSUME AttachOk, cur.size = slot[cur.id].size PROVE SizeIsCurrent'
    <2>1. cur.id \in Ids /\ cur.gen \in Nat /\ pc = "attach"
      BY <1>4, AttachOkFacts DEF AttachOk
    <2>2. PICK st \in {"run", "told"} : ptys' = ptys \cup {NewPty(st)}
      BY <1>4, AttachOkFacts
    <2>3. /\ slot'[cur.id].size = cur.size
          /\ \A j \in Ids \ {cur.id} : slot'[j] = slot[j]
          /\ \/ view[cur.id] = "none"
             \/ cur.id \in Live /\ slot'[cur.id].gen = slot[cur.id].gen + 1
             \/ slot' = slot
      BY <1>0, <1>4, <2>1, AttachOkFacts DEF Slot
    <2>4. ASSUME NEW p \in ptys, slot'[p.id].state = "attached", p.gen = slot'[p.id].gen
          PROVE  p.size = slot'[p.id].size
      <3>1. p.id \in Ids /\ view[p.id] # "none" /\ (p.id \in Live => p.gen <= slot[p.id].gen)
            /\ slot[p.id].gen \in Nat
        BY <1>0 DEF PtyAges, Slot
      <3>2. p.id # cur.id \/ slot' = slot
        BY <2>3, <2>4, <3>1
      <3>3. slot'[p.id] = slot[p.id]
        BY <2>3, <3>1, <3>2
      <3> QED
        BY <2>4, <3>3 DEF SizeIsCurrent, Owned, Attached
    <2>5. NewPty(st).size = cur.size /\ NewPty(st).id = cur.id
      BY DEF NewPty
    <2>6. ASSUME NEW q \in ptys', slot'[q.id].state = "attached", q.gen = slot'[q.id].gen
          PROVE  q.size = slot'[q.id].size
      <3>1. CASE q \in ptys
        BY <2>4, <2>6, <3>1
      <3>2. CASE q = NewPty(st)
        BY <2>3, <2>5, <3>2
      <3> QED
        BY <2>2, <3>1, <3>2
    <2> QED
      BY <2>6 DEF SizeIsCurrent, Owned, Attached
  <1>5. CmdStop \/ Output => Quiet
    BY QuietParts, OutputQuiet
  <1> QED
    BY <1>1, <1>2, <1>3, <1>4, <1>5, StepKinds DEF AttachOk

\* A PTY has its terminal's size, and goes astray only when it is attached with
\* a size copied before the last Resize (reconnect, channel_ended).
THEOREM SizesFollow == Spec => SizeFollows
  <1>1. Init => Begun /\ PtyAges
    BY DEF Init, Begun, PtyAges
  <1>2. Spec => [](Begun /\ PtyAges)
    BY <1>1, NextAges, Invariance, PTL DEF Spec
  <1>3. IInv /\ PtyAges /\ [Next]_vars
          => (SizeIsCurrent /\ ~SizeIsCurrent' => pc = "attach" /\ cur.size # slot[cur.id].size)
    BY NextSizes
  <1> QED
    BY <1>2, <1>3, Invariance, PTL DEF Spec, SizeFollows
=============================================================================
