-------------------------------- MODULE Terms --------------------------------
(***************************************************************************)
(* The terminal task of one host (crates/mai-core/src/term.rs): one task   *)
(* owns the host's terminal connection and a PTY per open terminal.  The   *)
(* task is sequential but awaits: while it is connecting or attaching it   *)
(* still serves commands (`busy`), so a terminal may be closed, resized or *)
(* opened in the middle of every multi-step operation.  A control state    *)
(* (pc, fn, job, cur, todo) says where the task is waiting; everything     *)
(* between two waits is one action.                                        *)
(*                                                                         *)
(* The connection, the PTYs and their forwarders, and the owners of the    *)
(* terminals are the environment.  A command is modelled at the moment the *)
(* task receives it.  Time is abstracted: whether a PTY or a connection    *)
(* lasted STABLE_AFTER is a free choice, and a reconnect deadline passes   *)
(* when it likes.                                                          *)
(***************************************************************************)
EXTENDS Naturals, Sequences

CONSTANTS
  Reqs,           \* the Open commands callers send, each at most once
  Sizes,          \* terminal sizes
  MaxQuickEnds,   \* MAX_QUICK_ENDS
  MaxBackoff,     \* doublings until the reconnect delay stops growing
  MaxId,          \* bound: terminal ids handed out
  MaxFaults,      \* bound: failures the environment may cause
  MaxOut          \* bound: length of the output queue up to which PTYs write

ASSUME TermsAssumption ==
  /\ MaxQuickEnds \in Nat \ {0}
  /\ MaxBackoff \in Nat
  /\ MaxId \in Nat
  /\ MaxFaults \in Nat
  /\ MaxOut \in Nat
  /\ Sizes # {}
  /\ "none" \notin Reqs

Ids == 1 .. MaxId

VARIABLES
  \* Where the task waits.
  pc,       \* "loop", "connect", "attach" or "stopped"
  fn,       \* function awaiting the connect or attach
  job,      \* the Open being served: [req, size], req = "none" if there is none
  cur,      \* the attach under way: [id, gen, size]
  todo,     \* terminals `reconnect` has yet to attach again
  \* struct Terms.
  link,     \* Idle, Up, Busy; Down { at: Some } is Retrying, { at: None } NeedsUser
  slot,     \* terminal id -> Slot, state "none" where the map has no entry
  pending,  \* Opens that arrived while connecting or attaching
  nextId,
  backoff,
  \* Environment.
  conn,     \* the connection itself: "up", or "gone" (TermTransport::alive)
  ptys,     \* running PTYs
  outq,     \* out_rx: tagged output of all PTYs
  faults,   \* failures so far
  \* What others have been told.
  term,     \* last HostEvent::Term ("none" for Term(None))
  view,     \* last TermEvent other than Output, per terminal
  heard,    \* 1 + generation of the PTY whose output was delivered last
  reply     \* what became of each Open

taskVars == <<pc, fn, job, cur, todo>>
connVars == <<link, backoff, conn, term>>
tellVars == <<view, heard>>
vars == <<pc, fn, job, cur, todo, link, slot, pending, nextId, backoff,
          conn, ptys, outq, faults, term, view, heard, reply>>

NoSize == CHOOSE z \in Sizes : TRUE
NoJob == [req |-> "none", size |-> NoSize]
NoAttach == [id |-> 0, gen |-> 0, size |-> NoSize]
Down == {"Retrying", "NeedsUser"}

Slot == [state : {"none", "detached", "attached"}, gen : Nat, quick : Nat,
         size : Sizes]
Job == [req : Reqs \cup {"none"}, size : Sizes]
Attach == [id : Ids \cup {0}, gen : Nat, size : Sizes]
Pty == [id : Ids, gen : Nat, size : Sizes, st : {"run", "told"}]
Tagged == [id : Ids, gen : Nat, out : {"data", "exit", "end"}]

\* The task's state is one that struct Terms, its control flow and what it told
\* others allow; in particular the backoff stays capped (Backoff::next_delay).
TypeOK ==
  /\ pc \in {"loop", "connect", "attach", "stopped"}
  /\ fn \in {"none", "open", "reconnect", "ended"}
  /\ job \in Job
  /\ cur \in Attach
  /\ todo \subseteq Ids
  /\ link \in {"Idle", "Up", "Busy"} \cup Down
  /\ slot \in [Ids -> Slot]
  /\ pending \in Seq(Job)
  /\ nextId \in Nat \ {0}
  /\ backoff \in 0 .. MaxBackoff
  /\ conn \in {"up", "gone"}
  /\ ptys \subseteq Pty
  /\ outq \in Seq(Tagged)
  /\ faults \in 0 .. MaxFaults
  /\ term \in {"none", "Up"} \cup Down
  /\ view \in [Ids -> {"none", "attached", "detached", "exited", "closed"}]
  /\ heard \in [Ids -> Nat]
  /\ reply \in [Reqs -> {"unsent", "waiting", "opened", "failed", "stopped"}]

LiveIn(s) == {i \in Ids : s[i].state # "none"}
Live == LiveIn(slot)
Attached(i) == slot[i].state = "attached"

-----------------------------------------------------------------------------
(* Helpers of struct Terms.                                                *)

\* Backoff::next_delay: the delay doubles until it reaches its maximum.
NextDelay(b) == IF b < MaxBackoff THEN b + 1 ELSE b

\* The PTY whose input sender the terminal's slot holds.
Owned(p) == Attached(p.id) /\ p.gen = slot[p.id].gen

\* The PTYs of terminals S are told to close, by PtyIn::Close or by dropping
\* their input sender.
Hang(S) == {IF p.id \in S /\ Owned(p) /\ p.st = "run" THEN [p EXCEPT !.st = "told"] ELSE p
              : p \in ptys}

\* Mutant: the connection is kept when the last terminal is gone.
IdleIfEmptyKeeps(s, l, t, b) ==
  link' = l /\ term' = t /\ backoff' = b /\ conn' = IF l \in Down THEN "gone" ELSE conn

\* Mutant: going idle is not told.
IdleIfEmptySilent(s, l, t, b) ==
  IF LiveIn(s) = {} /\ l \notin {"Idle", "Busy"}
    THEN link' = "Idle" /\ term' = t /\ backoff' = 0 /\ conn' = "gone"
    ELSE link' = l /\ term' = t /\ backoff' = b /\ conn' = IF l \in Down THEN "gone" ELSE conn

\* idle_if_empty, run with slots s, link l, last Term event t and backoff b.
\* A connection the link no longer holds is dropped.
IdleIfEmpty(s, l, t, b) ==
  IF LiveIn(s) = {} /\ l \notin {"Idle", "Busy"}
    THEN link' = "Idle" /\ term' = "none" /\ backoff' = 0 /\ conn' = "gone"
    ELSE link' = l /\ term' = t /\ backoff' = b /\ conn' = IF l \in Down THEN "gone" ELSE conn

\* lost: every terminal is detached and told so, its PTY is let go, and a
\* reconnect is scheduled.  The backoff starts over only after a stable link.
Lost ==
  /\ slot' = [i \in Ids |-> IF i \in Live THEN [slot[i] EXCEPT !.state = "detached"]
                                          ELSE slot[i]]
  /\ view' = [i \in Ids |-> IF i \in Live THEN "detached" ELSE view[i]]
  /\ ptys' = Hang(Live)
  /\ \E stable \in BOOLEAN :
       IdleIfEmpty(slot, "Retrying", "Retrying",
                   NextDelay(IF stable THEN 0 ELSE backoff))

\* attach: the link is lent out while the transport starts `zellij attach`.
\* Every caller has just seen the link up, so the code's answer for another
\* link ("terminal connection is down") is never given.
BeginAttach(f, i, g, z) ==
  /\ pc' = "attach" /\ fn' = f
  /\ cur' = [id |-> i, gen |-> g, size |-> z]
  /\ link' = "Busy"

\* connect: open_terminals is awaited for f, serving Open j (or NoJob); the
\* link stays as it is meanwhile.
BeginConnect(f, j) ==
  /\ pc' = "connect" /\ fn' = f
  /\ cur' = NoAttach
  /\ job' = j /\ todo' = {}

\* The handler is done: back to the select of run_terms.
ToLoop ==
  /\ pc' = "loop" /\ fn' = "none"
  /\ cur' = NoAttach
  /\ job' = NoJob /\ todo' = {}

\* open's last part, reached with the link up: a fresh id, generation 0.
OpenAttach(j) ==
  /\ nextId \in Ids
  /\ nextId' = nextId + 1
  /\ BeginAttach("open", nextId, 0, j.size)
  /\ job' = j /\ todo' = {}

\* Mutant: an Open on a link that is down connects for itself alone.
BeginOpenAlone(j) ==
  /\ \/ link \in Down \cup {"Idle"} /\ BeginConnect("open", j) /\ UNCHANGED <<link, nextId>>
     \/ link = "Up" /\ OpenAttach(j)
  /\ UNCHANGED <<slot, backoff, conn, term, ptys, outq, faults, tellVars>>

\* open, up to its first wait.  A link that is down is brought back for all
\* terminals first, or they would stay detached once it is up again.
BeginOpen(j) ==
  /\ \/ link \in Down /\ BeginConnect("reconnect", j) /\ UNCHANGED <<link, nextId>>
     \/ link = "Idle" /\ BeginConnect("open", j) /\ UNCHANGED <<link, nextId>>
     \/ link = "Up" /\ OpenAttach(j)
  /\ UNCHANGED <<slot, backoff, conn, term, ptys, outq, faults, tellVars>>

\* reconnect's last part, with slots s: every terminal is attached again, or
\* was closed meanwhile.  An Open that waited for it goes on, over a new
\* connection if this one went idle.
ReconnectDone(s) ==
  IF LiveIn(s) = {}
    THEN /\ IdleIfEmpty(s, "Up", "Up", backoff)
         /\ IF job = NoJob THEN ToLoop ELSE BeginConnect("open", job)
         /\ UNCHANGED nextId
    ELSE /\ IF job = NoJob THEN ToLoop /\ link' = "Up" /\ UNCHANGED nextId
                           ELSE OpenAttach(job)
         /\ term' = "Up" /\ conn' = "up"
         /\ UNCHANGED backoff

\* The loop of reconnect: attach the next of ids, skipping closed terminals.
AttachNext(s, ids) ==
  LET left == ids \cap LiveIn(s) IN
  IF left = {}
    THEN ReconnectDone(s)
    ELSE /\ \E i \in left : /\ BeginAttach("reconnect", i, s[i].gen + 1, s[i].size)
                           /\ todo' = left \ {i}
         /\ term' = "Up" /\ conn' = "up"
         /\ UNCHANGED <<job, nextId, backoff>>

Answer(r, a) == [reply EXCEPT ![r] = a]

\* Mutant: the Open that waited for a failed reconnect is forgotten.
ReconnectFailedMute ==
  IF job # NoJob /\ Live = {} THEN BeginConnect("open", job) /\ UNCHANGED reply
                             ELSE ToLoop /\ UNCHANGED reply

\* reconnect gave up.  The Open that waited for it fails while terminals
\* keep the link down; with none left the link went idle, and it connects.
ReconnectFailed ==
  IF job # NoJob /\ Live = {}
    THEN BeginConnect("open", job) /\ UNCHANGED reply
    ELSE ToLoop /\ reply' = IF job = NoJob THEN reply ELSE Answer(job.req, "failed")

-----------------------------------------------------------------------------
(* Commands.  At the loop, Opens that wait in `pending` come first.        *)

AtSelect == pc = "loop" /\ pending = <<>>
Busy == pc \in {"connect", "attach"}

\* TermCmd::Open, received at the loop and served at once.
CmdOpen(r, z) ==
  /\ AtSelect
  /\ reply[r] = "unsent"
  /\ reply' = Answer(r, "waiting")
  /\ BeginOpen([req |-> r, size |-> z])
  /\ UNCHANGED pending

\* TermCmd::Open while connecting or attaching: it waits its turn.
CmdOpenBusy(r, z) ==
  /\ Busy
  /\ reply[r] = "unsent"
  /\ reply' = Answer(r, "waiting")
  /\ pending' = Append(pending, [req |-> r, size |-> z])
  /\ UNCHANGED <<taskVars, connVars, slot, nextId, ptys, outq, faults, tellVars>>

\* Open sent to a task that has ended.
CmdOpenStopped(r) ==
  /\ pc = "stopped"
  /\ reply[r] = "unsent"
  /\ reply' = Answer(r, "stopped")
  /\ UNCHANGED <<taskVars, connVars, slot, pending, nextId, ptys, outq, faults, tellVars>>

\* The first pending Open is served.
PopPending ==
  /\ pc = "loop" /\ pending # <<>>
  /\ pending' = Tail(pending)
  /\ BeginOpen(Head(pending))
  /\ UNCHANGED reply

\* Mutant: only remembered for the next attach.
CmdResizeLater(i, z) ==
  /\ AtSelect \/ Busy
  /\ i \in Live
  /\ slot' = [slot EXCEPT ![i].size = z]
  /\ UNCHANGED <<taskVars, connVars, pending, nextId, ptys, outq, faults, tellVars, reply>>

\* TermCmd::Resize: remembered for the next attach, and passed to the PTY.
CmdResize(i, z) ==
  /\ AtSelect \/ Busy
  /\ i \in Live
  /\ slot' = [slot EXCEPT ![i].size = z]
  /\ ptys' = {IF p.id = i /\ Owned(p) THEN [p EXCEPT !.size = z] ELSE p : p \in ptys}
  /\ UNCHANGED <<taskVars, connVars, pending, nextId, outq, faults, tellVars, reply>>

\* TermCmd::Close (manager::Terminal was dropped).  Only at the loop is the
\* connection let go with the last terminal; a busy handler does it itself.
CmdClose(i) ==
  /\ AtSelect \/ Busy
  /\ i \in Live
  /\ slot' = [slot EXCEPT ![i].state = "none"]
  /\ view' = [view EXCEPT ![i] = "closed"]
  /\ ptys' = Hang({i})
  /\ IF pc = "loop" THEN IdleIfEmpty(slot', link, term, backoff) ELSE UNCHANGED connVars
  /\ UNCHANGED <<taskVars, pending, nextId, outq, faults, heard, reply>>

\* TermCmd::Stop, or every sender of the command channel is gone: close_all,
\* and the Opens still waiting are answered by their dropped reply.
CmdStop ==
  /\ AtSelect \/ Busy
  /\ pc' = "stopped" /\ fn' = "none" /\ job' = NoJob /\ cur' = NoAttach /\ todo' = {}
  /\ link' = "Idle" /\ conn' = "gone"
  /\ slot' = [i \in Ids |-> [slot[i] EXCEPT !.state = "none"]]
  /\ view' = [i \in Ids |-> IF i \in Live THEN "closed" ELSE view[i]]
  /\ ptys' = Hang(Live)
  /\ pending' = <<>> /\ outq' = <<>>
  /\ reply' = [r \in Reqs |-> IF reply[r] = "waiting" THEN "stopped" ELSE reply[r]]
  /\ UNCHANGED <<nextId, backoff, term, faults, heard>>

\* reconnect from the loop: TermCmd::Retry (ignored unless the link is down),
\* or the deadline passes while terminals wait for it.
Reconnect ==
  /\ AtSelect
  /\ BeginConnect("reconnect", NoJob)
  /\ UNCHANGED <<connVars, slot, pending, nextId, ptys, outq, faults, tellVars, reply>>

CmdRetry == link \in Down /\ Reconnect
Timer == link = "Retrying" /\ Live # {} /\ Reconnect

-----------------------------------------------------------------------------
(* Results of what the task awaits.                                        *)

\* open_terminals succeeded, for open or for reconnect.
ConnectOk ==
  /\ pc = "connect"
  /\ \/ /\ fn = "open"
        /\ OpenAttach(job)
        /\ term' = "Up" /\ conn' = "up"
        /\ UNCHANGED backoff
     \/ /\ fn = "reconnect"
        /\ AttachNext(slot, Live)
  /\ UNCHANGED <<slot, pending, ptys, outq, faults, tellVars, reply>>

\* open_terminals failed.  e is the Down state its error leads to: Retrying
\* for OpenError::Retry, NeedsUser for OpenError::NeedsUser.
ConnectErr(e) ==
  /\ pc = "connect"
  /\ faults < MaxFaults
  /\ faults' = faults + 1
  /\ \/ /\ fn = "open"
        /\ ToLoop
        /\ link' = "Idle" /\ term' = "none"
        /\ reply' = Answer(job.req, "failed")
        /\ UNCHANGED <<backoff, conn>>
     \/ /\ fn = "reconnect"
        /\ IdleIfEmpty(slot, e, e, IF e = "Retrying" THEN NextDelay(backoff) ELSE backoff)
        /\ ReconnectFailed
  /\ UNCHANGED <<slot, pending, nextId, ptys, outq, tellVars>>

NewPty(st) == [id |-> cur.id, gen |-> cur.gen, size |-> cur.size, st |-> st]

\* Mutant: the PTY of a terminal closed meanwhile is left running.
ResumeLeaks ==
  /\ ptys' = ptys \cup {NewPty("run")}
  /\ IF cur.id \in Live
       THEN /\ slot' = [slot EXCEPT ![cur.id].state = "attached", ![cur.id].gen = cur.gen]
            /\ view' = [view EXCEPT ![cur.id] = "attached"]
       ELSE UNCHANGED <<slot, view>>

\* attach succeeded for a terminal of reconnect or channel_ended.  If it was
\* closed meanwhile, the new PTY is told to close at once.
Resume ==
  IF cur.id \in Live
    THEN /\ slot' = [slot EXCEPT ![cur.id].state = "attached", ![cur.id].gen = cur.gen]
         /\ view' = [view EXCEPT ![cur.id] = "attached"]
         /\ ptys' = ptys \cup {NewPty("run")}
    ELSE /\ ptys' = ptys \cup {NewPty("told")}
         /\ UNCHANGED <<slot, view>>

AttachOk ==
  /\ pc = "attach"
  /\ conn = "up"
  /\ \/ /\ fn = "open"
        /\ ToLoop
        /\ slot' = [slot EXCEPT ![cur.id] = [state |-> "attached", gen |-> cur.gen,
                                             quick |-> 0, size |-> cur.size]]
        /\ view' = [view EXCEPT ![cur.id] = "attached"]
        /\ ptys' = ptys \cup {NewPty("run")}
        /\ reply' = Answer(job.req, "opened")
        /\ link' = "Up"
        /\ UNCHANGED <<nextId, backoff, term, conn>>
     \/ /\ fn = "reconnect"
        /\ Resume
        /\ AttachNext(slot', todo)
        /\ UNCHANGED reply
     \/ /\ fn = "ended"
        /\ Resume
        /\ IdleIfEmpty(slot', "Up", term, backoff)
        /\ ToLoop
        /\ UNCHANGED <<nextId, reply>>
  /\ UNCHANGED <<pending, outq, faults, heard>>

\* attach failed: on its own, or because the connection died under it.  An
\* Open just fails; any other attach failure, whatever its OpenError e,
\* counts as a lost connection.
AttachErr(e) ==
  /\ pc = "attach"
  /\ IF conn = "up" THEN faults < MaxFaults /\ faults' = faults + 1 ELSE UNCHANGED faults
  /\ \/ /\ fn = "open"
        /\ IdleIfEmpty(slot, "Up", term, backoff)
        /\ ToLoop
        /\ reply' = Answer(job.req, "failed")
        /\ UNCHANGED <<slot, view, ptys>>
     \/ fn = "reconnect" /\ Lost /\ ReconnectFailed
     \/ fn = "ended" /\ Lost /\ ToLoop /\ UNCHANGED reply
  /\ UNCHANGED <<pending, nextId, outq, heard>>

-----------------------------------------------------------------------------
(* Output of the PTYs.                                                     *)

\* The terminal finished: `zellij attach` exited, or it is given up on.
Finish(i) ==
  /\ slot' = [slot EXCEPT ![i].state = "none"]
  /\ view' = [view EXCEPT ![i] = "exited"]
  /\ ptys' = Hang({i})
  /\ IdleIfEmpty(slot', link, term, backoff)
  /\ UNCHANGED taskVars

\* channel_ended: attach this terminal again, unless its channel keeps
\* closing within STABLE_AFTER of being attached.
ChannelEnded(i) ==
  \E soon \in BOOLEAN :
    LET q == IF soon THEN slot[i].quick + 1 ELSE 0 IN
    \/ q >= MaxQuickEnds /\ Finish(i)
    \/ /\ q < MaxQuickEnds
       /\ slot' = [slot EXCEPT ![i].state = "detached", ![i].quick = q]
       /\ view' = [view EXCEPT ![i] = "detached"]
       /\ ptys' = Hang({i})
       /\ BeginAttach("ended", i, slot[i].gen + 1, slot[i].size)
       /\ UNCHANGED <<job, todo, term, backoff, conn>>

\* Mutant: output of an earlier PTY is taken for the present one's.
CurrentAny(m) == Attached(m.id)

\* output acts only on what the terminal's present PTY says.
Current(m) == Attached(m.id) /\ slot[m.id].gen = m.gen

Output ==
  /\ AtSelect
  /\ outq # <<>>
  /\ outq' = Tail(outq)
  /\ LET m == Head(outq) IN
     \/ /\ ~Current(m)
        /\ UNCHANGED <<taskVars, connVars, slot, ptys, tellVars>>
     \/ /\ Current(m) /\ m.out = "data"
        /\ heard' = [heard EXCEPT ![m.id] = m.gen + 1]
        /\ UNCHANGED <<taskVars, connVars, slot, ptys, view>>
     \/ Current(m) /\ m.out = "exit" /\ Finish(m.id) /\ UNCHANGED heard
     \/ /\ Current(m) /\ m.out = "end"
        /\ IF link = "Up" /\ conn = "up" THEN ChannelEnded(m.id) ELSE Lost /\ UNCHANGED taskVars
        /\ UNCHANGED heard
  /\ UNCHANGED <<pending, nextId, faults, reply>>

-----------------------------------------------------------------------------
(* The environment: the connection, the PTYs, and the tasks that forward   *)
(* what each PTY says in the order it said it.                             *)

LinkDrop ==
  /\ conn = "up"
  /\ faults < MaxFaults
  /\ faults' = faults + 1
  /\ conn' = "gone"
  /\ UNCHANGED <<taskVars, link, backoff, term, slot, pending, nextId, ptys, outq, tellVars,
                 reply>>

Say(p, out) == Append(outq, [id |-> p.id, gen |-> p.gen, out |-> out])

PtyData(p) ==
  /\ Len(outq) < MaxOut
  /\ outq' = Say(p, "data")
  /\ UNCHANGED <<ptys, faults>>

\* `zellij attach` ended and its status was reported, then the output ends.
PtyExit(p) ==
  /\ ptys' = ptys \ {p}
  /\ outq' = Say(p, "exit") \o <<[id |-> p.id, gen |-> p.gen, out |-> "end"]>>
  /\ UNCHANGED faults

\* Mutant: the forwarder stops without saying so.
PtyEndSilent(p) ==
  /\ IF p.st = "run" /\ conn = "up" THEN faults < MaxFaults /\ faults' = faults + 1
                               ELSE UNCHANGED faults
  /\ ptys' = ptys \ {p}
  /\ UNCHANGED outq

\* The output just ends: the input was let go, the connection was lost, or
\* the server closed the channel.
PtyEnd(p) ==
  /\ IF p.st = "run" /\ conn = "up" THEN faults < MaxFaults /\ faults' = faults + 1
                               ELSE UNCHANGED faults
  /\ ptys' = ptys \ {p}
  /\ outq' = Say(p, "end")

PtyStep(p) ==
  /\ pc # "stopped"
  /\ PtyData(p) \/ PtyExit(p) \/ PtyEnd(p)
  /\ UNCHANGED <<taskVars, connVars, slot, pending, nextId, tellVars, reply>>

-----------------------------------------------------------------------------
Init ==
  /\ pc = "loop" /\ fn = "none" /\ job = NoJob /\ cur = NoAttach /\ todo = {}
  /\ link = "Idle"
  /\ slot = [i \in Ids |-> [state |-> "none", gen |-> 0, quick |-> 0, size |-> NoSize]]
  /\ pending = <<>>
  /\ nextId = 1
  /\ backoff = 0
  /\ conn = "gone"
  /\ ptys = {}
  /\ outq = <<>>
  /\ faults = 0
  /\ term = "none"
  /\ view = [i \in Ids |-> "none"]
  /\ heard = [i \in Ids |-> 0]
  /\ reply = [r \in Reqs |-> "unsent"]

Command ==
  \/ \E r \in Reqs, z \in Sizes : CmdOpen(r, z) \/ CmdOpenBusy(r, z)
  \/ \E r \in Reqs : CmdOpenStopped(r)
  \/ \E i \in Ids : CmdClose(i) \/ \E z \in Sizes : CmdResize(i, z)
  \/ CmdRetry \/ CmdStop

ConnectDone == ConnectOk \/ \E e \in Down : ConnectErr(e)
AttachDone == AttachOk \/ \E e \in Down : AttachErr(e)

Next ==
  \/ Command
  \/ PopPending \/ Timer \/ Output
  \/ ConnectDone \/ AttachDone
  \/ LinkDrop \/ \E p \in ptys : PtyStep(p)

Spec == Init /\ [][Next]_vars

\* The task is scheduled, connecting and attaching come to an end (they have
\* timeouts), deadlines pass, and a PTY whose connection is gone ends.
Fairness ==
  /\ WF_vars(PopPending) /\ WF_vars(Timer) /\ WF_vars(Output)
  /\ WF_vars(ConnectDone) /\ WF_vars(AttachDone)
  /\ WF_vars(conn = "gone" /\ \E p \in ptys : PtyStep(p))

FairSpec == Spec /\ Fairness

-----------------------------------------------------------------------------
(* Properties.                                                             *)

\* Whenever the task is back at its loop (run_terms), the connection is held
\* exactly while there are terminals, a link that is up serves every one of
\* them, and a link that is down serves none: no close, failure or reattach
\* in the middle of a handler leaves a terminal detached on a link that is up
\* (nobody would ever attach it again) or a connection without terminals.
LinkServesTerminals ==
  pc = "loop" =>
    /\ link # "Busy"
    /\ link = "Idle" <=> Live = {}
    /\ link = "Up" => \A i \in Live : Attached(i)
    /\ link \in Down => \A i \in Live : ~Attached(i)

\* The last HostEvent::Term the app was told is the state the link is in,
\* through every path that leads back to the loop.
TermStateTold ==
  pc = "loop" => term = (IF link = "Idle" THEN "none" ELSE link)

\* A PTY that was not told to close belongs to a terminal that is attached:
\* closing, losing, giving up, re-attaching and stopping leak no `zellij
\* attach`, in particular not one started for a terminal closed meanwhile.
NoStrayPty == \A p \in ptys : p.st = "run" => Owned(p)

\* A terminal that is attached has its PTY running, or the end of that PTY
\* is still in the queue and will be acted upon: none is attached to nothing.
AttachedIsServed ==
  \A i \in Ids : Attached(i) =>
    \/ \E p \in ptys : p.id = i /\ p.gen = slot[i].gen
    \/ \E k \in DOMAIN outq : /\ outq[k].id = i /\ outq[k].gen = slot[i].gen
                             /\ outq[k].out \in {"exit", "end"}

\* A terminal's attach generation counts its re-attachments.
Reattachments == [i \in Ids |-> slot[i].gen]

Owner == INSTANCE TermOwner WITH gen <- Reattachments

\* The events of every terminal follow the owner's contract (TermOwner):
\* output reaches the owner only from the PTY last announced with Attached,
\* never while the terminal is detached and never after it finished.
OwnerContract == Owner!Spec

\* A PTY has the size its terminal was last given (Resize); it goes astray
\* only when it is attached with a size copied before the last Resize
\* (reconnect, channel_ended).
SizeIsCurrent == \A p \in ptys : Owned(p) => p.size = slot[p.id].size
SizeFollows ==
  [][SizeIsCurrent /\ ~SizeIsCurrent' => pc = "attach" /\ cur.size # slot[cur.id].size]_vars

\* Every Open is answered (`open_terminal` never waits for ever): served,
\* failed, or told that the host was removed.
OpensAnswered == \A r \in Reqs : reply[r] = "waiting" ~> reply[r] # "waiting"

\* Once failures stop, every detached terminal is attached again or gone,
\* unless the connection waits for the user.
TerminalsComeBack ==
  \A i \in Ids : slot[i].state = "detached"
                 ~> slot[i].state # "detached" \/ link = "NeedsUser"

\* The inductive strengthening of the invariants above: where the task waits,
\* which terminals the link serves.  While reconnect works through its list,
\* the terminals it has yet to attach are exactly those that are detached.
Control ==
  /\ pc \in {"loop", "stopped"} => fn = "none" /\ job = NoJob
  /\ pc = "loop" => link # "Busy"
  /\ pc = "stopped" => Live = {}
  /\ pc = "connect" =>
       \/ fn = "open" /\ link = "Idle" /\ Live = {}
       \/ fn = "reconnect" /\ link \in Down /\ \A i \in Live : ~Attached(i)
  /\ pc = "attach" =>
       /\ link = "Busy" /\ term = "Up"
       /\ cur.id \in Ids /\ cur.id < nextId
       /\ \/ /\ fn = "open"
             /\ cur.id \notin Live /\ cur.gen = 0
             /\ view[cur.id] = "none" /\ slot[cur.id].gen = 0 /\ heard[cur.id] = 0
             /\ \A i \in Live : Attached(i)
          \/ /\ fn = "reconnect"
             /\ cur.gen = slot[cur.id].gen + 1 /\ cur.id \notin todo
             /\ \A i \in Live : Attached(i) <=> i \notin todo \cup {cur.id}
          \/ /\ fn = "ended" /\ job = NoJob
             /\ cur.gen = slot[cur.id].gen + 1
             /\ \A i \in Live : Attached(i) <=> i # cur.id

\* Ids not handed out yet have never been used, and the owners' view of the
\* others agrees with the map.
Views ==
  \A i \in Ids :
    /\ i >= nextId => view[i] = "none" /\ slot[i].gen = 0 /\ heard[i] = 0
    /\ slot[i].state = "none" => view[i] \notin {"attached", "detached"}
    /\ slot[i].state # "none" => view[i] = slot[i].state

IInv == TypeOK /\ Control /\ Views /\ LinkServesTerminals /\ TermStateTold /\ NoStrayPty
=============================================================================
