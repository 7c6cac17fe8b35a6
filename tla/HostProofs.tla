----------------------------- MODULE HostProofs -----------------------------
(***************************************************************************)
(* Proofs about Host: for any number of incarnations, messages, reports    *)
(* and waiting events, the view of a host catches up with what the tasks   *)
(* of its last incarnation reported, and the state shown means what the    *)
(* design says.                                                            *)
(*                                                                         *)
(* That the view is right once nothing waits is not inductive.  While      *)
(* reports of the current incarnation wait for the monitor, the last one   *)
(* about each connection is what its task told last; and of no incarnation *)
(* that is still to come anything waits or runs, so that a host added      *)
(* again starts with a clean view.                                         *)
(***************************************************************************)
EXTENDS Host, SequenceTheorems, TLAPS

Reports == [gen : Gens, of : {"probe", "term"}, val : ConnState \cup {"None"}]
Drops == [gen : Gens, of : {"dropped"}, val : Msgs]
Cmds == Msgs \cup {"Retry", "Stop"}
Conns == {"probe", "term"}

\* A task that writes has the message at the head of its commands.
SendingHasMessage ==
  \A g \in Gens : pc[g] = "sending" => cmds[g] # <<>> /\ Head(cmds[g]) \in Msgs

NoneToCome ==
  /\ \A g \in Gens : g > gen => pc[g] = "none"
  /\ \A i \in DOMAIN out : out[i].gen <= gen

\* The monitor knows the incarnation there is, and nothing of a removed host.
MonitorKnows ==
  /\ current = IF has THEN gen ELSE 0
  /\ ~has => view = NoView
  /\ has => gen > 0

\* The i-th of the events o is about connection f of incarnation g.
Says(o, i, f, g) == o[i].gen = g /\ o[i].of = f

\* While events o wait: the last one about a connection is the last report t
\* of it, and where none waits the view v has that report already.
LastIsTold(o, t, g) ==
  \A f \in Conns : \A i \in DOMAIN o :
    Says(o, i, f, g) /\ (\A j \in DOMAIN o : j > i => ~Says(o, j, f, g)) => o[i].val = t[f]
ElseInView(o, t, v, g) ==
  \A f \in Conns : (\A i \in DOMAIN o : ~Says(o, i, f, g)) => v[f] = t[f]
CatchesUp(o, t, v, g) == LastIsTold(o, t, g) /\ ElseInView(o, t, v, g)

Catching == has => CatchesUp(out, told, view, gen)

Inv == TypeOK /\ SendingHasMessage /\ NoneToCome /\ MonitorKnows /\ Catching

-----------------------------------------------------------------------------
(* The events that wait.                                                   *)

Events == Reports \cup Drops

\* A view, or what was told, after event e of incarnation g.
After(t, e, g) == IF e.gen = g /\ e.of \in Conns THEN [t EXCEPT ![e.of] = e.val] ELSE t

\* An event is about one of the two connections, or is not.
LEMMA AfterEvent ==
  ASSUME NEW t \in HostView, NEW e \in Events, NEW g
  PROVE  /\ After(t, e, g) \in HostView
         /\ \A f \in Conns : After(t, e, g)[f] = IF e.gen = g /\ e.of = f THEN e.val ELSE t[f]
BY DEF After, HostView, Events, Reports, Drops, Conns

\* An event that is queued becomes the last one.
LEMMA AppendCatches ==
  ASSUME NEW o \in Seq(Events), NEW t \in HostView, NEW v \in HostView, NEW g,
         NEW e \in Events, CatchesUp(o, t, v, g)
  PROVE  CatchesUp(Append(o, e), After(t, e, g), v, g)
<1> DEFINE p == Append(o, e)
<1>1. /\ DOMAIN p = DOMAIN o \cup {Len(o) + 1} /\ DOMAIN o = 1 .. Len(o) /\ Len(o) \in Nat
      /\ p[Len(o) + 1] = e /\ \A i \in DOMAIN o : p[i] = o[i]
  OBVIOUS
<1> HIDE DEF p
<1>2. \A f \in Conns, i \in DOMAIN o : Says(p, i, f, g) <=> Says(o, i, f, g)
  BY <1>1 DEF Says
<1>3. \A f \in Conns : Says(p, Len(o) + 1, f, g) <=> e.gen = g /\ e.of = f
  BY <1>1 DEF Says
<1>4. LastIsTold(p, After(t, e, g), g)
  <2> SUFFICES ASSUME NEW f \in Conns, NEW i \in DOMAIN p, Says(p, i, f, g),
                      \A j \in DOMAIN p : j > i => ~Says(p, j, f, g)
               PROVE  p[i].val = After(t, e, g)[f]
    BY DEF LastIsTold
  <2>1. CASE i = Len(o) + 1
    BY <2>1, <1>1, <1>3, AfterEvent
  <2>2. CASE i \in DOMAIN o
    <3>1. ~(e.gen = g /\ e.of = f)
      BY <2>2, <1>1, <1>3
    <3>2. \A j \in DOMAIN o : j > i => ~Says(o, j, f, g)
      BY <1>1, <1>2
    <3> QED BY <2>2, <3>1, <3>2, <1>1, <1>2, AfterEvent DEF CatchesUp, LastIsTold
  <2> QED BY <1>1, <2>1, <2>2
<1>5. ElseInView(p, After(t, e, g), v, g)
  <2> SUFFICES ASSUME NEW f \in Conns, \A i \in DOMAIN p : ~Says(p, i, f, g)
               PROVE  v[f] = After(t, e, g)[f]
    BY DEF ElseInView
  <2>1. (\A i \in DOMAIN o : ~Says(o, i, f, g)) /\ ~(e.gen = g /\ e.of = f)
    BY <1>1, <1>2, <1>3
  <2> QED BY <2>1, AfterEvent DEF CatchesUp, ElseInView
<1> QED BY <1>4, <1>5 DEF p, CatchesUp

\* The event the monitor takes goes into the view, or a later one is to come.
LEMMA TailCatches ==
  ASSUME NEW o \in Seq(Events), o # <<>>, NEW t \in HostView, NEW v \in HostView, NEW g,
         CatchesUp(o, t, v, g)
  PROVE  CatchesUp(Tail(o), t, After(v, Head(o), g), g)
<1> DEFINE p == Tail(o)
           e == Head(o)
<1>1. /\ Len(o) \in Nat \ {0} /\ DOMAIN o = 1 .. Len(o) /\ DOMAIN p = 1 .. Len(o) - 1
      /\ e = o[1] /\ e \in Events /\ \A i \in DOMAIN p : p[i] = o[i + 1]
  OBVIOUS
<1> HIDE DEF p, e
<1>2. \A f \in Conns, i \in DOMAIN p : Says(p, i, f, g) <=> Says(o, i + 1, f, g)
  BY <1>1 DEF Says
<1>3. LastIsTold(p, t, g)
  <2> SUFFICES ASSUME NEW f \in Conns, NEW i \in DOMAIN p, Says(p, i, f, g),
                      \A j \in DOMAIN p : j > i => ~Says(p, j, f, g)
               PROVE  p[i].val = t[f]
    BY DEF LastIsTold
  <2>1. \A j \in DOMAIN o : j > i + 1 => ~Says(o, j, f, g)
    <3> SUFFICES ASSUME NEW j \in DOMAIN o, j > i + 1 PROVE ~Says(o, j, f, g)
      OBVIOUS
    <3>1. j - 1 \in DOMAIN p /\ j - 1 > i /\ (j - 1) + 1 = j
      BY <1>1
    <3> QED BY <1>2, <3>1
  <2>2. i + 1 \in DOMAIN o /\ Says(o, i + 1, f, g) /\ p[i] = o[i + 1]
    BY <1>1, <1>2
  <2> QED BY <2>1, <2>2 DEF CatchesUp, LastIsTold
<1>4. ElseInView(p, t, After(v, e, g), g)
  <2> SUFFICES ASSUME NEW f \in Conns, \A i \in DOMAIN p : ~Says(p, i, f, g)
               PROVE  After(v, e, g)[f] = t[f]
    BY DEF ElseInView
  <2>1. \A j \in DOMAIN o : j > 1 => ~Says(o, j, f, g)
    <3> SUFFICES ASSUME NEW j \in DOMAIN o, j > 1 PROVE ~Says(o, j, f, g)
      OBVIOUS
    <3>1. j - 1 \in DOMAIN p /\ (j - 1) + 1 = j
      BY <1>1
    <3> QED BY <1>2, <3>1
  <2>2. CASE Says(o, 1, f, g)
    <3>1. o[1].val = t[f]
      BY <1>1, <2>1, <2>2 DEF CatchesUp, LastIsTold
    <3> QED BY <1>1, <2>2, <3>1, AfterEvent DEF Says
  <2>3. CASE ~Says(o, 1, f, g)
    <3>1. \A j \in DOMAIN o : ~Says(o, j, f, g)
      BY <1>1, <2>1, <2>3
    <3>2. v[f] = t[f]
      BY <3>1 DEF CatchesUp, ElseInView
    <3> QED BY <1>1, <2>3, <3>2, AfterEvent DEF Says
  <2> QED BY <2>2, <2>3
<1> QED BY <1>3, <1>4 DEF p, e, CatchesUp

\* Events that are queued behind the others.
LEMMA QueuedLast ==
  ASSUME NEW o \in Seq(Events), NEW a \in Events, NEW b \in Events
  PROVE  /\ o \o <<a>> = Append(o, a) /\ Append(o, a) \in Seq(Events)
         /\ o \o <<a, b>> = Append(Append(o, a), b)
<1>1. o \o <<a>> = Append(o, a) /\ Append(o, a) \in Seq(Events)
  OBVIOUS
<1>2. <<a, b>> \in Seq(Events) /\ Len(<<a, b>>) = 2 /\ <<a, b>>[1] = a /\ <<a, b>>[2] = b
  OBVIOUS
<1> DEFINE s == o \o <<a, b>>
           t == Append(Append(o, a), b)
<1>3. s \in Seq(Events) /\ t \in Seq(Events) /\ Len(s) = Len(t)
  BY <1>2
<1>4. \A i \in 1 .. Len(s) : s[i] = t[i]
  BY <1>2
<1>5. s = t
  BY <1>3, <1>4, SeqEqual
<1> QED BY <1>1, <1>5

-----------------------------------------------------------------------------
(* Parts of the invariant that few actions disturb.                        *)

Places == {"none", "start", "up", "sending", "stopped"} \cup Idle
Talking == {"hello", "up", "sending"}

\* What belongs to the probe tasks, to the app, and to the monitor.
TasksTyped ==
  /\ cmds \in [Gens -> Seq(Cmds)]
  /\ pc \in [Gens -> Places]
  /\ backoff \in [Gens -> 0 .. MaxBackoff]
  /\ stream \in [Gens -> {"good", "closed", "silent"}]
  /\ \A g \in Gens : stream[g] # "closed" => pc[g] \in Talking
  /\ SendingHasMessage
AppTyped ==
  /\ has \in BOOLEAN /\ gen \in 0 .. MaxGens /\ current \in 0 .. MaxGens
  /\ sent \in [Msgs -> {"unsent", "refused", "queued", "written", "dropped", "reported"}]
  /\ inputs \in 0 .. MaxInputs
Watched ==
  /\ told \in HostView /\ out \in Seq(Events) /\ view \in HostView
  /\ NoneToCome /\ MonitorKnows /\ Catching

\* The invariant by its parts.
LEMMA Parts == Inv <=> TasksTyped /\ AppTyped /\ Watched
<1>1. TypeOK /\ SendingHasMessage
        <=> /\ TasksTyped /\ AppTyped
            /\ told \in HostView /\ out \in Seq(Events) /\ view \in HostView
  <2>1. ASSUME TypeOK, SendingHasMessage
        PROVE  /\ TasksTyped /\ AppTyped
               /\ told \in HostView /\ out \in Seq(Events) /\ view \in HostView
    BY <2>1, Zenon
         DEF TypeOK, TasksTyped, AppTyped, Events, Reports, Drops, Cmds, Places, Talking
  <2>2. ASSUME TasksTyped, AppTyped, told \in HostView, out \in Seq(Events), view \in HostView
        PROVE  TypeOK /\ SendingHasMessage
    BY <2>2, Zenon
         DEF TypeOK, TasksTyped, AppTyped, Events, Reports, Drops, Cmds, Places, Talking
  <2> QED BY <2>1, <2>2
<1> QED BY <1>1 DEF Inv, Watched

\* The same for the next state.
LEMMA PartsNext == TasksTyped' /\ AppTyped' /\ Watched' => Inv'
BY Parts, PTL

\* The bounds are numbers.
LEMMA Bounds == MaxGens \in Nat /\ MaxBackoff \in Nat /\ MaxInputs \in Nat
BY HostAssumption

\* Nothing happened yet.
LEMMA Initially == Init => Inv
<1> SUFFICES ASSUME Init PROVE Inv
  OBVIOUS
<1>1. TasksTyped
  BY Bounds DEF Init, TasksTyped, Places, SendingHasMessage
<1>2. AppTyped
  <2>1. 0 \in 0 .. MaxGens /\ 0 \in 0 .. MaxInputs
    BY Bounds
  <2>2. sent \in [Msgs -> {"unsent", "refused", "queued", "written", "dropped", "reported"}]
    BY DEF Init
  <2> QED BY <2>1, <2>2, Zenon DEF Init, AppTyped
<1>3. NoView \in HostView
  BY DEF NoView, HostView
<1>4. Watched
  BY <1>3 DEF Init, Watched, NoneToCome, MonitorKnows, Catching
<1> QED BY <1>1, <1>2, <1>4, Parts

\* A step that no event, no report and no incarnation takes part in.
LEMMA StillWatched ==
  ASSUME Inv, NEW g \in Gens, pc[g] # "none", \A h \in Gens \ {g} : pc'[h] = pc[h],
         UNCHANGED <<has, gen, told, out, current, view>>
  PROVE  Watched'
BY Bounds, Parts DEF Watched, NoneToCome, MonitorKnows, Catching, Gens, AppTyped

\* Incarnation g queues an event, and what it tells is what the event says.
LEMMA EventWatched ==
  ASSUME Inv, NEW g \in Gens, pc[g] # "none", \A h \in Gens \ {g} : pc'[h] = pc[h],
         NEW e \in Events, e.gen = g,
         out' = Append(out, e), told' = After(told, e, gen),
         UNCHANGED <<has, gen, current, view>>
  PROVE  Watched'
<1>1. Watched /\ AppTyped
  BY Parts
<1>2. g <= gen
  BY <1>1, Bounds DEF Watched, NoneToCome, AppTyped, Gens
<1>3. NoneToCome'
  <2>1. \A h \in Gens : h > gen => pc'[h] = "none"
    BY <1>1, <1>2, Bounds DEF Watched, NoneToCome, AppTyped, Gens
  <2>2. \A i \in DOMAIN out' : out'[i].gen <= gen
    BY <1>1, <1>2 DEF Watched, NoneToCome
  <2> QED BY <2>1, <2>2 DEF NoneToCome
<1>4. Catching'
  BY <1>1, AppendCatches DEF Watched, Catching
<1>5. told' \in HostView /\ out' \in Seq(Events)
  BY <1>1, AfterEvent DEF Watched
<1> QED BY <1>1, <1>3, <1>4, <1>5 DEF Watched, MonitorKnows

-----------------------------------------------------------------------------
(* The app.                                                                *)

\* Another command behind the others does not change the one at the head.
LEMMA CommandGiven ==
  ASSUME TasksTyped, NEW g \in Gens, NEW c \in Cmds,
         cmds' = [cmds EXCEPT ![g] = Append(@, c)],
         UNCHANGED <<pc, backoff, stream>>
  PROVE  TasksTyped'
<1>1. cmds[g] \in Seq(Cmds) /\ Append(cmds[g], c) \in Seq(Cmds)
  BY DEF TasksTyped
<1>2. cmds[g] # <<>> => Append(cmds[g], c) # <<>> /\ Head(Append(cmds[g], c)) = Head(cmds[g])
  BY <1>1
<1>3. SendingHasMessage'
  BY <1>1, <1>2 DEF TasksTyped, SendingHasMessage
<1> QED BY <1>1, <1>3 DEF TasksTyped

\* The host as added last is an incarnation.
LEMMA ThereIsOne == Inv /\ has => gen \in Gens
BY Parts, Bounds DEF Watched, MonitorKnows, AppTyped, Gens

\* add_host: no event of the new incarnation waits, and its view is empty.
LEMMA AddKeeps == ASSUME Inv, AddHost PROVE Inv'
<1>1. TasksTyped /\ AppTyped /\ Watched
  BY Parts
<1>2. gen + 1 \in Gens /\ pc[gen + 1] = "none" /\ ~has
  BY <1>1, Bounds DEF AddHost, AppTyped, Gens, Watched, NoneToCome
<1>3. /\ pc' = [pc EXCEPT ![gen + 1] = "start"] /\ has' = TRUE /\ gen' = gen + 1
      /\ current' = gen + 1 /\ told' = NoView
      /\ UNCHANGED <<cmds, backoff, stream, out, view, sent, inputs>>
  BY DEF AddHost, Goto
<1>4. TasksTyped'
  BY <1>1, <1>2, <1>3 DEF TasksTyped, SendingHasMessage, Places, Talking
<1>5. AppTyped'
  <2>1. gen' \in 0 .. MaxGens /\ current' \in 0 .. MaxGens /\ has' \in BOOLEAN
    BY <1>2, <1>3, Bounds DEF Gens
  <2> QED BY <1>1, <1>3, <2>1 DEF AppTyped
<1>6. NoneToCome'
  <2>1. \A i \in DOMAIN out : out[i].gen \in Nat
    BY <1>1, Bounds DEF Watched, Events, Reports, Drops, Gens
  <2>2. \A i \in DOMAIN out : out[i].gen <= gen + 1
    BY <1>1, <2>1 DEF Watched, NoneToCome, AppTyped
  <2>3. \A g \in Gens : g > gen + 1 => pc'[g] = "none"
    BY <1>1, <1>2, <1>3 DEF Watched, NoneToCome, TasksTyped, AppTyped, Gens
  <2> QED BY <1>3, <2>2, <2>3 DEF NoneToCome
<1>7. MonitorKnows'
  BY <1>1, <1>2, <1>3, Bounds DEF MonitorKnows, AppTyped
<1>8. Catching'
  <2>1. view = NoView
    BY <1>1, <1>2 DEF Watched, MonitorKnows
  <2>2. \A i \in DOMAIN out, f \in Conns : ~Says(out, i, f, gen + 1)
    BY <1>1 DEF Watched, NoneToCome, Says, AppTyped
  <2>3. CatchesUp(out, NoView, NoView, gen + 1)
    BY <2>2 DEF CatchesUp, LastIsTold, ElseInView
  <2> QED BY <1>3, <2>1, <2>3 DEF Catching
<1>9. NoView \in HostView
  BY DEF NoView, HostView
<1> QED BY <1>1, <1>3, <1>4, <1>5, <1>6, <1>7, <1>8, <1>9, PartsNext DEF Watched

\* remove_host: the view of the host is gone with it.
LEMMA RemoveKeeps == ASSUME Inv, RemoveHost PROVE Inv'
<1>1. TasksTyped /\ AppTyped /\ Watched /\ gen \in Gens
  BY Parts, ThereIsOne DEF RemoveHost
<1>2. /\ has' = FALSE /\ current' = 0 /\ view' = NoView
      /\ cmds' = [cmds EXCEPT ![gen] = Append(@, "Stop")]
      /\ UNCHANGED <<gen, pc, backoff, stream, told, out, sent, inputs>>
  BY DEF RemoveHost, taskVars
<1>3. TasksTyped'
  BY <1>1, <1>2, CommandGiven DEF Cmds
<1>4. AppTyped'
  <2>1. 0 \in 0 .. MaxGens
    BY Bounds
  <2> QED BY <1>1, <1>2, <2>1 DEF AppTyped
<1>5. NoView \in HostView
  BY DEF NoView, HostView
<1>6. NoneToCome' /\ MonitorKnows' /\ Catching'
  BY <1>1, <1>2 DEF Watched, NoneToCome, MonitorKnows, Catching
<1> QED BY <1>1, <1>2, <1>3, <1>4, <1>5, <1>6, PartsNext DEF Watched

\* retry and send give the task a command, or tell the caller that there is
\* no host.
LEMMA CommandKeeps == ASSUME Inv, Retry \/ \E m \in Msgs : Send(m) PROVE Inv'
<1>1. TasksTyped /\ AppTyped /\ Watched
  BY Parts
<1>2. UNCHANGED <<has, gen, pc, backoff, stream, told, out, current, view, inputs>>
  BY DEF Retry, Send, taskVars, monVars
<1>3. Watched'
  BY <1>1, <1>2 DEF Watched, NoneToCome, MonitorKnows, Catching
<1>4. sent' \in [Msgs -> {"unsent", "refused", "queued", "written", "dropped", "reported"}]
  BY <1>1 DEF AppTyped, Retry, Send
<1>5. TasksTyped'
  <2>1. CASE UNCHANGED cmds
    BY <1>1, <1>2, <2>1 DEF TasksTyped, SendingHasMessage
  <2>2. CASE has /\ \E c \in Cmds : cmds' = [cmds EXCEPT ![gen] = Append(@, c)]
    BY <1>1, <1>2, <2>2, ThereIsOne, CommandGiven
  <2> QED BY <2>1, <2>2 DEF Retry, Send, Cmds
<1>6. AppTyped'
  BY <1>1, <1>2, <1>4 DEF AppTyped
<1> QED BY <1>3, <1>5, <1>6, PartsNext

-----------------------------------------------------------------------------
(* The probe tasks.                                                        *)

\* Host::emit: a report is queued and is what was told last.
LEMMA EmitWatched ==
  ASSUME Inv, NEW g \in Gens, pc[g] # "none", \A h \in Gens \ {g} : pc'[h] = pc[h],
         NEW f \in Conns, NEW v \in ConnState \cup {"None"}, Emit(g, f, v),
         UNCHANGED <<has, gen, current, view>>
  PROVE  Watched'
<1> DEFINE e == Event(g, f, v)
<1>1. e \in Events /\ e.gen = g /\ e.of = f /\ e.val = v
  BY DEF Event, Events, Reports, Conns
<1>2. out \in Seq(Events)
  BY Parts DEF Watched
<1>3. out' = out \o <<e>> /\ told' = IF g = gen THEN [told EXCEPT ![f] = v] ELSE told
  BY DEF Emit, Queue, Report
<1> HIDE DEF e
<1>4. out' = Append(out, e) /\ told' = After(told, e, gen)
  BY <1>1, <1>2, <1>3, QueuedLast DEF After
<1> QED BY <1>1, <1>4, EventWatched

\* The app's part when a task moves.
LEMMA AppStays ==
  ASSUME Inv, UNCHANGED <<has, gen, current, sent>>, Input \/ UNCHANGED inputs
  PROVE  AppTyped'
BY Parts, Bounds DEF AppTyped, Input

\* A task goes to another place, with a stream and a delay that fit it.
LEMMA TaskMoves ==
  ASSUME TasksTyped, NEW g \in Gens, NEW p \in Places \ {"sending"},
         pc' = [pc EXCEPT ![g] = p],
         NEW b \in 0 .. MaxBackoff, backoff' = [backoff EXCEPT ![g] = b] \/ UNCHANGED backoff,
         NEW s \in {"good", "closed", "silent"}, s # "closed" => p \in Talking,
         stream' = [stream EXCEPT ![g] = s] \/ (UNCHANGED stream /\ stream[g] = s),
         NEW c \in Seq(Cmds), cmds' = [cmds EXCEPT ![g] = c] \/ UNCHANGED cmds
  PROVE  TasksTyped'
<1>1. /\ cmds' \in [Gens -> Seq(Cmds)] /\ pc' \in [Gens -> Places]
      /\ backoff' \in [Gens -> 0 .. MaxBackoff] /\ stream' \in [Gens -> {"good", "closed", "silent"}]
  BY DEF TasksTyped
<1>2. \A h \in Gens : stream'[h] # "closed" => pc'[h] \in Talking
  BY DEF TasksTyped
<1>3. SendingHasMessage'
  BY DEF TasksTyped, SendingHasMessage
<1> QED BY <1>1, <1>2, <1>3 DEF TasksTyped

\* The delay stays within its maximum.
LEMMA DelayBounded == ASSUME NEW b \in 0 .. MaxBackoff PROVE NextDelay(b) \in 0 .. MaxBackoff
BY Bounds DEF NextDelay

\* A task that is not talking has no stream.
LEMMA NoStream == ASSUME TasksTyped, NEW g \in Gens, pc[g] \notin Talking PROVE stream[g] = "closed"
BY DEF TasksTyped

\* An attempt starts: the task was waiting, or has just been started.
LEMMA ConnectKeeps ==
  ASSUME Inv, NEW g \in Gens, pc[g] \in Waits \cup {"start"}, Connect(g),
         UNCHANGED <<has, gen, current, view, sent, inputs, stream>>,
         NEW c \in Seq(Cmds), cmds' = [cmds EXCEPT ![g] = c] \/ UNCHANGED cmds,
         backoff' = [backoff EXCEPT ![g] = 0] \/ UNCHANGED backoff
  PROVE  Inv'
<1>1. TasksTyped /\ pc' = [pc EXCEPT ![g] = "open"] /\ Emit(g, "probe", "Connecting")
  BY Parts DEF Connect, Goto
<1>2. pc[g] \notin Talking /\ pc[g] # "none"
  BY DEF Waits, Talking
<1>3. TasksTyped'
  <2>1. stream[g] = "closed"
    BY <1>1, <1>2, NoStream
  <2>2. "open" \in Places \ {"sending"} /\ 0 \in 0 .. MaxBackoff
    BY Bounds DEF Places, Idle
  <2> QED BY <1>1, <2>1, <2>2, TaskMoves
<1>4. \A h \in Gens \ {g} : pc'[h] = pc[h]
  BY <1>1 DEF TasksTyped
<1>5. Watched'
  BY <1>1, <1>2, <1>4, EmitWatched DEF Conns, ConnState
<1> QED BY <1>3, <1>5, AppStays, PartsNext

\* A task reports the state of its connection and goes elsewhere.
LEMMA ReportKeeps ==
  ASSUME Inv, NEW g \in Gens, pc[g] # "none", NEW p, pc' = [pc EXCEPT ![g] = p],
         NEW v \in ConnState, Emit(g, "probe", v), TasksTyped',
         UNCHANGED <<has, gen, current, view, sent>>, Input \/ UNCHANGED inputs
  PROVE  Inv'
<1>1. \A h \in Gens \ {g} : pc'[h] = pc[h]
  BY Parts DEF TasksTyped
<1>2. Watched'
  BY <1>1, EmitWatched DEF Conns
<1> QED BY <1>2, AppStays, PartsNext

\* The task waits for its next attempt, without a stream.
LEMMA DownTyped ==
  ASSUME TasksTyped, NEW g \in Gens, NEW b \in 0 .. MaxBackoff, Down(g, b),
         NEW c \in Seq(Cmds), cmds' = [cmds EXCEPT ![g] = c] \/ UNCHANGED cmds
  PROVE  TasksTyped' /\ pc' = [pc EXCEPT ![g] = "wait"]
<1>1. "wait" \in Places \ {"sending"}
  BY DEF Places, Idle
<1>2. /\ pc' = [pc EXCEPT ![g] = "wait"] /\ stream' = [stream EXCEPT ![g] = "closed"]
      /\ backoff' = [backoff EXCEPT ![g] = NextDelay(b)]
  BY DEF Down, Goto
<1> QED BY <1>1, <1>2, DelayBounded, TaskMoves

\* Start and the end of a delay.
LEMMA StartKeeps == ASSUME Inv, NEW g \in Gens, Start(g) \/ WaitOver(g) PROVE Inv'
<1>1. pc[g] \in Waits \cup {"start"} /\ Connect(g) /\ UNCHANGED <<has, gen, current, view, sent, inputs, stream, cmds, backoff>>
  BY DEF Start, WaitOver, Waits, monVars
<1>2. cmds[g] \in Seq(Cmds)
  BY Parts DEF TasksTyped
<1> QED BY <1>1, <1>2, ConnectKeeps

\* The attempt.
LEMMA OpenKeeps == ASSUME Inv, NEW g \in Gens, OpenOk(g) \/ OpenFails(g) PROVE Inv'
<1>1. /\ TasksTyped /\ pc[g] = "open" /\ stream[g] = "closed" /\ cmds[g] \in Seq(Cmds)
      /\ backoff[g] \in 0 .. MaxBackoff
  BY Parts, NoStream DEF OpenOk, OpenFails, TasksTyped, Talking
<1>2. CASE OpenOk(g)
  <2>1. /\ pc' = [pc EXCEPT ![g] = "hello"] /\ stream' = [stream EXCEPT ![g] = "good"]
        /\ UNCHANGED <<has, gen, cmds, backoff, told, out, current, view, sent, inputs>>
    BY <1>2 DEF OpenOk, Goto, monVars
  <2>2. TasksTyped'
    BY <1>1, <2>1, TaskMoves DEF Places, Idle, Talking
  <2>3. Watched'
    BY <1>1, <2>1, StillWatched DEF TasksTyped
  <2> QED BY <2>1, <2>2, <2>3, AppStays, PartsNext
<1>3. CASE OpenFails(g)
  <2>1. UNCHANGED <<has, gen, cmds, current, view, sent>> /\ Input
    BY <1>3 DEF OpenFails, monVars
  <2>2. CASE Down(g, backoff[g]) /\ Emit(g, "probe", "Retrying")
    BY <1>1, <2>1, <2>2, DownTyped, ReportKeeps DEF ConnState
  <2>3. CASE /\ \E p \in {"Auth", "User"} : Emit(g, "probe", p)
             /\ Goto(g, "user")
             /\ UNCHANGED <<backoff, stream>>
    <3>1. TasksTyped' /\ pc' = [pc EXCEPT ![g] = "user"]
      BY <1>1, <2>1, <2>3, TaskMoves DEF Goto, Places, Idle
    <3> QED BY <1>1, <2>1, <2>3, <3>1, ReportKeeps DEF ConnState
  <2> QED BY <1>3, <2>2, <2>3 DEF OpenFails
<1> QED BY <1>2, <1>3

\* The handshake.
LEMMA HelloKeeps == ASSUME Inv, NEW g \in Gens, HelloOk(g) \/ HelloFails(g) PROVE Inv'
<1>1. /\ TasksTyped /\ pc[g] = "hello" /\ cmds[g] \in Seq(Cmds)
      /\ backoff[g] \in 0 .. MaxBackoff
  BY Parts DEF HelloOk, HelloFails, TasksTyped
<1>2. CASE HelloOk(g)
  <2>1. /\ pc' = [pc EXCEPT ![g] = "up"] /\ stream[g] = "good" /\ Emit(g, "probe", "Up")
        /\ UNCHANGED <<has, gen, cmds, backoff, stream, current, view, sent, inputs>>
    BY <1>2 DEF HelloOk, Goto, monVars
  <2>2. TasksTyped'
    BY <1>1, <2>1, TaskMoves DEF Places, Idle, Talking
  <2> QED BY <1>1, <2>1, <2>2, ReportKeeps DEF ConnState
<1>3. CASE HelloFails(g)
  <2>1. UNCHANGED <<has, gen, cmds, current, view, sent>> /\ (Input \/ UNCHANGED inputs)
    BY <1>3 DEF HelloFails, monVars
  <2>2. CASE /\ Goto(g, "protocol") /\ Emit(g, "probe", "User")
             /\ stream' = [stream EXCEPT ![g] = "closed"] /\ UNCHANGED backoff
    <3>1. TasksTyped' /\ pc' = [pc EXCEPT ![g] = "protocol"]
      BY <1>1, <2>1, <2>2, TaskMoves DEF Goto, Places, Idle
    <3> QED BY <1>1, <2>1, <2>2, <3>1, ReportKeeps DEF ConnState
  <2>3. CASE Down(g, backoff[g]) /\ Emit(g, "probe", "Retrying")
    BY <1>1, <2>1, <2>3, DownTyped, ReportKeeps DEF ConnState
  <2> QED BY <1>3, <2>2, <2>3 DEF HelloFails
<1> QED BY <1>2, <1>3

\* The link breaks, and the task notices.
LEMMA LinkKeeps == ASSUME Inv, NEW g \in Gens, LinkFails(g) \/ LinkBreaks(g) PROVE Inv'
<1>1. TasksTyped /\ cmds[g] \in Seq(Cmds) /\ backoff[g] \in 0 .. MaxBackoff /\ pc[g] \in Talking
  BY Parts DEF TasksTyped, LinkFails, LinkBreaks, Talking
<1>2. CASE LinkFails(g)
  <2>1. PICK b \in {0, backoff[g]} : Down(g, b)
    BY <1>2 DEF LinkFails
  <2>2. /\ UNCHANGED <<has, gen, cmds, current, view, sent, inputs>>
        /\ Emit(g, "probe", "Retrying") /\ b \in 0 .. MaxBackoff
    BY <1>1, <1>2, Bounds DEF LinkFails, monVars
  <2> QED BY <1>1, <2>1, <2>2, DownTyped, ReportKeeps DEF ConnState, Talking
<1>3. CASE LinkBreaks(g)
  <2>1. PICK s \in {"closed", "silent"} : stream' = [stream EXCEPT ![g] = s]
    BY <1>3 DEF LinkBreaks
  <2>2. UNCHANGED <<has, gen, cmds, pc, backoff, told, out, current, view, sent>> /\ Input
    BY <1>3 DEF LinkBreaks, monVars
  <2>3. TasksTyped'
    BY <1>1, <2>1, <2>2 DEF TasksTyped, SendingHasMessage, Talking
  <2>4. Watched'
    BY <1>1, <2>2, StillWatched DEF Talking
  <2> QED BY <2>2, <2>3, <2>4, AppStays, PartsNext
<1> QED BY <1>2, <1>3

\* A command that is taken leaves the others.
LEMMA TakenTyped ==
  ASSUME TasksTyped, NEW g \in Gens, cmds[g] # <<>>, Taken(g)
  PROVE  Tail(cmds[g]) \in Seq(Cmds) /\ cmds' = [cmds EXCEPT ![g] = Tail(cmds[g])]
BY DEF TasksTyped, Taken

\* Stop.
LEMMA StopKeeps == ASSUME Inv, NEW g \in Gens, CmdStop(g) PROVE Inv'
<1>1. TasksTyped /\ cmds[g] # <<>> /\ Taken(g) /\ pc[g] # "none"
  BY Parts DEF CmdStop, Next1, Idle
<1>2. /\ pc' = [pc EXCEPT ![g] = "stopped"] /\ stream' = [stream EXCEPT ![g] = "closed"]
      /\ backoff' = [backoff EXCEPT ![g] = 0]
      /\ UNCHANGED <<has, gen, told, out, current, view, sent, inputs>>
  BY DEF CmdStop, Goto, monVars
<1>3. TasksTyped'
  <2>1. "stopped" \in Places \ {"sending"} /\ 0 \in 0 .. MaxBackoff
    BY Bounds DEF Places, Idle
  <2>2. Tail(cmds[g]) \in Seq(Cmds) /\ cmds' = [cmds EXCEPT ![g] = Tail(cmds[g])]
    BY <1>1, TakenTyped
  <2> QED BY <1>1, <1>2, <2>1, <2>2, TaskMoves
<1>4. Watched'
  BY <1>1, <1>2, StillWatched DEF TasksTyped
<1> QED BY <1>2, <1>3, <1>4, AppStays, PartsNext

\* Retry.
LEMMA RetryKeeps == ASSUME Inv, NEW g \in Gens, CmdRetry(g) PROVE Inv'
<1>1. TasksTyped /\ cmds[g] # <<>> /\ Taken(g) /\ pc[g] \in Idle \cup {"up"}
  BY Parts DEF CmdRetry, Next1
<1>2. UNCHANGED <<has, gen, stream, current, view, sent, inputs>>
  BY DEF CmdRetry, monVars
<1>3. CASE pc[g] \in Waits
  <2>1. Connect(g) /\ (backoff' = [backoff EXCEPT ![g] = 0] \/ UNCHANGED backoff)
    BY <1>3 DEF CmdRetry
  <2> QED BY <1>1, <1>2, <1>3, <2>1, TakenTyped, ConnectKeeps
<1>4. CASE pc[g] \notin Waits
  <2>1. UNCHANGED <<pc, told, out, backoff>>
    BY <1>4 DEF CmdRetry, Waits
  <2>2. TasksTyped'
    <3>1. /\ cmds' \in [Gens -> Seq(Cmds)] /\ \A h \in Gens \ {g} : cmds'[h] = cmds[h]
          /\ pc[g] # "sending"
      BY <1>1, TakenTyped DEF TasksTyped, Idle
    <3> QED BY <1>1, <1>2, <2>1, <3>1 DEF TasksTyped, SendingHasMessage
  <2>3. Watched'
    BY <1>1, <1>2, <2>1, StillWatched DEF Idle
  <2> QED BY <1>2, <2>2, <2>3, AppStays, PartsNext
<1> QED BY <1>3, <1>4

\* A message that is dropped is queued as an event and tells nothing.
LEMMA DropWatched ==
  ASSUME Inv, NEW g \in Gens, pc[g] # "none", \A h \in Gens \ {g} : pc'[h] = pc[h],
         NEW m \in Msgs, Queue(<<Event(g, "dropped", m)>>),
         UNCHANGED <<has, gen, current, view, told>>
  PROVE  Watched'
<1> DEFINE e == Event(g, "dropped", m)
<1>1. e \in Events /\ e.gen = g /\ e.of = "dropped"
  BY DEF Event, Events, Drops
<1>2. out \in Seq(Events)
  BY Parts DEF Watched
<1>3. out' = out \o <<e>>
  BY DEF Queue
<1> HIDE DEF e
<1>4. out' = Append(out, e) /\ told' = After(told, e, gen)
  BY <1>1, <1>2, <1>3, QueuedLast DEF After, Conns
<1> QED BY <1>1, <1>4, EventWatched

\* What has become of a message is noted.
LEMMA SentTyped ==
  ASSUME Inv, NEW m, NEW x \in {"written", "dropped", "reported"},
         sent' = [sent EXCEPT ![m] = x], UNCHANGED <<has, gen, current, inputs>>
  PROVE  AppTyped'
BY Parts DEF AppTyped

\* A message is dropped, or the task begins to write it.
LEMMA SendKeeps == ASSUME Inv, NEW g \in Gens, CmdSend(g) PROVE Inv'
<1>1. PICK m \in Msgs :
        /\ Next1(g, m)
        /\ \/ /\ pc[g] \in Idle
              /\ Taken(g)
              /\ Queue(<<Event(g, "dropped", m)>>)
              /\ sent' = [sent EXCEPT ![m] = "dropped"]
              /\ UNCHANGED <<pc, told>>
           \/ /\ pc[g] = "up"
              /\ Goto(g, "sending")
              /\ UNCHANGED <<cmds, told, out, sent>>
  BY DEF CmdSend
<1>2. TasksTyped /\ cmds[g] # <<>> /\ Head(cmds[g]) = m
  BY <1>1, Parts DEF Next1
<1>3. UNCHANGED <<has, gen, backoff, stream, current, view, inputs>>
  BY DEF CmdSend, monVars
<1>4. CASE /\ pc[g] \in Idle /\ Taken(g) /\ Queue(<<Event(g, "dropped", m)>>)
           /\ sent' = [sent EXCEPT ![m] = "dropped"] /\ UNCHANGED <<pc, told>>
  <2>1. TasksTyped'
    <3>1. /\ cmds' \in [Gens -> Seq(Cmds)] /\ \A h \in Gens \ {g} : cmds'[h] = cmds[h]
          /\ pc[g] # "sending"
      BY <1>2, <1>4, TakenTyped DEF TasksTyped, Idle
    <3> QED BY <1>2, <1>3, <1>4, <3>1 DEF TasksTyped, SendingHasMessage
  <2>2. Watched'
    BY <1>3, <1>4, DropWatched DEF Idle
  <2> QED BY <1>3, <1>4, <2>1, <2>2, SentTyped, PartsNext
<1>5. CASE pc[g] = "up" /\ Goto(g, "sending") /\ UNCHANGED <<cmds, told, out, sent>>
  <2>1. pc' = [pc EXCEPT ![g] = "sending"]
    BY <1>5 DEF Goto
  <2>2. TasksTyped'
    BY <1>2, <1>3, <1>5, <2>1 DEF TasksTyped, SendingHasMessage, Places, Talking
  <2>3. Watched'
    BY <1>2, <1>3, <1>5, <2>1, StillWatched DEF TasksTyped
  <2> QED BY <1>3, <1>5, <2>2, <2>3, AppStays, PartsNext
<1> QED BY <1>1, <1>4, <1>5

\* The message is written, or the link fails: the message is dropped and the
\* task waits for the next attempt.
LEMMA SendDoneKeeps == ASSUME Inv, NEW g \in Gens, SendDone(g) PROVE Inv'
<1> DEFINE m == Head(cmds[g])
           a == Event(g, "dropped", m)
           b == Event(g, "probe", "Retrying")
<1>1. /\ TasksTyped /\ Watched /\ pc[g] = "sending" /\ cmds[g] # <<>> /\ m \in Msgs /\ Taken(g)
      /\ backoff[g] \in 0 .. MaxBackoff /\ stream[g] \in {"good", "closed", "silent"}
  BY Parts DEF SendDone, TasksTyped, SendingHasMessage
<1>2. UNCHANGED <<has, gen, current, view, inputs>>
  BY DEF SendDone, monVars
<1>3. CASE sent' = [sent EXCEPT ![m] = "written"] /\ Goto(g, "up") /\ UNCHANGED <<backoff, stream, told, out>>
  <2>1. pc' = [pc EXCEPT ![g] = "up"] /\ "up" \in Places \ {"sending"} /\ "up" \in Talking
    BY <1>3 DEF Goto, Places, Talking
  <2>2. TasksTyped'
    BY <1>1, <1>3, <2>1, TakenTyped, TaskMoves
  <2>3. Watched'
    BY <1>1, <1>2, <1>3, <2>1, StillWatched DEF TasksTyped
  <2> QED BY <1>2, <1>3, <2>2, <2>3, SentTyped, PartsNext
<1>4. CASE /\ \E stable \in BOOLEAN : Down(g, IF stable THEN 0 ELSE backoff[g])
           /\ Queue(<<a, b>>) /\ Report(g, "probe", "Retrying")
           /\ sent' = [sent EXCEPT ![m] = "dropped"]
  <2>1. PICK d \in 0 .. MaxBackoff : Down(g, d)
    BY <1>1, <1>4, Bounds
  <2>2. TasksTyped' /\ pc' = [pc EXCEPT ![g] = "wait"]
    BY <1>1, <2>1, TakenTyped, DownTyped
  <2>3. /\ a \in Events /\ a.gen = g /\ a.of = "dropped"
        /\ b \in Events /\ b.gen = g /\ b.of = "probe" /\ b.val = "Retrying"
    BY <1>1 DEF Event, Events, Reports, Drops, ConnState
  <2>4. out' = out \o <<a, b>> /\ told' = IF g = gen THEN [told EXCEPT !["probe"] = "Retrying"] ELSE told
    BY <1>4 DEF Queue, Report
  <2> HIDE DEF a, b, m
  <2>5. out' = Append(Append(out, a), b) /\ Append(out, a) \in Seq(Events)
    BY <1>1, <2>3, <2>4, QueuedLast DEF Watched
  <2>6. told' = After(told, b, gen) /\ told = After(told, a, gen)
    BY <2>3, <2>4 DEF After, Conns
  <2>7. Catching' /\ told' \in HostView /\ out' \in Seq(Events)
    <3>1. told \in HostView /\ view \in HostView /\ out \in Seq(Events)
      BY <1>1 DEF Watched
    <3>2. told' \in HostView /\ out' \in Seq(Events)
      BY <3>1, <2>3, <2>5, <2>6, AfterEvent
    <3>3. ASSUME has PROVE CatchesUp(out', told', view, gen)
      <4>1. CatchesUp(out, told, view, gen)
        BY <1>1, <3>3 DEF Watched, Catching
      <4>2. CatchesUp(Append(out, a), told, view, gen)
        BY <3>1, <4>1, <2>3, <2>6, AppendCatches
      <4> QED BY <3>1, <4>2, <2>3, <2>5, <2>6, AppendCatches
    <3> QED BY <1>2, <3>2, <3>3 DEF Catching
  <2>8. NoneToCome'
    <3>1. g <= gen /\ \A h \in Gens : h > gen => pc'[h] = "none"
      <4>1. gen \in Nat
        BY Parts, Bounds DEF AppTyped
      <4>2. g <= gen
        BY <1>1, <4>1, Bounds DEF Watched, NoneToCome, Gens
      <4>3. \A h \in Gens : h > gen => h # g /\ pc[h] = "none"
        BY <1>1, <4>1, <4>2, Bounds DEF Watched, NoneToCome, Gens
      <4> QED BY <1>1, <2>2, <4>2, <4>3 DEF TasksTyped
    <3>2. \A i \in DOMAIN out' : (i \in DOMAIN out /\ out'[i] = out[i]) \/ out'[i] \in {a, b}
      BY <1>1, <2>5 DEF Watched
    <3>3. \A i \in DOMAIN out' : out'[i].gen <= gen
      BY <1>1, <2>3, <3>1, <3>2 DEF Watched, NoneToCome
    <3> QED BY <1>2, <3>1, <3>3 DEF NoneToCome
  <2>9. Watched'
    BY <1>1, <1>2, <2>7, <2>8 DEF Watched, MonitorKnows
  <2> QED BY <1>2, <1>4, <2>2, <2>9, SentTyped, PartsNext
<1> QED BY <1>3, <1>4 DEF SendDone

\* The terminal task reports.
LEMMA TermKeeps == ASSUME Inv, NEW g \in Gens, TermReports(g) PROVE Inv'
<1>1. PICK v \in TermStates : Emit(g, "term", v)
  BY DEF TermReports
<1>2. /\ pc[g] # "none" /\ Input /\ v \in ConnState \cup {"None"}
      /\ UNCHANGED <<has, gen, cmds, pc, backoff, stream, current, view, sent>>
  BY TermAssumption DEF TermReports, taskVars, monVars
<1>3. TasksTyped'
  BY <1>2, Parts DEF TasksTyped, SendingHasMessage
<1>4. Watched'
  BY <1>1, <1>2, EmitWatched DEF Conns
<1> QED BY <1>2, <1>3, <1>4, AppStays, PartsNext

-----------------------------------------------------------------------------
(* The monitor.                                                            *)

\* An event of the incarnation there is goes into the view, any other is
\* skipped.
LEMMA MonitorKeeps == ASSUME Inv, MonitorEvent PROVE Inv'
<1> DEFINE e == Head(out)
<1>1. TasksTyped /\ AppTyped /\ Watched /\ out # <<>> /\ out' = Tail(out)
  BY Parts DEF MonitorEvent
<1>2. e \in Events /\ out \in Seq(Events) /\ out' \in Seq(Events)
  BY <1>1 DEF Watched
<1>3. UNCHANGED <<has, gen, cmds, pc, backoff, stream, told, current, inputs>>
  BY DEF MonitorEvent, taskVars
<1>4. /\ view' = IF current = e.gen /\ e.of \in Conns THEN [view EXCEPT ![e.of] = e.val] ELSE view
      /\ \/ UNCHANGED sent
         \/ sent' = [sent EXCEPT ![e.val] = "reported"]
  BY <1>2 DEF MonitorEvent, ForCurrent, Events, Reports, Drops, Conns
<1> HIDE DEF e
<1>5. e.gen \in Nat \ {0}
  BY <1>2, Bounds DEF Events, Reports, Drops, Gens
<1>6. view' = IF has THEN After(view, e, gen) ELSE view
  BY <1>1, <1>4, <1>5 DEF Watched, MonitorKnows, After
<1>7. Catching' /\ view' \in HostView
  <2>1. view \in HostView /\ told \in HostView
    BY <1>1 DEF Watched
  <2>2. view' \in HostView
    BY <1>2, <1>6, <2>1, AfterEvent
  <2>3. ASSUME has PROVE CatchesUp(out', told, view', gen)
    <3>1. CatchesUp(out, told, view, gen)
      BY <1>1, <2>3 DEF Watched, Catching
    <3>2. CatchesUp(Tail(out), told, After(view, Head(out), gen), gen)
      BY <1>1, <1>2, <2>1, <3>1, TailCatches
    <3> QED BY <1>1, <1>6, <2>3, <3>2 DEF e
  <2> QED BY <1>3, <2>2, <2>3 DEF Catching
<1>8. NoneToCome'
  <2>1. \A i \in DOMAIN out' : i + 1 \in DOMAIN out /\ out'[i] = out[i + 1]
    BY <1>1, <1>2
  <2>2. \A i \in DOMAIN out' : out'[i].gen <= gen
    BY <1>1, <2>1 DEF Watched, NoneToCome
  <2>3. \A g \in Gens : g > gen => pc[g] = "none"
    BY <1>1 DEF Watched, NoneToCome
  <2> QED BY <1>3, <2>2, <2>3 DEF NoneToCome
<1>9. Watched'
  BY <1>1, <1>2, <1>3, <1>6, <1>7, <1>8 DEF Watched, MonitorKnows
<1>10. TasksTyped'
  BY <1>1, <1>3 DEF TasksTyped, SendingHasMessage
<1>11. AppTyped'
  BY <1>1, <1>3, <1>4 DEF AppTyped
<1> QED BY <1>9, <1>10, <1>11, PartsNext

\* The invariant is kept by every step.
LEMMA Step == Inv /\ [Next]_vars => Inv'
<1> SUFFICES ASSUME Inv, [Next]_vars PROVE Inv'
  OBVIOUS
<1>1. CASE UNCHANGED vars
  <2>1. UNCHANGED <<has, gen, cmds, pc, backoff, stream, told, out, current, view, sent, inputs>>
    BY <1>1 DEF vars, taskVars, monVars
  <2>2. TasksTyped' /\ AppTyped' /\ Watched'
    BY <2>1, Parts DEF TasksTyped, SendingHasMessage, AppTyped, Watched, NoneToCome, MonitorKnows, Catching
  <2> QED BY <2>2, PartsNext
<1>2. CASE App
  BY <1>2, AddKeeps, RemoveKeeps, CommandKeeps DEF App
<1>3. CASE MonitorEvent
  BY <1>3, MonitorKeeps
<1>4. ASSUME NEW g \in Gens, Runs(g) \/ Command(g) \/ LinkBreaks(g) \/ TermReports(g)
      PROVE  Inv'
  <2>1. CASE Runs(g)
    BY <2>1, StartKeeps, OpenKeeps, HelloKeeps, LinkKeeps, SendDoneKeeps DEF Runs
  <2>2. CASE Command(g)
    BY <2>2, StopKeeps, RetryKeeps, SendKeeps DEF Command
  <2> QED BY <1>4, <2>1, <2>2, LinkKeeps, TermKeeps
<1> QED BY <1>1, <1>2, <1>3, <1>4 DEF Next

-----------------------------------------------------------------------------
\* Every part of the state has its type; in particular a task has a stream
\* only while it talks to the probe (Host::run).
THEOREM TypeCorrect == Spec => []TypeOK
<1>1. Inv => TypeOK
  BY DEF Inv
<1> QED BY Initially, Step, <1>1, PTL DEF Spec

\* When nothing of the current incarnation waits, both connections in the
\* view are as they were told last.
LEMMA CaughtUp == Inv => ViewIsCurrent
<1> SUFFICES ASSUME Inv, Quiet PROVE view = IF has THEN told ELSE NoView
  BY DEF ViewIsCurrent
<1>1. Watched
  BY Parts
<1>2. CASE ~has
  BY <1>1, <1>2 DEF Watched, MonitorKnows
<1>3. CASE has
  <2>1. \A f \in Conns, i \in DOMAIN out : ~Says(out, i, f, gen)
    BY DEF Quiet, Says
  <2>2. \A f \in Conns : view[f] = told[f]
    BY <1>1, <1>3, <2>1 DEF Watched, Catching, CatchesUp, ElseInView
  <2> QED BY <1>1, <1>3, <2>2 DEF Watched, HostView, Conns
<1> QED BY <1>2, <1>3

\* However often the host is removed and added again, and however late the
\* tasks of an earlier incarnation report, the view comes to what the tasks
\* of the last one reported, and to nothing for a removed host (run_monitor).
THEOREM ViewCorrect == Spec => []ViewIsCurrent
<1> QED BY Initially, Step, CaughtUp, PTL DEF Spec

\* host_state tells apart what the design names: for every pair of states of
\* the two connections.
LEMMA StateMeaning ==
  ASSUME NEW t \in HostView, t.probe # "None"
  PROVE  LET shown == host_update(t)
             all == {c \in {"probe", "term"} : t[c] # "None"}
             up == {c \in all : t[c] = "Up"}
         IN  /\ shown = "Online" <=> up = all
             /\ shown = "Degraded" <=> up # {} /\ up # all
             /\ shown = "AuthRequired" <=> up = {} /\ \E c \in all : t[c] = "Auth"
<1> DEFINE p == t.probe
           q == t.term
           all == {c \in {"probe", "term"} : t[c] # "None"}
           up == {c \in all : t[c] = "Up"}
           conns == {p, q} \ {"None"}
<1>1. p \in ConnState /\ q \in ConnState \cup {"None"} /\ p = t["probe"] /\ q = t["term"]
  BY DEF HostView
<1>2. host_update(t) = host_state(p, q)
  BY <1>1 DEF host_update
<1>3. /\ up = all <=> conns = {"Up"}
      /\ up # {} <=> "Up" \in conns
      /\ (\E c \in all : t[c] = "Auth") <=> "Auth" \in conns
  <2>1. (all = {"probe"} /\ conns = {p}) \/ (all = {"probe", "term"} /\ conns = {p, q})
    <3>1. p # "None"
      BY <1>1 DEF ConnState
    <3>2. CASE q = "None"
      BY <1>1, <3>1, <3>2
    <3>3. CASE q # "None"
      BY <1>1, <3>1, <3>3
    <3> QED BY <3>2, <3>3
  <2>2. \A c : c \in up <=> c \in all /\ t[c] = "Up"
    OBVIOUS
  <2> HIDE DEF all, up, conns
  <2>3. up = all <=> \A c \in all : t[c] = "Up"
    BY <2>2
  <2>4. up # {} <=> \E c \in all : t[c] = "Up"
    BY <2>2
  <2>5. conns = {"Up"} <=> \A x \in conns : x = "Up"
    BY <2>1
  <2> QED BY <1>1, <2>1, <2>3, <2>4, <2>5
<1>4. /\ host_state(p, q) = "Online" <=> conns = {"Up"}
      /\ host_state(p, q) = "Degraded" <=> "Up" \in conns /\ conns # {"Up"}
      /\ host_state(p, q) = "AuthRequired" <=> "Up" \notin conns /\ "Auth" \in conns
  BY DEF host_state
<1> QED BY <1>2, <1>3, <1>4

\* Once the monitor has caught up, the state shown is what the design says of
\* the connections as they are (host_state, host_update).
THEOREM StateCorrect == Spec => []StateIsMeant
<1>1. Inv => StateIsMeant
  <2> SUFFICES ASSUME Inv, Quiet, has, told.probe # "None" PROVE StateIsMeant
    BY DEF StateIsMeant
  <2>1. view = told /\ told \in HostView
    BY CaughtUp, Parts DEF ViewIsCurrent, Watched
  <2> QED BY <2>1, StateMeaning DEF StateIsMeant
<1> QED BY Initially, Step, <1>1, PTL DEF Spec
=============================================================================
