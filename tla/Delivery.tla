------------------------------ MODULE Delivery ------------------------------
(***************************************************************************)
(* The way of a hook event from the agent to the monitor:                  *)
(*   - `mai-probe hook` stamps a record and appends it to the spool file   *)
(*     of its day (mai-probe/src/spool.rs, main.rs);                       *)
(*   - a `serve` process reads the spool from the last acknowledged cursor *)
(*     on and sends the events (serve.rs, run.rs);                         *)
(*   - the host task hands each event to the monitor and acknowledges it   *)
(*     (mai-core/src/host.rs); serve stores the acknowledged cursor;       *)
(*   - the monitor task drops events of removed hosts (manager.rs), and    *)
(*     the tracker drops what it has seen (tracker.rs).                    *)
(*                                                                         *)
(* Links break, serve processes die or outlive their link, hosts are       *)
(* removed and added again, midnight passes.  Every connection is a        *)
(* session of its own, with its own serve process.  What an event says     *)
(* is left out: a record is its pane and whether hookmap turns it into an  *)
(* event (an unparsable line is one that is not).                          *)
(***************************************************************************)
EXTENDS Cursor, Sequences

CONSTANTS
  Panes,
  KeepDays,     \* SPOOL_KEEP_DAYS
  MaxDay,       \* bound: days that pass
  MaxRecs,      \* bound: records hooks write
  MaxSess,      \* bound: connections (and serve processes) at a time
  MaxGen,       \* bound: times the host is added
  MaxFaults     \* bound: failures

ASSUME DeliveryAssumption ==
  /\ KeepDays \in Nat \ {0}
  /\ MaxDay \in Nat \ {0}
  /\ MaxRecs \in Nat /\ MaxSess \in Nat /\ MaxGen \in Nat /\ MaxFaults \in Nat

Days == 1 .. MaxDay
Sessions == 1 .. MaxSess
Gens == 1 .. MaxGen

VARIABLES
  \* The host.
  today,    \* day of the clock
  grace,    \* today began less than DAY_GRACE_MS ago
  stamps,   \* records stamped so far
  stamped,  \* records stamped and not yet appended
  files,    \* day -> lines of its file
  deleted,  \* days whose file was deleted (files keeps what it held)
  ack,      \* the cursor in the ack file
  \* Connections: the serve process and the host task's end of the link.
  probe,    \* session -> its serve process runs
  read,     \* session -> read_cursor
  inbox,    \* session -> events sent and not yet received, oldest first
  acks,     \* session -> acknowledgements sent and not yet handled
  app,      \* session -> the host task is reading from it
  owner,    \* session -> generation of its host task
  \* The app.
  task,     \* generation -> its host task
  current,  \* generation whose events the monitor accepts, 0 if there is none
  added,    \* HostManager::generation
  queue,    \* events on their way to the monitor: [at, gen]
  last,     \* pane -> last_hook_offset of its record in the tracker
  applied,  \* events the tracker took
  took,     \* how often it took one
  dropped,  \* events dropped because their host had been removed
  faults

hostVars == <<today, grace, stamps, stamped, files, deleted>>
sessVars == <<probe, read, inbox, acks, app, owner>>
appVars == <<task, current, added, queue, last, applied, took, dropped>>
vars == <<today, grace, stamps, stamped, files, deleted, ack, probe, read, inbox, acks, app,
          owner, task, current, added, queue, last, applied, took, dropped, faults>>

Record == [pane : Panes, reported : BOOLEAN]
Hook == [pane : Panes, reported : BOOLEAN, day : Days]

\* Every part of the state has its type; in particular records carry a day
\* that the probe's clock has reached (record_here).
TypeOK ==
  /\ today \in Days /\ grace \in BOOLEAN
  /\ stamps \in Nat
  /\ stamped \subseteq Hook
  /\ files \in [Days -> Seq(Record)]
  /\ deleted \subseteq Days
  /\ ack \in Cursor
  /\ probe \in [Sessions -> BOOLEAN] /\ app \in [Sessions -> BOOLEAN]
  /\ read \in [Sessions -> Cursor]
  /\ inbox \in [Sessions -> SUBSET Cursor] /\ acks \in [Sessions -> SUBSET Cursor]
  /\ owner \in [Sessions -> Gens \cup {0}]
  /\ task \in [Gens -> {"none", "on", "stopping", "off"}]
  /\ current \in Gens \cup {0}
  /\ added \in 0 .. MaxGen
  /\ queue \in Seq([at : Cursor, gen : Gens \cup {0}])
  /\ last \in [Panes -> Cursor]
  /\ took \in Nat
  /\ applied \subseteq Cursor /\ dropped \subseteq Cursor
  /\ faults \in 0 .. MaxFaults

GraceOver(day) == day < today \/ (day = today /\ ~grace)

\* Everything ever written to the spool, and the part that is reported.
Written == UNION {{make_cursor(d, k) : k \in 1 .. Len(files[d])} : d \in Days}
LineAt(c) == files[c.day][c.off]
Events == {c \in Written : LineAt(c).reported}

\* Links deliver in order, and what a serve sends is increasing.
IsOldest(c, S) == \A d \in S : AtMost(c, d)

Fault == faults < MaxFaults /\ faults' = faults + 1
-----------------------------------------------------------------------------
(* Hooks and time.                                                         *)

\* record_here: the record carries the time at which it was made.
Stamp(p, r) ==
  /\ stamps < MaxRecs
  /\ stamps' = stamps + 1
  /\ LET h == [pane |-> p, reported |-> r, day |-> today] IN
       h \notin stamped /\ stamped' = stamped \cup {h}
  /\ UNCHANGED <<today, grace, files, deleted, ack, sessVars, appVars, faults>>

\* Spool::append, one write per record, to the file of the record's day.
HookAppend(h) ==
  /\ stamped' = stamped \ {h}
  /\ files' = [files EXCEPT ![h.day] = Append(@, [pane |-> h.pane, reported |-> h.reported])]
  /\ UNCHANGED <<today, grace, stamps, deleted, ack, sessVars, appVars, faults>>

\* Time passes.  Hooks append what they stamped within DAY_GRACE_MS: when a
\* day's grace is over, nothing stamped the day before is still to come.
Clock ==
  /\ \/ /\ grace /\ \A h \in stamped : h.day = today
        /\ grace' = FALSE
        /\ UNCHANGED today
     \/ /\ ~grace /\ today < MaxDay
        /\ today' = today + 1
        /\ grace' = TRUE
  /\ UNCHANGED <<stamps, stamped, files, deleted, ack, sessVars, appVars, faults>>

-----------------------------------------------------------------------------
(* serve.                                                                  *)

\* Mutant: today's file is read as soon as it has lines.
ReadAfterNoGrace(c, del) ==
  {w \in Written : Before(c, w) /\ w.day \notin del}

\* Spool::read_after, with the files of days `del` deleted: every line after
\* c, but a later day's file is left alone until its grace is over.
ReadAfter(c, del) ==
  {w \in Written : /\ Before(c, w)
                   /\ w.day \notin del
                   /\ w.day > c.day => GraceOver(w.day)}

\* Spool::cleanup.
Expired == {d \in Days : d + KeepDays < today}

\* Server::tick: old files are deleted when that is due, then drain_spool
\* sends the events among the lines that are new.
Tick(s) ==
  /\ probe[s] /\ app[s]
  /\ deleted' \in {deleted, deleted \cup Expired}
  /\ LET new == ReadAfter(read[s], deleted') IN
       /\ \E end \in new \cup {read[s]} : /\ \A c \in new : AtMost(c, end)
                                       /\ read' = [read EXCEPT ![s] = end]
       /\ inbox' = [inbox EXCEPT ![s] = @ \cup (new \cap Events)]
  /\ UNCHANGED <<today, grace, stamps, stamped, files, ack, probe, acks, app, owner, appVars,
                 faults>>

\* Server::handle of an Ack: store_ack, which may fail.  A serve process whose
\* link is gone still handles the lines it has received.
StoreAck(s) ==
  /\ probe[s]
  /\ \E a \in acks[s] : /\ IsOldest(a, acks[s])
                       /\ acks' = [acks EXCEPT ![s] = @ \ {a}]
                       /\ ack' \in {a, ack}
  /\ UNCHANGED <<hostVars, probe, read, inbox, app, owner, appVars, faults>>

\* serve ends because its input or output closed, or it is killed.
ServeEnds(s) ==
  /\ probe[s]
  /\ IF app[s] THEN Fault ELSE UNCHANGED faults
  /\ probe' = [probe EXCEPT ![s] = FALSE]
  /\ acks' = [acks EXCEPT ![s] = {}]
  /\ UNCHANGED <<hostVars, ack, read, inbox, app, owner, appVars>>

-----------------------------------------------------------------------------
(* The host task.                                                          *)

\* The host task stops reading from sessions S.
HangUp(S) ==
  /\ app' = [s \in Sessions |-> app[s] /\ s \notin S]
  /\ owner' = [s \in Sessions |-> IF s \in S THEN 0 ELSE owner[s]]
  /\ read' = [s \in Sessions |-> IF s \in S THEN Origin ELSE read[s]]
  /\ inbox' = [s \in Sessions |-> IF s \in S THEN {} ELSE inbox[s]]

First(s, S) == s \in S /\ \A t \in S : s <= t

\* Mutant: a new serve starts at the end of the spool.
ConnectAtEnd(g, s) ==
  /\ task[g] = "on"
  /\ \A t \in Sessions : owner[t] # g
  /\ First(s, {t \in Sessions : ~app[t]})
  /\ probe' = [t \in Sessions |-> t = s]
  /\ acks' = [t \in Sessions |-> {}]
  /\ app' = [app EXCEPT ![s] = TRUE]
  /\ owner' = [owner EXCEPT ![s] = g]
  /\ \E end \in Written \cup {ack} : /\ \A w \in Written : AtMost(w, end)
                                   /\ read' = [read EXCEPT ![s] = end]
  /\ UNCHANGED <<hostVars, ack, inbox, appVars, faults>>

\* Connector::open and the hello: a new serve, which stops the one recorded
\* before it (stop_recorded; it may outlive that) and starts after the ack.
Connect(g, s) ==
  /\ task[g] = "on"
  /\ \A t \in Sessions : owner[t] # g
  /\ \/ /\ First(s, {t \in Sessions : ~app[t]})
        /\ probe' = [t \in Sessions |-> t = s]
        /\ acks' = [t \in Sessions |-> {}]
        /\ UNCHANGED faults
     \/ /\ First(s, {t \in Sessions : ~app[t] /\ ~probe[t]})
        /\ Fault
        /\ probe' = [probe EXCEPT ![s] = TRUE]
        /\ UNCHANGED acks
  /\ app' = [app EXCEPT ![s] = TRUE]
  /\ owner' = [owner EXCEPT ![s] = g]
  /\ read' = [read EXCEPT ![s] = ack]
  /\ UNCHANGED <<hostVars, ack, inbox, appVars>>

\* Host::serve receives an event: it goes to the monitor first, then the
\* acknowledgement is sent; if that fails the link is given up.
HostRecv(s) ==
  /\ app[s]
  /\ \E m \in inbox[s] :
       /\ IsOldest(m, inbox[s])
       /\ queue' = Append(queue, [at |-> m, gen |-> owner[s]])
       /\ \/ /\ inbox' = [inbox EXCEPT ![s] = @ \ {m}]
             /\ acks' = IF probe[s] THEN [acks EXCEPT ![s] = @ \cup {m}] ELSE acks
             /\ UNCHANGED <<app, owner, read, faults>>
          \/ Fault /\ HangUp({s}) /\ UNCHANGED acks
  /\ UNCHANGED <<hostVars, ack, probe, task, current, added, last, applied,
                 took, dropped>>

\* The link fails, or the other end was closed and everything was read.
LinkLost(s) ==
  /\ app[s]
  /\ IF ~probe[s] /\ inbox[s] = {} THEN UNCHANGED faults ELSE Fault
  /\ HangUp({s})
  /\ UNCHANGED <<hostVars, ack, probe, acks, appVars>>

\* The host task gets round to HostCommand::Stop.
TaskStops(g) ==
  /\ task[g] = "stopping"
  /\ task' = [task EXCEPT ![g] = "off"]
  /\ HangUp({s \in Sessions : owner[s] = g})
  /\ UNCHANGED <<hostVars, ack, probe, acks, current, added, queue, last,
                 applied, took, dropped, faults>>

-----------------------------------------------------------------------------
(* The manager and the monitor.  Control messages overtake the events      *)
(* (run_monitor's select is biased), so they are applied at once.          *)

AddHost ==
  /\ current = 0
  /\ added < MaxGen
  /\ added' = added + 1
  /\ current' = added'
  /\ task' = [task EXCEPT ![added'] = "on"]
  /\ UNCHANGED <<hostVars, ack, sessVars, queue, last, applied, took, dropped, faults>>

RemoveHost ==
  /\ current # 0
  /\ current' = 0
  /\ task' = [task EXCEPT ![current] = "stopping"]
  /\ UNCHANGED <<hostVars, ack, sessVars, added, queue, last, applied, took, dropped,
                 faults>>

\* Mutant: the tracker takes what a new connection replays once more.
SeenNever(c) == FALSE

\* Tracker::apply takes a hook event only if its offset is new.
Seen(c) == AtMost(c, last[LineAt(c).pane])

\* run_monitor drops events of other generations than the current one.
MonitorApply ==
  /\ queue # <<>>
  /\ queue' = Tail(queue)
  /\ LET e == Head(queue) IN
     \/ /\ e.gen # current
        /\ dropped' = dropped \cup {e.at}
        /\ UNCHANGED <<last, applied, took>>
     \/ e.gen = current /\ Seen(e.at) /\ UNCHANGED <<last, applied, took, dropped>>
     \/ /\ e.gen = current /\ ~Seen(e.at)
        /\ last' = [last EXCEPT ![LineAt(e.at).pane] = e.at]
        /\ applied' = applied \cup {e.at}
        /\ took' = took + 1
        /\ UNCHANGED dropped
  /\ UNCHANGED <<hostVars, ack, sessVars, task, current, added, faults>>

-----------------------------------------------------------------------------
Init ==
  /\ today = 1 /\ grace = FALSE /\ stamps = 0 /\ stamped = {}
  /\ files = [d \in Days |-> <<>>]
  /\ deleted = {}
  /\ ack = Origin
  /\ probe = [s \in Sessions |-> FALSE] /\ app = [s \in Sessions |-> FALSE]
  /\ read = [s \in Sessions |-> Origin]
  /\ inbox = [s \in Sessions |-> {}] /\ acks = [s \in Sessions |-> {}]
  /\ owner = [s \in Sessions |-> 0]
  /\ task = [g \in Gens |-> "none"]
  /\ current = 0 /\ added = 0
  /\ queue = <<>>
  /\ last = [p \in Panes |-> Origin]
  /\ applied = {} /\ took = 0 /\ dropped = {}
  /\ faults = 0

Session(s) ==
  Tick(s) \/ StoreAck(s) \/ ServeEnds(s) \/ HostRecv(s) \/ LinkLost(s)

Next ==
  \/ \E p \in Panes, r \in BOOLEAN : Stamp(p, r)
  \/ \E h \in stamped : HookAppend(h)
  \/ Clock
  \/ \E s \in Sessions : Session(s)
  \/ \E g \in Gens : TaskStops(g) \/ \E s \in Sessions : Connect(g, s)
  \/ AddHost \/ RemoveHost \/ MonitorApply

Spec == Init /\ [][Next]_vars

\* Hooks run to their end, time passes, serve and the tasks are scheduled,
\* and a host task keeps reconnecting.
Fairness ==
  /\ WF_vars(\E h \in stamped : HookAppend(h)) /\ WF_vars(Clock)
  /\ WF_vars(MonitorApply)
  /\ \A g \in Gens : WF_vars(\E s \in Sessions : Connect(g, s)) /\ WF_vars(TaskStops(g))
  /\ \A s \in Sessions :
       /\ WF_vars(Tick(s)) /\ WF_vars(HostRecv(s)) /\ WF_vars(~app[s] /\ ServeEnds(s))
       /\ WF_vars(app[s] /\ ~probe[s] /\ inbox[s] = {} /\ LinkLost(s))

FairSpec == Spec /\ Fairness

-----------------------------------------------------------------------------
(* Properties.                                                             *)

Queued == {queue[k].at : k \in DOMAIN queue}

\* Events whose file was deleted before they were read.
TooOld == {c \in Events : c.day \in deleted}

\* An acknowledged event has reached the monitor: whatever breaks, no event
\* at or before the cursor in the ack file (from where the next serve starts
\* to read) is still on its way, or still to be written.
AckedIsHanded ==
  \A c \in Events : AtMost(c, ack) => c \in applied \cup dropped \cup Queued \cup TooOld

Tagged(S) == {[at |-> c, pane |-> LineAt(c).pane] : c \in S}

Feed == INSTANCE EventFeed
  WITH written <- Tagged(Events), taken <- Tagged(applied), times <- took,
       lost <- Tagged(dropped \cup TooOld)

\* The monitor takes the events of every pane once and in order (EventFeed).
OnceInOrder == Feed!Spec

\* Every event reaches the tracker, while the host stays added and the file
\* is not deleted first.
EventsArrive ==
  \A d \in Days, k \in 1 .. MaxRecs :
    make_cursor(d, k) \in Events
      ~> \/ make_cursor(d, k) \in applied \cup dropped
         \/ d \in deleted \/ current = 0

\* The inductive strengthening.  A cursor is past if the lines up to it are
\* complete: whatever is still to be written comes after it.
Past(c) ==
  c.day = 0 \/ (c.day \in Days /\ GraceOver(c.day) /\ c.off <= Len(files[c.day]))

\* What hooks have stamped is stamped today, or yesterday within the grace,
\* and no such day's file is deleted.
Stamps ==
  /\ \A h \in stamped : h.day = today \/ (h.day + 1 = today /\ grace)
  /\ \A d \in deleted : d + KeepDays < today

\* Gone events need no delivery; covered cursors have only handed or gone
\* events up to them.
Gone == applied \cup dropped \cup TooOld
Covered(q) == \A c \in Events : AtMost(c, q) => c \in Gone \cup Queued

Links ==
  /\ Past(ack) /\ Covered(ack)
  /\ \A s \in Sessions :
       /\ \A a \in acks[s] : a \in Events /\ Past(a) /\ Covered(a)
       /\ Past(read[s])
       /\ \A c \in Events : app[s] /\ AtMost(c, read[s]) => c \in Gone \cup Queued \cup inbox[s]
       /\ \A c \in inbox[s] : app[s] /\ c \in Events /\ AtMost(c, read[s])

\* Up to every place in the queue, and to what the tracker saw last of a
\* pane, no event is missing.
Order ==
  /\ \A k \in DOMAIN queue :
       /\ queue[k].at \in Events /\ Past(queue[k].at)
       /\ \A c \in Events : AtMost(c, queue[k].at)
            => c \in Gone \/ \E j \in 1 .. k : queue[j].at = c
  /\ \A p \in Panes : Past(last[p])
  /\ \A c \in Events : AtMost(c, last[LineAt(c).pane]) => c \in Gone
  /\ \A c \in applied : c \in Events /\ AtMost(c, last[LineAt(c).pane])
  /\ dropped \subseteq Events

IInv == TypeOK /\ Stamps /\ Links /\ Order
=============================================================================
