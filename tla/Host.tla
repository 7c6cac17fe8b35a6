-------------------------------- MODULE Host --------------------------------
(***************************************************************************)
(* One host as the app sees it: the task that keeps its probe connection   *)
(* (crates/mai-core/src/host.rs, link.rs), HostManager's commands, and the *)
(* monitor task that turns the reports of both of the host's tasks into    *)
(* the state that is shown (manager.rs, monitor.rs).  The host may be      *)
(* removed and added again with the same id; the tasks of the earlier      *)
(* incarnation then run on until they get to Stop.                         *)
(*                                                                         *)
(* Opening a connection is Deploy, the messages of a connection are        *)
(* Delivery's, and the terminal task (Terms) only reports here.  The       *)
(* forwarders that tag events with their generation are prompt: a late one *)
(* only reorders events of different incarnations.                         *)
(***************************************************************************)
EXTENDS Naturals, Sequences, SequencesExt

CONSTANTS
  Msgs,         \* messages the app sends to the probe (AppMsg), each once
  TermStates,   \* bound: the reports of the terminal tasks that are considered
  MaxGens,      \* bound: how often the host is added
  MaxBackoff,   \* doublings of the delay until it is at its maximum
  MaxInputs,    \* bound: attempts that fail, links that break and reports of the
                \* terminal tasks
  MaxQueue      \* bound: events that wait for the monitor

ASSUME HostAssumption ==
  /\ Msgs \cap {"Retry", "Stop"} = {}
  /\ {MaxGens, MaxBackoff, MaxInputs, MaxQueue} \subseteq Nat

Gens == 1 .. MaxGens

\* ConnState; NeedsUser is Auth for a problem of authentication or of the
\* host key (needs_auth), User for any other.
ConnState == {"Connecting", "Up", "Retrying", "Auth", "User"}

\* HostView, as far as the host's tasks write it.
HostView == [probe : ConnState \cup {"None"}, term : ConnState \cup {"None"}]
NoView == [probe |-> "None", term |-> "None"]

ASSUME TermAssumption == TermStates \subseteq ConnState \cup {"None"}

VARIABLES
  has, gen,     \* HostManager: whether the host is there; generation
  cmds,         \* commands to each incarnation's probe task
  pc,           \* where each probe task waits
  backoff,      \* its Backoff
  stream,       \* what its link would find: the stream is good, closed or silent
  told,         \* what the tasks of the host as added last have reported last
  out,          \* events that the monitor has not taken yet, with their generation
  current,      \* run_monitor's current generation, 0 if none
  view,         \* the monitor's HostView; the UI is told of every change
  sent,         \* what has become of each message
  inputs        \* how many of MaxInputs there were

taskVars == <<pc, backoff, stream>>
monVars == <<current, view>>
vars == <<has, gen, cmds, taskVars, told, out, monVars, sent, inputs>>

Idle == {"open", "hello", "wait", "user", "protocol"}   \* answers by idle_command
Waits == {"wait", "user", "protocol"}

\* Every part of the state has its type; in particular a task has a link only
\* while it talks to the probe.
TypeOK ==
  /\ has \in BOOLEAN
  /\ gen \in 0 .. MaxGens
  /\ cmds \in [Gens -> Seq(Msgs \cup {"Retry", "Stop"})]
  /\ pc \in [Gens -> {"none", "start", "up", "sending", "stopped"} \cup Idle]
  /\ backoff \in [Gens -> 0 .. MaxBackoff]
  /\ stream \in [Gens -> {"good", "closed", "silent"}]
  /\ \A g \in Gens : stream[g] # "closed" => pc[g] \in {"hello", "up", "sending"}
  /\ told \in HostView
  /\ out \in Seq([gen : Gens, of : {"probe", "term"}, val : ConnState \cup {"None"}]
                  \cup [gen : Gens, of : {"dropped"}, val : Msgs])
  /\ current \in 0 .. MaxGens
  /\ view \in HostView
  /\ sent \in [Msgs -> {"unsent", "refused", "queued", "written", "dropped", "reported"}]
  /\ inputs \in 0 .. MaxInputs

-----------------------------------------------------------------------------
(* Pure parts.                                                             *)

\* Mutant: a host whose terminal connection is down counts as online.
host_state_probe(probe, term) ==
  IF probe = "Up" THEN "Online"
  ELSE IF term = "Up" THEN "Degraded"
  ELSE IF "Auth" \in {probe, term} THEN "AuthRequired"
  ELSE IF "Connecting" \in {probe, term} THEN "Connecting"
  ELSE "Offline"

\* The state of the host from its connections (term is None until a terminal
\* is open).
host_state(probe, term) ==
  LET conns == {probe, term} \ {"None"} IN
    IF conns = {"Up"} THEN "Online"
    ELSE IF "Up" \in conns THEN "Degraded"
    ELSE IF "Auth" \in conns THEN "AuthRequired"
    ELSE IF "Connecting" \in conns THEN "Connecting"
    ELSE "Offline"

\* A connection that was not reported yet counts as connecting.
host_update(v) == host_state(IF v.probe = "None" THEN "Connecting" ELSE v.probe, v.term)

\* Backoff::next_delay: the delay doubles until it reaches its maximum.
NextDelay(b) == IF b < MaxBackoff THEN b + 1 ELSE b

Input == inputs < MaxInputs /\ inputs' = inputs + 1

\* Host::emit: incarnation g reports.
Event(g, f, v) == [gen |-> g, of |-> f, val |-> v]
Report(g, f, v) == told' = IF g = gen THEN [told EXCEPT ![f] = v] ELSE told
Queue(es) == Len(out \o es) <= MaxQueue /\ out' = out \o es
Emit(g, f, v) == Queue(<<Event(g, f, v)>>) /\ Report(g, f, v)

Goto(g, p) == pc' = [pc EXCEPT ![g] = p]

-----------------------------------------------------------------------------
(* HostManager.  The monitor task takes control messages (Added, Removed)   *)
(* before any event (biased), so it has taken them by the time it looks at  *)
(* the next event: they are part of the actions that send them.             *)

AddHost ==
  /\ ~has /\ gen < MaxGens
  /\ has' = TRUE /\ gen' = gen + 1
  /\ current' = gen + 1
  /\ Goto(gen + 1, "start")
  /\ told' = NoView
  /\ UNCHANGED <<cmds, backoff, stream, out, view, sent, inputs>>

RemoveHost ==
  /\ has
  /\ has' = FALSE
  /\ cmds' = [cmds EXCEPT ![gen] = Append(@, "Stop")]
  /\ current' = 0 /\ view' = NoView
  /\ UNCHANGED <<gen, taskVars, told, out, sent, inputs>>

\* Bound: at most one Retry waits.
Retry ==
  /\ has /\ "Retry" \notin ToSet(cmds[gen])
  /\ cmds' = [cmds EXCEPT ![gen] = Append(@, "Retry")]
  /\ UNCHANGED <<has, gen, taskVars, told, out, monVars, sent, inputs>>

Send(m) ==
  /\ sent[m] = "unsent"
  /\ IF has
       THEN /\ cmds' = [cmds EXCEPT ![gen] = Append(@, m)]
            /\ sent' = [sent EXCEPT ![m] = "queued"]
       ELSE /\ sent' = [sent EXCEPT ![m] = "refused"]
            /\ UNCHANGED cmds
  /\ UNCHANGED <<has, gen, taskVars, told, out, monVars, inputs>>

-----------------------------------------------------------------------------
(* Host::run.                                                              *)

\* The head of the loop: an attempt starts.
Connect(g) == Goto(g, "open") /\ Emit(g, "probe", "Connecting")

\* An attempt or a link has failed: next_delay, and a wait.  The link is
\* dropped.
Down(g, b) ==
  /\ Goto(g, "wait")
  /\ backoff' = [backoff EXCEPT ![g] = NextDelay(b)]
  /\ stream' = [stream EXCEPT ![g] = "closed"]

Start(g) ==
  /\ pc[g] = "start"
  /\ Connect(g)
  /\ UNCHANGED <<has, gen, cmds, backoff, stream, monVars, sent, inputs>>

\* Connector::open is done.
OpenOk(g) ==
  /\ pc[g] = "open"
  /\ Goto(g, "hello")
  /\ stream' = [stream EXCEPT ![g] = "good"]
  /\ UNCHANGED <<has, gen, cmds, backoff, told, out, monVars, sent, inputs>>

OpenFails(g) ==
  /\ pc[g] = "open"
  /\ Input
  /\ \/ Down(g, backoff[g]) /\ Emit(g, "probe", "Retrying")
     \/ /\ \E p \in {"Auth", "User"} : Emit(g, "probe", p)
        /\ Goto(g, "user")
        /\ UNCHANGED <<backoff, stream>>
  /\ UNCHANGED <<has, gen, cmds, monVars, sent>>

\* ProbeLink::hello is done: the probe is up.
HelloOk(g) ==
  /\ pc[g] = "hello" /\ stream[g] = "good"
  /\ Emit(g, "probe", "Up")
  /\ Goto(g, "up")
  /\ UNCHANGED <<has, gen, cmds, backoff, stream, monVars, sent, inputs>>

\* Another protocol version, or a stream that ends, is silent or says
\* something else.
HelloFails(g) ==
  /\ pc[g] = "hello"
  /\ \/ /\ stream[g] = "good" /\ Input
        /\ Goto(g, "protocol")
        /\ Emit(g, "probe", "User")
        /\ stream' = [stream EXCEPT ![g] = "closed"]
        /\ UNCHANGED backoff
     \/ /\ IF stream[g] = "good" THEN Input ELSE UNCHANGED inputs
        /\ Down(g, backoff[g])
        /\ Emit(g, "probe", "Retrying")
  /\ UNCHANGED <<has, gen, cmds, monVars, sent>>

\* Mutant: only a stream that ends is noticed.
LinkFailsClosed(g) ==
  /\ pc[g] = "up" /\ stream[g] = "closed"
  /\ \E stable \in BOOLEAN : Down(g, IF stable THEN 0 ELSE backoff[g])
  /\ Emit(g, "probe", "Retrying")
  /\ UNCHANGED <<has, gen, cmds, monVars, sent, inputs>>

\* recv (or the acknowledgement after it) fails: the stream ended, or nothing
\* came for SILENCE_TIMEOUT.  A probe that was up for STABLE_AFTER resets the
\* backoff.
LinkFails(g) ==
  /\ pc[g] = "up" /\ stream[g] # "good"
  /\ \E stable \in BOOLEAN : Down(g, IF stable THEN 0 ELSE backoff[g])
  /\ Emit(g, "probe", "Retrying")
  /\ UNCHANGED <<has, gen, cmds, monVars, sent, inputs>>

\* The delay is over.
WaitOver(g) ==
  /\ pc[g] = "wait"
  /\ Connect(g)
  /\ UNCHANGED <<has, gen, cmds, backoff, stream, monVars, sent, inputs>>

-----------------------------------------------------------------------------
(* Commands, which are taken in every wait.                                *)

Next1(g, c) == cmds[g] # <<>> /\ Head(cmds[g]) = c
Taken(g) == cmds' = [cmds EXCEPT ![g] = Tail(@)]

\* Mutant: a task that is up goes on.
CmdStopIdle(g) ==
  /\ pc[g] \in Idle /\ Next1(g, "Stop")
  /\ Taken(g)
  /\ Goto(g, "stopped")
  /\ stream' = [stream EXCEPT ![g] = "closed"] /\ backoff' = [backoff EXCEPT ![g] = 0]
  /\ UNCHANGED <<has, gen, told, out, monVars, sent, inputs>>

CmdStop(g) ==
  /\ pc[g] \in Idle \cup {"up"} /\ Next1(g, "Stop")
  /\ Taken(g)
  /\ Goto(g, "stopped")
  /\ stream' = [stream EXCEPT ![g] = "closed"] /\ backoff' = [backoff EXCEPT ![g] = 0]
  /\ UNCHANGED <<has, gen, told, out, monVars, sent, inputs>>

\* Mutant: only a delay is cut short.
CmdRetryDelay(g) ==
  /\ pc[g] \in Idle \cup {"up"} /\ Next1(g, "Retry")
  /\ Taken(g)
  /\ IF pc[g] = "wait" THEN Connect(g) ELSE UNCHANGED <<pc, told, out>>
  /\ UNCHANGED <<has, gen, backoff, stream, monVars, sent, inputs>>

\* Retry ends a wait, and is ignored during an attempt and by a link that is
\* up; it resets the backoff only after an attempt that needed the user.
CmdRetry(g) ==
  /\ pc[g] \in Idle \cup {"up"} /\ Next1(g, "Retry")
  /\ Taken(g)
  /\ IF pc[g] \in Waits THEN Connect(g) ELSE UNCHANGED <<pc, told, out>>
  /\ backoff' = IF pc[g] = "user" THEN [backoff EXCEPT ![g] = 0] ELSE backoff
  /\ UNCHANGED <<has, gen, stream, monVars, sent, inputs>>

\* Mutant: a message that comes while no probe runs is forgotten.
CmdSendMute(g) ==
  /\ \E m \in Msgs : Next1(g, m)
  /\ \/ pc[g] \in Idle /\ Taken(g) /\ UNCHANGED <<pc, told, out, sent>>
     \/ pc[g] = "up" /\ Goto(g, "sending") /\ UNCHANGED <<cmds, told, out, sent>>
  /\ UNCHANGED <<has, gen, backoff, stream, monVars, inputs>>

\* A message is dropped while no probe runs, else written, during which the
\* task does nothing else.
CmdSend(g) ==
  /\ \E m \in Msgs :
       /\ Next1(g, m)
       /\ \/ /\ pc[g] \in Idle
             /\ Taken(g)
             /\ Queue(<<Event(g, "dropped", m)>>)
             /\ sent' = [sent EXCEPT ![m] = "dropped"]
             /\ UNCHANGED <<pc, told>>
          \/ /\ pc[g] = "up"
             /\ Goto(g, "sending")
             /\ UNCHANGED <<cmds, told, out, sent>>
  /\ UNCHANGED <<has, gen, backoff, stream, monVars, inputs>>

\* ProbeLink::send is done.  A stream nobody reads may still take the message.
SendDone(g) ==
  /\ pc[g] = "sending"
  /\ Taken(g)
  /\ LET m == Head(cmds[g]) IN
       \/ /\ sent' = [sent EXCEPT ![m] = "written"]
          /\ Goto(g, "up")
          /\ UNCHANGED <<backoff, stream, told, out>>
       \/ /\ stream[g] # "good"
          /\ \E stable \in BOOLEAN : Down(g, IF stable THEN 0 ELSE backoff[g])
          /\ Queue(<<Event(g, "dropped", m), Event(g, "probe", "Retrying")>>)
          /\ Report(g, "probe", "Retrying")
          /\ sent' = [sent EXCEPT ![m] = "dropped"]
  /\ UNCHANGED <<has, gen, monVars, inputs>>

-----------------------------------------------------------------------------
(* run_monitor, and Monitor::apply for the events of the host itself.      *)

\* Mutant: events are not filtered by generation.
ForCurrentAny(g) == TRUE

\* Events of a removed host, or of an earlier incarnation, are skipped.
ForCurrent(g) == current = g

MonitorEvent ==
  /\ out # <<>>
  /\ out' = Tail(out)
  /\ LET e == Head(out) IN
       \/ ~ForCurrent(e.gen) /\ UNCHANGED <<view, sent>>
       \/ /\ ForCurrent(e.gen) /\ e.of = "dropped"
          /\ sent' = [sent EXCEPT ![e.val] = "reported"]
          /\ UNCHANGED view
       \/ /\ ForCurrent(e.gen) /\ e.of # "dropped"
          /\ view' = [view EXCEPT ![e.of] = e.val]
          /\ UNCHANGED sent
  /\ UNCHANGED <<has, gen, cmds, taskVars, told, current, inputs>>

-----------------------------------------------------------------------------
(* The environment.                                                        *)

\* The probe ends, the connection breaks, or nothing gets through any more.
LinkBreaks(g) ==
  /\ pc[g] \in {"hello", "up", "sending"} /\ stream[g] = "good"
  /\ Input
  /\ \E s \in {"closed", "silent"} : stream' = [stream EXCEPT ![g] = s]
  /\ UNCHANGED <<has, gen, cmds, pc, backoff, told, out, monVars, sent>>

\* The terminal task reports a state of its connection.
TermReports(g) ==
  /\ pc[g] # "none"
  /\ Input
  /\ \E s \in TermStates : Emit(g, "term", s)
  /\ UNCHANGED <<has, gen, cmds, taskVars, monVars, sent>>

-----------------------------------------------------------------------------
Init ==
  /\ has = FALSE /\ gen = 0
  /\ cmds = [g \in Gens |-> <<>>]
  /\ pc = [g \in Gens |-> "none"]
  /\ backoff = [g \in Gens |-> 0]
  /\ stream = [g \in Gens |-> "closed"]
  /\ told = NoView
  /\ out = <<>>
  /\ current = 0 /\ view = NoView
  /\ sent = [m \in Msgs |-> "unsent"]
  /\ inputs = 0

\* What Host::run does by itself, and what it does on a command.
Runs(g) ==
  \/ Start(g) \/ OpenOk(g) \/ OpenFails(g) \/ HelloOk(g) \/ HelloFails(g)
  \/ LinkFails(g) \/ WaitOver(g) \/ SendDone(g)
Command(g) == CmdStop(g) \/ CmdRetry(g) \/ CmdSend(g)

App == AddHost \/ RemoveHost \/ Retry \/ \E m \in Msgs : Send(m)

Next ==
  \/ App
  \/ MonitorEvent
  \/ \E g \in Gens : Runs(g) \/ Command(g) \/ LinkBreaks(g) \/ TermReports(g)

Spec == Init /\ [][Next]_vars

\* Attempts, writes and timers end (each has a timeout, or SSH's keepalive),
\* a task that can take a command gets to it, and the monitor task to every
\* event.
FairSpec ==
  /\ Spec
  /\ WF_vars(MonitorEvent)
  /\ \A g \in Gens : WF_vars(Runs(g)) /\ WF_vars(Command(g))

-----------------------------------------------------------------------------
(* Properties.                                                             *)

Quiet == \A i \in DOMAIN out : out[i].gen # gen

\* Once the monitor has taken what the current incarnation reported, the view
\* of the host is what its tasks reported last, whatever an earlier
\* incarnation still says; and nothing is known of a host that was removed
\* (run_monitor, Monitor::apply).
ViewIsCurrent == Quiet => view = IF has THEN told ELSE NoView

\* And the state shown then means what the design says (3.4): Online if every
\* connection there is is up, Degraded if one of two is, AuthRequired only if
\* none is and the user has to authenticate (host_state, host_update).
StateIsMeant ==
  Quiet /\ has /\ told.probe # "None" =>
    LET shown == host_update(view)
        all == {c \in {"probe", "term"} : told[c] # "None"}
        up == {c \in all : told[c] = "Up"}
    IN  /\ shown = "Online" <=> up = all
        /\ shown = "Degraded" <=> up # {} /\ up # all
        /\ shown = "AuthRequired" <=> up = {} /\ \E c \in all : told[c] = "Auth"

\* Every message to a host that is not removed is written to the probe or
\* reported as dropped, whatever state its task is in when the message
\* arrives (HostManager::send, Host::serve, idle_command).
SendsSettled ==
  \A m \in Msgs : (has /\ m \in ToSet(cmds[gen])) ~> (sent[m] \in {"written", "reported"} \/ ~has)

\* Unless the user is needed, the probe connection always comes back, also
\* from a stream that is silent but not closed (Host::run, next_line).
HostComesBack ==
  []<>(~has \/ pc[gen] \in {"user", "protocol"} \/ (pc[gen] = "up" /\ stream[gen] = "good"))

\* A user's Retry ends the wait for the user (HostManager::retry).
RetryHeard ==
  \A g \in Gens : (pc[g] \in {"user", "protocol"} /\ "Retry" \in ToSet(cmds[g]))
                    ~> pc[g] \in {"open", "stopped"}

\* The probe task of a removed host ends, wherever it is (remove_host).
RemovedEnds == \A g \in Gens : (g < gen \/ (g = gen /\ ~has)) ~> pc[g] = "stopped"
=============================================================================
