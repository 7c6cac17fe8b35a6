------------------------------- MODULE Serve -------------------------------
(***************************************************************************)
(* The processes `mai-probe serve` and `mai-probe stop` of one client on   *)
(* one machine: the pid file by which a new serve stops the old one        *)
(* (mai-probe/src/instance.rs, main.rs), the loop with its reader thread   *)
(* (run.rs), and the commands it runs with a timeout (zellij.rs).          *)
(*                                                                         *)
(* A process is its pid; pids are not used again, and nothing is left of a *)
(* process that died.  What the loop does with a line and in a tick is in  *)
(* Watch and Delivery: here it takes time, because it runs commands, which *)
(* count as one.                                                           *)
(***************************************************************************)
EXTENDS Naturals

CONSTANTS
  Pids,
  MaxLines      \* bound: lines in the channel

ASSUME ServeAssumption == 0 \notin Pids /\ MaxLines \in Nat

\* Serving: from recording itself until the loop returns.
Stopping == {"check", "wait", "record"}
Busy == {"setup", "handle", "tick"}
Serving == Busy \cup {"recv", "send"}
Places == Stopping \cup Serving \cup {"none", "read", "forget", "remove", "dead"}

VARIABLES
  proc,      \* pid -> the process
  doomed,    \* killed, and not dead yet
  record,    \* the pid file: who it names, 0 if it is not there
  muddled    \* two starts overlapped, or a process did not die in time

vars == <<proc, doomed, record, muddled>>

Process ==
  [at     : Places,
   saw    : Pids \cup {0},              \* the pid it read, 0 for none
   cmd    : {"no", "runs", "join"},     \* its command; "join": ended, a pipe still open
   lines  : 0 .. MaxLines,              \* lines in the channel
   input  : BOOLEAN,                    \* the reader thread has not seen the end of stdin
   out    : {"ok", "stuck", "broken"}]  \* stdout; "stuck": nobody reads any more

\* A process of which only its place counts.
Bare(place) ==
  [at |-> place, saw |-> 0, cmd |-> "no", lines |-> 0, input |-> TRUE, out |-> "ok"]

\* Every part of the state has its type.
TypeOK ==
  /\ proc \in [Pids -> Process] /\ doomed \subseteq Pids
  /\ record \in Pids \cup {0} /\ muddled \in BOOLEAN

At(p) == proc[p].at
is_probe(p) == At(p) \notin {"none", "dead"}

\* The process becomes s; outside stop_recorded and run nothing of it counts
\* but where it is.
To(p, s) ==
  proc' = [proc EXCEPT ![p] = IF s.at \in {"record", "forget", "remove", "dead"}
                                THEN Bare(s.at) ELSE s]

\* It goes on, with no command running; looking for zellij, a line and a tick
\* may need one.
Goes(p, a, b) ==
  /\ At(p) = a /\ proc[p].cmd = "no"
  /\ \E c \in {"no"} \cup {"runs" : x \in {b} \cap Busy} :
       To(p, [proc[p] EXCEPT !.at = b, !.cmd = c])

-----------------------------------------------------------------------------
(* stop_recorded, record_self, forget_self.                                *)

StartServe(p) == Goes(p, "none", "read") /\ UNCHANGED <<doomed, record, muddled>>

read_pid(p) ==
  /\ At(p) = "read"
  /\ To(p, [proc[p] EXCEPT !.at = IF record = 0 THEN "record" ELSE "check", !.saw = record])
  /\ UNCHANGED <<doomed, record, muddled>>

\* Mutant: the old serve is not killed.
KillNone(p) == Goes(p, "check", "record") /\ UNCHANGED <<doomed, record, muddled>>

Kill(p) ==
  /\ At(p) = "check"
  /\ IF is_probe(proc[p].saw)
       THEN Goes(p, "check", "wait") /\ doomed' = doomed \cup {proc[p].saw}
       ELSE Goes(p, "check", "record") /\ UNCHANGED doomed
  /\ UNCHANGED <<record, muddled>>

\* Mutant: it does not wait for the process to exit.
WaitNot(p) == Goes(p, "wait", "record") /\ UNCHANGED <<doomed, record, muddled>>

\* It is gone, or the time is up (STOP_WAIT).
Wait(p) ==
  /\ Goes(p, "wait", "record")
  /\ muddled' = (muddled \/ is_probe(proc[p].saw))
  /\ UNCHANGED <<doomed, record>>

\* Another serve has looked at the file already and will not see this one.
Overlaps(p) == \E q \in Pids \ {p} : At(q) \in Stopping

record_self(p) ==
  /\ \/ Goes(p, "record", "setup") /\ record' = p /\ muddled' = (muddled \/ Overlaps(p))
     \/ Goes(p, "record", "dead") /\ UNCHANGED <<record, muddled>>
  /\ UNCHANGED doomed

\* forget_self reads the file, then removes it.
ForgetReads(p) ==
  /\ Goes(p, "forget", IF record = p THEN "remove" ELSE "dead")
  /\ UNCHANGED <<doomed, record, muddled>>

ForgetRemoves(p) ==
  /\ Goes(p, "remove", "dead")
  /\ record' = 0
  /\ UNCHANGED <<doomed, muddled>>

\* `mai-probe stop`: stop_recorded in a process that records nothing.
StopKills ==
  /\ record # 0 /\ is_probe(record)
  /\ doomed' = doomed \cup {record}
  /\ UNCHANGED <<proc, record, muddled>>

-----------------------------------------------------------------------------
(* output_with_timeout.                                                    *)

Command(p, was, is) ==
  /\ is_probe(p) /\ proc[p].cmd = was
  /\ To(p, [proc[p] EXCEPT !.cmd = is])
  /\ UNCHANGED <<doomed, record, muddled>>

\* It exits; a process it started may keep its pipes open.
Exits(p) == \E is \in {"no", "join"} : Command(p, "runs", is)

\* It is killed after COMMAND_TIMEOUT, and its pipes are not waited for.
Timeout(p) == Command(p, "runs", "no")

PipesClose(p) == Command(p, "join", "no")

-----------------------------------------------------------------------------
(* run: the reader thread and the loop.                                    *)

\* The reader thread reads a line; at the end of stdin it drops the sender.
ReaderReads(p) ==
  /\ At(p) \in Serving \ {"setup"} /\ proc[p].input /\ proc[p].lines < MaxLines
  /\ To(p, [proc[p] EXCEPT !.lines = @ + 1])
  /\ UNCHANGED <<doomed, record, muddled>>

ReaderEnds(p) ==
  /\ At(p) \in Serving \ {"setup"} /\ proc[p].input
  /\ To(p, [proc[p] EXCEPT !.input = FALSE])
  /\ UNCHANGED <<doomed, record, muddled>>

\* Zellij and its version are known; the rules may turn out to be bad.
SetUp(p) ==
  /\ Goes(p, "setup", "send") \/ Goes(p, "setup", "forget")
  /\ UNCHANGED <<doomed, record, muddled>>

\* Hello, and the messages of every turn: an error ends the loop.
Send(p) ==
  /\ proc[p].out # "stuck"
  /\ Goes(p, "send", IF proc[p].out = "ok" THEN "recv" ELSE "forget")
  /\ UNCHANGED <<doomed, record, muddled>>

\* A line is taken from the channel.
Takes(p, a) ==
  /\ At(p) = a /\ proc[p].cmd = "no" /\ proc[p].lines > 0
  /\ \E c \in {"no", "runs"} :
       To(p, [proc[p] EXCEPT !.at = "handle", !.lines = @ - 1, !.cmd = c])

\* Mutant: a sender that is gone is taken for a timeout.
ReceiveForever(p) ==
  /\ Takes(p, "recv") \/ (proc[p].lines = 0 /\ Goes(p, "recv", "tick"))
  /\ UNCHANGED <<doomed, record, muddled>>

\* recv_timeout(TICK): a line, a timeout, or Disconnected.
Receive(p) ==
  /\ \/ Takes(p, "recv")
     \/ proc[p].lines = 0 /\ Goes(p, "recv", IF proc[p].input THEN "tick" ELSE "forget")
  /\ UNCHANGED <<doomed, record, muddled>>

\* A line is handled; try_recv: the next one, or the tick.
Handled(p) ==
  /\ Takes(p, "handle") \/ (proc[p].lines = 0 /\ Goes(p, "handle", "tick"))
  /\ UNCHANGED <<doomed, record, muddled>>

Ticked(p) == Goes(p, "tick", "send") /\ UNCHANGED <<doomed, record, muddled>>

-----------------------------------------------------------------------------
(* The other side of the pipes, and the system.                            *)

\* Nobody reads stdout any more (a half-open connection), or it breaks.
OutStops(p) ==
  /\ At(p) \in Serving
  /\ \/ proc[p].out = "ok" /\ To(p, [proc[p] EXCEPT !.out = "stuck"])
     \/ proc[p].out # "broken" /\ To(p, [proc[p] EXCEPT !.out = "broken"])
  /\ UNCHANGED <<doomed, record, muddled>>

\* A killed process dies; any process may be killed or crash.
Dies(p) ==
  /\ is_probe(p)
  /\ To(p, [proc[p] EXCEPT !.at = "dead"])
  /\ doomed' = doomed \ {p}
  /\ UNCHANGED <<record, muddled>>

-----------------------------------------------------------------------------
Init ==
  /\ proc = [p \in Pids |-> Bare("none")]
  /\ doomed = {} /\ record = 0 /\ muddled = FALSE

\* The process goes on by itself.
Steps(p) ==
  \/ read_pid(p) \/ Kill(p) \/ Wait(p) \/ record_self(p) \/ ForgetReads(p) \/ ForgetRemoves(p)
  \/ SetUp(p) \/ Send(p) \/ Receive(p) \/ Handled(p) \/ Ticked(p) \/ Timeout(p)

Next ==
  \/ StopKills
  \/ \E p \in Pids :
       \/ StartServe(p) \/ Steps(p) \/ Exits(p) \/ PipesClose(p)
       \/ ReaderReads(p) \/ ReaderEnds(p) \/ OutStops(p) \/ Dies(p)

Spec == Init /\ [][Next]_vars

\* Threads are scheduled, deadlines pass, the killed die.
FairSpec ==
  /\ Spec
  /\ \A p \in Pids :
       WF_vars(Steps(p)) /\ WF_vars(p \in doomed /\ Dies(p))

-----------------------------------------------------------------------------
(* Properties.                                                             *)

\* There is one serve per client, unless two starts overlapped or one was
\* not dead in time (instance.rs: stop_recorded before record_self).
OneServe ==
  ~muddled => \A p, q \in Pids : At(p) \in Serving /\ At(q) \in Serving => p = q

\* The pid file names the serve that runs, so that the next one finds it: no
\* serve that ends, is killed or forgets itself takes another's record away
\* (record_self, forget_self; again unless starts overlapped).
RecordedWhileServing == ~muddled => \A p \in Pids : At(p) \in Serving => record = p

\* Once its stdin ends a serve ends, however its commands hang and whatever
\* lines are left, unless stdout is never read again or a process that a
\* command left behind keeps its pipes open (run, output_with_timeout).
ServeEnds ==
  \A p \in Pids :
    <>(~proc[p].input) =>
      \/ <>(At(p) = "dead")
      \/ <>[](proc[p].cmd = "join")
      \/ <>[](proc[p].out = "stuck")
=============================================================================
