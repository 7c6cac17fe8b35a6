------------------------------- MODULE Deploy -------------------------------
(***************************************************************************)
(* Putting the app's probe on a host (crates/mai-core/src/deploy.rs,       *)
(* connect.rs, swap.rs).  Every attempt of the host's probe task connects, *)
(* compares the installed binary with the app's, and if they differ        *)
(* uploads the app's to `.upload`, checks it, moves the installed one      *)
(* aside and renames the new one into place, under the host's gate; then   *)
(* serve is started from it.                                               *)
(*                                                                         *)
(* Each action is one request to the host.  The connection may drop        *)
(* between any two: the requests after that fail, and what was done stays  *)
(* done.  Removing the host drops the attempt at any request; the host     *)
(* added again has a new task, next to the old one that has not stopped    *)
(* yet.  On Windows an executable that runs cannot be removed, but         *)
(* renamed.                                                                *)
(***************************************************************************)
EXTENDS Naturals, FiniteSets

CONSTANTS
  MaxTasks,     \* bound: how often the host is added
  Stamps,       \* names `.old-<stamp>`
  Locks,        \* a running executable cannot be removed (Windows)
  MaxFaults     \* bound: requests that fail and connections that drop

ASSUME DeployAssumption ==
  /\ MaxTasks \in Nat \ {0}
  /\ Locks \in BOOLEAN
  /\ MaxFaults \in Nat
  /\ {"target", "upload", "old"} \cap Stamps = {}

Tasks == 1 .. MaxTasks
Asides == {"old"} \cup Stamps
Names == {"target", "upload"} \cup Asides
Complete == {"old", "new"}

\* Where a task is: idle waits for its next attempt, user for Retry, gone
\* has ended.
Waits == {"idle", "user", "gone"}
Attempt == {"hash", "stop", "create", "write", "check", "clean", "aside", "place",
            "restore", "drop", "hooks", "spawn"}

VARIABLES
  host,     \* the task of the host as added last; the others are to stop
  gate,     \* SystemConnector::gate: who holds it ({} or one task)
  pc,       \* what each task does next
  conn,     \* whether its SSH connection is there (SshSession::is_closed)
  aside,    \* swap_in's aside: {} or the name
  file,     \* what each name holds: the app's binary is "new"
  running,  \* files that serve processes run
  faults,
  blind     \* history: tasks at their serve when another one, which could not get
            \* the hash of the app's binary, began to replace it

vars == <<host, gate, pc, conn, aside, file, running, faults, blind>>

\* Every part of the state has its type, and a process runs only from a file
\* that is there.
TypeOK ==
  /\ host \in Tasks
  /\ gate \subseteq Tasks
  /\ pc \in [Tasks -> Waits \cup Attempt \cup {"up"}]
  /\ conn \in [Tasks -> BOOLEAN]
  /\ aside \in [Tasks -> SUBSET Asides]
  /\ file \in [Names -> {"none", "part"} \cup Complete]
  /\ running \subseteq {n \in Names : file[n] # "none"}
  /\ faults \in 0 .. MaxFaults
  /\ blind \subseteq Tasks

Fault == faults < MaxFaults /\ faults' = faults + 1

\* Task t is at request p and goes on to q.
At(t, p) == t <= host /\ pc[t] = p
Go(t, q) == pc' = [pc EXCEPT ![t] = q]

\* The attempt is over: open returns, or is dropped, and its guard with it.
Ends(t, q) ==
  /\ Go(t, q)
  /\ gate' = gate \ {t}
  /\ aside' = [aside EXCEPT ![t] = {}]
  /\ UNCHANGED <<host, blind, conn>>

\* Request p of task t fails because the connection is gone: a network
\* problem, retried.
Closed(t, p) ==
  /\ At(t, p) /\ ~conn[t]
  /\ Ends(t, "idle")
  /\ UNCHANGED <<file, running, faults>>

\* The host refuses request p: this needs the user.
Refused(t, p) ==
  /\ At(t, p) /\ conn[t]
  /\ Fault
  /\ Ends(t, "user")
  /\ UNCHANGED <<file, running>>

\* Request p of task t is made over the connection, and q comes next.
Request(t, p, q) == At(t, p) /\ conn[t] /\ Go(t, q)

\* The file at name a is renamed to b, and goes on running.
Rename(a, b) ==
  /\ file' = [file EXCEPT ![a] = "none", ![b] = file[a]]
  /\ running' = IF a \in running THEN (running \ {a}) \cup {b} ELSE running

Removed(S) ==
  /\ file' = [n \in Names |-> IF n \in S THEN "none" ELSE file[n]]
  /\ running' = running \ S

Locked == IF Locks THEN running ELSE {}

-----------------------------------------------------------------------------
(* deploy and upload.                                                      *)

\* Mutant: nobody waits for the gate.
LockOpen(t) ==
  /\ At(t, "idle")
  /\ gate' = gate \cup {t}
  /\ Go(t, "hash")
  /\ conn' = [conn EXCEPT ![t] = TRUE]
  /\ blind' = blind \ {t}
  /\ UNCHANGED <<host, aside, file, running, faults>>

\* open_ssh: the gate is waited for, then the host connected.
Lock(t) ==
  /\ At(t, "idle") /\ gate = {}
  /\ gate' = {t}
  /\ Go(t, "hash")
  /\ conn' = [conn EXCEPT ![t] = TRUE]
  /\ blind' = blind \ {t}
  /\ UNCHANGED <<host, aside, file, running, faults>>

\* Mutant: any binary that is there will do.
HashAny(t) ==
  \/ /\ Request(t, "hash", IF file["target"] # "none" THEN "hooks" ELSE "create")
     /\ UNCHANGED <<host, blind, gate, conn, aside, file, running, faults>>
  \/ Closed(t, "hash") \/ Refused(t, "hash")

\* The installed binary's hash says whether to upload; one that is there is
\* told to stop its serve first, unless its hash cannot be computed, which looks
\* as if there were none.  What is refused here is the authentication or the
\* detection of the system.
Hash(t) ==
  \/ /\ Request(t, "hash", CASE file["target"] = "new"  -> "hooks"
                             [] file["target"] = "none" -> "create"
                             [] OTHER                   -> "stop")
     /\ UNCHANGED <<host, blind, gate, conn, aside, file, running, faults>>
  \/ /\ Request(t, "hash", "create") /\ file["target"] # "none"
     /\ Fault
     /\ blind' = IF file["target"] = "new" THEN blind \cup {u \in Tasks : pc[u] \in {"spawn", "up"}}
                                          ELSE blind
     /\ UNCHANGED <<host, gate, conn, aside, file, running>>
  \/ Closed(t, "hash") \/ Refused(t, "hash")

\* Best effort, and its errors are ignored: a serve of another client, or one
\* whose pid file is gone, goes on running.
StopServe(t) ==
  /\ At(t, "stop")
  /\ Go(t, "create")
  /\ IF conn[t] THEN running' \in SUBSET running ELSE UNCHANGED running
  /\ UNCHANGED <<host, blind, gate, conn, aside, file, faults>>

Create(t) ==
  \/ /\ Request(t, "create", "write")
     /\ file' = [file EXCEPT !["upload"] = "part"]
     /\ UNCHANGED <<host, blind, gate, conn, aside, running, faults>>
  \/ Closed(t, "create") \/ Refused(t, "create")

Write(t) ==
  \/ /\ Request(t, "write", "check")
     /\ file' = [file EXCEPT !["upload"] = "new"]
     /\ UNCHANGED <<host, blind, gate, conn, aside, running, faults>>
  \/ Closed(t, "write") \/ Refused(t, "write")

\* The hash of what was written; what does not match is removed.
Check(t) ==
  \/ /\ Request(t, "check", "clean")
     /\ UNCHANGED <<host, blind, gate, conn, aside, file, running, faults>>
  \/ Closed(t, "check")
  \/ /\ At(t, "check") /\ conn[t]
     /\ Fault
     /\ Ends(t, "user")
     /\ Removed({"upload"})

-----------------------------------------------------------------------------
(* swap_in: whatever ends it is an upload error of its own.                *)

\* Leftovers of earlier swaps are removed; locked ones stay, a removal may
\* fail, and without a connection nothing is listed.
Clean(t) ==
  /\ At(t, "clean")
  /\ Go(t, "aside")
  /\ \E kept \in SUBSET Asides :
       /\ Locked \cap Asides \subseteq kept
       /\ \/ conn[t] /\ kept \subseteq Locked /\ UNCHANGED faults
          \/ conn[t] /\ (\E n \in kept \ Locked : file[n] # "none") /\ Fault
          \/ ~conn[t] /\ kept = Asides /\ UNCHANGED faults
       /\ Removed(Asides \ kept)
  /\ UNCHANGED <<host, blind, gate, conn, aside>>

\* Request p of swap_in fails, whatever the reason.
SwapFails(t, p) ==
  /\ At(t, p)
  /\ IF conn[t] THEN Fault ELSE UNCHANGED faults
  /\ Ends(t, "user")
  /\ UNCHANGED <<file, running>>

\* Mutant: the installed binary is always moved to `.old`, which fails if a
\* locked one is there.
MoveAsideOld(t) ==
  \/ /\ Request(t, "aside", "place")
     /\ \/ file["target"] = "none" /\ UNCHANGED <<aside, file, running>>
        \/ /\ file["target"] # "none" /\ file["old"] = "none"
           /\ Rename("target", "old") /\ aside' = [aside EXCEPT ![t] = {"old"}]
     /\ UNCHANGED <<host, blind, gate, conn, faults>>
  \/ /\ At(t, "aside") /\ file["target"] # "none" /\ file["old"] # "none"
     /\ Ends(t, "user")
     /\ UNCHANGED <<file, running, faults>>
  \/ SwapFails(t, "aside")

\* The installed binary, if any, is moved to `.old`, or to a new name if a
\* locked `.old` is still there.
MoveAside(t) ==
  \/ /\ At(t, "aside") /\ conn[t] /\ file["target"] = "none"
     /\ Go(t, "place")
     /\ UNCHANGED <<host, blind, gate, conn, aside, file, running, faults>>
  \/ /\ At(t, "aside") /\ conn[t] /\ file["target"] # "none"
     /\ \E n \in Asides :
          /\ IF file["old"] = "none" THEN n = "old" ELSE n \in Stamps /\ file[n] = "none"
          /\ Rename("target", n)
          /\ \/ /\ Go(t, "place") /\ aside' = [aside EXCEPT ![t] = {n}]
                /\ UNCHANGED <<host, blind, gate, conn, faults>>
             \/ Fault /\ Ends(t, "user")    \* it is renamed, and the answer lost
  \/ SwapFails(t, "aside")

\* The new binary is renamed into place; if that fails, or seems to, the old
\* one is to be put back.
Place(t) ==
  /\ \/ /\ Request(t, "place", "drop")
        /\ Rename("upload", "target")
        /\ UNCHANGED faults
     \/ /\ Request(t, "place", "restore")
        /\ Rename("upload", "target")
        /\ Fault
     \/ /\ At(t, "place")
        /\ IF conn[t] THEN Fault ELSE UNCHANGED faults
        /\ Go(t, "restore")
        /\ UNCHANGED <<file, running>>
  /\ UNCHANGED <<host, blind, gate, conn, aside>>

\* The old binary is put back, unless there is one after all, and swap_in failed.
Restore(t) ==
  \/ /\ At(t, "restore")
     /\ \/ conn[t] /\ file["target"] = "none" /\ \E n \in aside[t] : Rename(n, "target")
        \/ (aside[t] = {} \/ file["target"] # "none") /\ UNCHANGED <<file, running>>
     /\ Ends(t, "user")
     /\ UNCHANGED faults
  \/ aside[t] # {} /\ file["target"] = "none" /\ SwapFails(t, "restore")

\* The binary moved aside is removed when possible.
DropAside(t) ==
  /\ At(t, "drop")
  /\ Go(t, "hooks")
  /\ \/ conn[t] /\ Removed(aside[t] \ Locked) /\ UNCHANGED faults
     \/ conn[t] /\ aside[t] \ Locked # {} /\ Fault /\ UNCHANGED <<file, running>>
     \/ ~conn[t] /\ UNCHANGED <<file, running, faults>>
  /\ aside' = [aside EXCEPT ![t] = {}]
  /\ UNCHANGED <<host, blind, gate, conn>>

-----------------------------------------------------------------------------
(* The rest of open, and the end of the connection.                        *)

\* install-hooks, whose failure is only reported; then the guard is dropped.
Hooks(t) ==
  \/ /\ Request(t, "hooks", "spawn")
     /\ gate' = gate \ {t}
     /\ UNCHANGED <<host, blind, conn, aside, file, running, faults>>
  \/ Closed(t, "hooks")

\* serve is started from the installed binary; if there is none, it does not
\* answer, and the attempt is over.
Spawn(t) ==
  \/ /\ Request(t, "spawn", IF file["target"] = "none" THEN "idle" ELSE "up")
     /\ running' = IF file["target"] = "none" THEN running ELSE running \cup {"target"}
     /\ UNCHANGED <<host, blind, gate, conn, aside, file, faults>>
  \/ Closed(t, "spawn")

\* The link is lost; its serve may outlive it.
LinkLost(t) ==
  /\ At(t, "up") /\ ~conn[t]
  /\ Go(t, "idle")
  /\ running' \in {running, running \ {"target"}}
  /\ UNCHANGED <<host, blind, gate, conn, aside, file, faults>>

\* The SSH connection drops.
Drop(t) ==
  /\ pc[t] \in Attempt \cup {"up"} /\ conn[t]
  /\ Fault
  /\ conn' = [conn EXCEPT ![t] = FALSE]
  /\ UNCHANGED <<host, blind, gate, pc, aside, file, running>>

\* The user asks for another attempt.
Retry(t) ==
  /\ At(t, "user")
  /\ Go(t, "idle")
  /\ UNCHANGED <<host, blind, gate, conn, aside, file, running, faults>>

\* The host is removed and added again; the old task gets to know later.
AddAgain ==
  /\ host < MaxTasks
  /\ host' = host + 1
  /\ UNCHANGED <<gate, pc, conn, aside, file, running, faults, blind>>

\* It stops wherever it is; its serve may outlive it.
Stops(t) ==
  /\ t < host /\ pc[t] # "gone"
  /\ Ends(t, "gone")
  /\ running' \in {running, IF pc[t] = "up" THEN running \ {"target"} ELSE running}
  /\ UNCHANGED <<file, faults>>

-----------------------------------------------------------------------------
\* The host has no probe or an older one, and perhaps one that an earlier
\* version of the app moved aside; serve may run from any of them.
Init ==
  /\ host = 1
  /\ gate = {}
  /\ pc = [t \in Tasks |-> "idle"]
  /\ conn = [t \in Tasks |-> FALSE]
  /\ aside = [t \in Tasks |-> {}]
  /\ \E there \in SUBSET {"target", "old"} :
       /\ file = [n \in Names |-> IF n \in there THEN "old" ELSE "none"]
       /\ running \in SUBSET there
  /\ faults = 0
  /\ blind = {}

Step(t) ==
  \/ Lock(t) \/ Hash(t) \/ StopServe(t) \/ Create(t) \/ Write(t) \/ Check(t)
  \/ Clean(t) \/ MoveAside(t) \/ Place(t) \/ Restore(t) \/ DropAside(t)
  \/ Hooks(t) \/ Spawn(t) \/ LinkLost(t)

Next == AddAgain \/ \E t \in Tasks : Step(t) \/ Drop(t) \/ Retry(t) \/ Stops(t)

Spec == Init /\ [][Next]_vars

\* Requests are answered or time out, tasks retry, and one that is told to
\* stop does; whether the user retries is up to the user.
FairSpec == Spec /\ \A t \in Tasks : WF_vars(Step(t)) /\ WF_vars(Stops(t))

-----------------------------------------------------------------------------
(* Properties.                                                             *)

\* What is installed is a complete binary whenever anything is: an upload is
\* never renamed into place while it is being written, by this task or by an
\* earlier one that has not stopped yet (gate, swap_in).
InstalledIsComplete == file["target"] # "part"

\* Whoever goes on to start serve starts the app's own binary, also when the
\* gate is no longer held (open_ssh drops the guard before serve is started);
\* unless a task that could not get the binary's hash began to replace it then.
StartsOwnProbe ==
  \A t \in Tasks \ blind : pc[t] \in {"hooks", "spawn"} => file["target"] = "new"

\* In the end the app's binary is installed and stays so, whatever broke
\* before and although an old serve never lets go of its executable; or the
\* user is asked and does not answer.  It may be missing only while it runs:
\* a task to stop could not get its hash, and did not finish replacing it.
Deployed ==
  \/ <>[](file["target"] = "new" \/ (pc[host] = "up" /\ host \in blind))
  \/ <>[](pc[host] = "user")
=============================================================================
