--------------------------- MODULE DeployProofs ---------------------------
(***************************************************************************)
(* Proofs about Deploy: for any numbers of tasks, spare names and faults,  *)
(* what is installed is complete, and serve is started from the app's own  *)
(* binary.                                                                 *)
(*                                                                         *)
(* The invariant says what every request can rely on: one task at a time   *)
(* works under the gate, the upload is complete once it was checked, and a *)
(* task that replaces the binary excludes one that is about to start it,   *)
(* although that one has left the gate: the first has found another binary *)
(* installed, the second the app's, unless the first could not look        *)
(* (blind).  It follows that serve always runs from a file that is there.  *)
(***************************************************************************)
EXTENDS Deploy, TLAPS

Typed ==
  /\ gate \subseteq Tasks
  /\ pc \in [Tasks -> Waits \cup Attempt \cup {"up"}]
  /\ aside \in [Tasks -> SUBSET Asides]
  /\ file \in [Names -> {"none", "part"} \cup Complete]
  /\ blind \subseteq Tasks

\* Requests made under the gate.
Holding == Attempt \ {"spawn"}
HoldersHaveGate == \A t \in Tasks : pc[t] \in Holding => t \in gate
OneHolds == \A t, u \in Tasks : pc[t] \in Holding /\ pc[u] \in Holding => t = u

\* What a task at pc p under the gate relies on.
Relies(p, f) ==
  /\ p \in {"check", "clean", "aside", "place"} => f["upload"] = "new"
  /\ p = "place" => f["target"] = "none"
  /\ p = "restore" => f["target"] \in {"none", "new"}
  /\ p \in {"drop", "hooks"} => f["target"] = "new"

AllRely == \A t \in Tasks : Relies(pc[t], file)
Whole(f) == \A n \in Names \ {"upload"} : f[n] # "part"

\* What a task that has left the gate relies on: nobody replaces the binary.
Replacing == {"stop", "create", "write", "check", "clean", "aside", "place", "restore"}
StartersApart ==
  \A t \in Tasks \ blind : pc[t] = "spawn" =>
    file["target"] = "new" /\ \A u \in Tasks : pc[u] \notin Replacing

Inv == Typed /\ HoldersHaveGate /\ OneHolds /\ AllRely /\ StartersApart /\ Whole(file)

-----------------------------------------------------------------------------
\* Asides are names, and neither the target nor the upload.
LEMMA NamesApart ==
  /\ "target" \in Names /\ "upload" \in Names /\ "target" # "upload"
  /\ Asides \subseteq Names \ {"target", "upload"}
BY DeployAssumption DEF Names, Asides

\* Nobody has begun, and the files found are complete.
LEMMA Initially == Init => Inv
<1> SUFFICES ASSUME Init PROVE Inv
  OBVIOUS
<1>1. PICK there \in SUBSET {"target", "old"} :
        file = [n \in Names |-> IF n \in there THEN "old" ELSE "none"]
  BY DEF Init
<1>2. Typed
  BY <1>1 DEF Init, Typed, Waits, Complete
<1>3. HoldersHaveGate /\ OneHolds
  BY DEF Init, HoldersHaveGate, OneHolds, Holding, Attempt
<1>4. AllRely /\ StartersApart
  BY DEF Init, AllRely, Relies, StartersApart
<1>5. Whole(file)
  BY <1>1 DEF Whole
<1> QED BY <1>2, <1>3, <1>4, <1>5 DEF Inv

\* Task t goes to q.  It holds the gate there, or needs it no more.
LEMMA GateKeeps ==
  ASSUME Inv, NEW t \in Tasks, NEW q \in Waits \cup Attempt \cup {"up"}, Go(t, q),
         \/ q \in Holding /\ pc[t] \in Holding /\ gate' = gate
         \/ q \notin Holding /\ gate' \in {gate, gate \ {t}}
         \/ gate = {} /\ gate' = {t}
  PROVE  /\ gate' \subseteq Tasks /\ pc' \in [Tasks -> Waits \cup Attempt \cup {"up"}]
         /\ HoldersHaveGate' /\ OneHolds'
<1>1. pc' = [pc EXCEPT ![t] = q] /\ pc \in [Tasks -> Waits \cup Attempt \cup {"up"}]
  BY DEF Go, Inv, Typed
<1>2. pc'[t] = q /\ \A u \in Tasks \ {t} : pc'[u] = pc[u]
  BY <1>1
<1>3. gate' \subseteq Tasks /\ pc' \in [Tasks -> Waits \cup Attempt \cup {"up"}]
  BY <1>1 DEF Inv, Typed
<1>4. CASE q \in Holding /\ pc[t] \in Holding /\ gate' = gate
  BY <1>2, <1>3, <1>4 DEF Inv, HoldersHaveGate, OneHolds
<1>5. CASE q \notin Holding /\ gate' \in {gate, gate \ {t}}
  BY <1>2, <1>3, <1>5 DEF Inv, HoldersHaveGate, OneHolds
<1>6. CASE gate = {} /\ gate' = {t}
  BY <1>2, <1>3, <1>6 DEF Inv, HoldersHaveGate, OneHolds
<1> QED BY <1>4, <1>5, <1>6

\* A task under the gate may change files: nobody else there relies on them.
LEMMA RelyKeeps ==
  ASSUME Inv, NEW t \in Tasks, NEW q, Go(t, q), Relies(q, file'),
         file' = file \/ pc[t] \in Holding
  PROVE  AllRely'
<1>1. pc'[t] = q /\ \A u \in Tasks \ {t} : pc'[u] = pc[u]
  BY DEF Go, Inv, Typed
<1>2. ASSUME NEW u \in Tasks, u # t PROVE Relies(pc[u], file')
  <2>1. Relies(pc[u], file)
    BY DEF Inv, AllRely
  <2>2. file' = file \/ pc[u] \notin Holding
    BY <1>2 DEF Inv, OneHolds
  <2> QED BY <2>1, <2>2 DEF Relies, Holding, Attempt
<1> QED BY <1>1, <1>2 DEF AllRely

\* A task that replaces the binary excludes one about to start it, and one
\* that does not leaves it alone.
LEMMA StartersKeep ==
  ASSUME Inv, NEW t \in Tasks, NEW q, Go(t, q), q # "spawn", blind' = blind,
         \/ pc[t] \in Replacing
         \/ q \notin Replacing /\ file'["target"] = file["target"]
  PROVE  StartersApart'
<1>1. pc'[t] = q /\ \A u \in Tasks \ {t} : pc'[u] = pc[u]
  BY DEF Go, Inv, Typed
<1> SUFFICES ASSUME NEW v \in Tasks \ blind, pc'[v] = "spawn"
             PROVE  file'["target"] = "new" /\ \A u \in Tasks : pc'[u] \notin Replacing
  BY DEF StartersApart
<1>2. v # t /\ pc[v] = "spawn"
  BY <1>1
<1>3. file["target"] = "new" /\ \A u \in Tasks : pc[u] \notin Replacing
  BY <1>2 DEF Inv, StartersApart
<1> QED BY <1>1, <1>3

\* Files are left alone.
LEMMA SameFiles ==
  ASSUME Inv, NEW t \in Tasks, NEW q \in Waits \cup Attempt \cup {"up"}, Go(t, q),
         \/ q \in Holding /\ pc[t] \in Holding /\ gate' = gate
         \/ q \notin Holding /\ gate' \in {gate, gate \ {t}}
         \/ gate = {} /\ gate' = {t},
         Relies(q, file), file' = file, aside' \in [Tasks -> SUBSET Asides],
         \/ q # "spawn" /\ blind' = blind /\ (q \in Replacing => pc[t] \in Replacing)
         \/ StartersApart' /\ blind' \subseteq Tasks
  PROVE  Inv'
<1>1. AllRely'
  BY RelyKeeps
<1>2. StartersApart' /\ blind' \subseteq Tasks
  BY StartersKeep DEF Inv, Typed
<1> QED BY <1>1, <1>2, GateKeeps DEF Inv, Typed, Whole

\* A task that waits relies on nothing.
LEMMA WaitingReliesOnNothing == \A q \in Waits \cup {"up"} : \A f : Relies(q, f)
BY DEF Waits, Relies

\* The attempt ends and the files are left alone.
LEMMA EndKeeps ==
  ASSUME Inv, NEW t \in Tasks, NEW q \in Waits, Ends(t, q), file' = file
  PROVE  Inv'
<1>1. Go(t, q) /\ gate' = gate \ {t} /\ aside' = [aside EXCEPT ![t] = {}] /\ blind' = blind
  BY DEF Ends
<1>2. aside' \in [Tasks -> SUBSET Asides]
  BY <1>1 DEF Inv, Typed
<1>3. q \notin Holding /\ q \notin Replacing /\ q # "spawn"
  BY DEF Waits, Holding, Attempt, Replacing
<1> QED BY <1>1, <1>2, <1>3, SameFiles, WaitingReliesOnNothing

\* A request that fails.
LEMMA FailKeeps ==
  ASSUME Inv, NEW t \in Tasks, NEW p, Closed(t, p) \/ Refused(t, p) \/ SwapFails(t, p)
  PROVE  Inv'
BY EndKeeps DEF Closed, Refused, SwapFails, Waits

\* Lock.
LEMMA LockKeeps == ASSUME Inv, NEW t \in Tasks, Lock(t) PROVE Inv'
<1>1. /\ Go(t, "hash") /\ gate = {} /\ gate' = {t} /\ UNCHANGED <<aside, file>>
      /\ blind' = blind \ {t}
  BY DEF Lock
<1>2. Relies("hash", file) /\ "hash" \in Attempt
  BY DEF Relies, Attempt
<1>3. pc'[t] = "hash" /\ \A u \in Tasks \ {t} : pc'[u] = pc[u]
  BY <1>1 DEF Go, Inv, Typed
<1>4. StartersApart' /\ blind' \subseteq Tasks
  BY <1>1, <1>3 DEF Inv, Typed, StartersApart, Replacing
<1> QED BY <1>1, <1>2, <1>4, SameFiles DEF Inv, Typed

\* Hash: the task goes on as the target is, or blindly.
LEMMA HashKeeps == ASSUME Inv, NEW t \in Tasks, Hash(t) PROVE Inv'
<1>1. CASE Closed(t, "hash") \/ Refused(t, "hash")
  BY <1>1, FailKeeps
<1>2. CASE ~(Closed(t, "hash") \/ Refused(t, "hash"))
  <2>1. /\ UNCHANGED <<gate, aside, file>> /\ pc[t] = "hash"
        /\ \/ file["target"] = "new" /\ Go(t, "hooks") /\ blind' = blind
           \/ file["target"] # "new" /\ (Go(t, "create") \/ Go(t, "stop")) /\ blind' = blind
           \/ file["target"] = "new" /\ Go(t, "create")
              /\ blind' = blind \cup {u \in Tasks : pc[u] \in {"spawn", "up"}}
    BY <1>2, Zenon DEF Hash, Request, At
  <2>2. PICK q \in {"hooks", "create", "stop"} :
          /\ Go(t, q) /\ Relies(q, file)
          /\ \/ q = "hooks" /\ blind' = blind
             \/ q \in {"create", "stop"} /\ file["target"] # "new" /\ blind' = blind
             \/ blind' = blind \cup {u \in Tasks : pc[u] \in {"spawn", "up"}}
    BY <2>1 DEF Relies
  <2>3. q \in Holding /\ pc[t] \in Holding /\ q \in Attempt /\ q # "spawn"
    BY <2>1 DEF Holding, Attempt
  <2>4. pc'[t] = q /\ \A u \in Tasks \ {t} : pc'[u] = pc[u]
    BY <2>2 DEF Go, Inv, Typed
  <2>5. blind' \subseteq Tasks
    BY <2>2 DEF Inv, Typed
  <2>6. StartersApart'
    <3>1. CASE q = "hooks" /\ blind' = blind
      BY <2>1, <2>4, <3>1 DEF Inv, StartersApart, Replacing
    <3>2. CASE file["target"] # "new" /\ blind' = blind
      <4>1. \A v \in Tasks \ blind : pc'[v] # "spawn"
        BY <2>3, <2>4, <3>2 DEF Inv, StartersApart
      <4> QED BY <3>2, <4>1 DEF StartersApart
    <3>3. CASE blind' = blind \cup {u \in Tasks : pc[u] \in {"spawn", "up"}}
      <4>1. \A v \in Tasks \ blind' : pc'[v] # "spawn"
        BY <2>3, <2>4, <3>3
      <4> QED BY <4>1 DEF StartersApart
    <3> QED BY <2>2, <3>1, <3>2, <3>3
  <2> QED BY <2>1, <2>2, <2>3, <2>5, <2>6, SameFiles DEF Inv, Typed
<1> QED BY <1>1, <1>2

\* StopServe leaves the files alone.
LEMMA StopKeeps == ASSUME Inv, NEW t \in Tasks, StopServe(t) PROVE Inv'
<1>1. pc[t] = "stop" /\ Go(t, "create") /\ UNCHANGED <<gate, aside, file, blind>>
  BY DEF StopServe, At
<1>2. Relies("create", file) /\ pc[t] \in Replacing
  BY <1>1 DEF Relies, Replacing
<1> QED BY <1>1, <1>2, SameFiles DEF Inv, Typed, Holding, Attempt

\* Writing the upload.
LEMMA UploadKeeps ==
  ASSUME Inv, NEW t \in Tasks, NEW p \in {"create", "write"}, NEW q \in {"write", "check"},
         NEW v \in {"part", "new"}, Request(t, p, q), q = "check" => v = "new",
         file' = [file EXCEPT !["upload"] = v], UNCHANGED <<gate, aside, blind>>
  PROVE  Inv'
<1>1. /\ pc[t] = p /\ Go(t, q) /\ pc[t] \in Holding /\ q \in Holding /\ q \in Attempt
      /\ pc[t] \in Replacing /\ q # "spawn"
  BY DEF Request, At, Holding, Attempt, Replacing
<1>2. /\ file' \in [Names -> {"none", "part"} \cup Complete]
      /\ \A n \in Names \ {"upload"} : file'[n] = file[n]
      /\ file'["upload"] = v /\ file'["target"] = file["target"]
  BY NamesApart DEF Inv, Typed, Complete
<1>3. Relies(q, file')
  BY <1>1, <1>2 DEF Inv, AllRely, Relies
<1>4. AllRely' /\ StartersApart'
  BY <1>1, <1>2, <1>3, RelyKeeps, StartersKeep
<1>5. Whole(file')
  BY <1>2 DEF Inv, Whole
<1> QED BY <1>1, <1>2, <1>4, <1>5, GateKeeps DEF Inv, Typed

\* Files other than the target are removed, the upload only by a task that is
\* at work.
LEMMA RemoveKeeps ==
  ASSUME Inv, NEW t \in Tasks, NEW q \in Waits \cup Attempt, Go(t, q), NEW S, Removed(S),
         pc[t] \in Holding, "target" \notin S, blind' = blind,
         q # "spawn", q \in Replacing => pc[t] \in Replacing,
         \/ q \in Holding /\ gate' = gate
         \/ q \notin Holding /\ gate' \in {gate, gate \ {t}},
         Relies(q, file'), aside' \in [Tasks -> SUBSET Asides]
  PROVE  Inv'
<1>1. /\ file' \in [Names -> {"none", "part"} \cup Complete]
      /\ file'["target"] = file["target"] /\ Whole(file')
  BY NamesApart DEF Removed, Inv, Typed, Whole
<1>2. AllRely' /\ StartersApart'
  BY <1>1, RelyKeeps, StartersKeep
<1> QED BY <1>1, <1>2, GateKeeps DEF Inv, Typed

\* Create and Write.
LEMMA WriteKeeps == ASSUME Inv, NEW t \in Tasks, Create(t) \/ Write(t) PROVE Inv'
BY FailKeeps, UploadKeeps DEF Create, Write

\* Check: the upload is as it should be, or is removed.
LEMMA CheckKeeps == ASSUME Inv, NEW t \in Tasks, Check(t) PROVE Inv'
<1>0. pc[t] = "check" /\ pc[t] \in Holding /\ pc[t] \in Replacing
  BY DEF Check, Closed, Request, At, Holding, Attempt, Replacing
<1>1. CASE Request(t, "check", "clean") /\ UNCHANGED <<gate, aside, file, blind>>
  <2>1. Go(t, "clean") /\ Relies("clean", file)
    BY <1>0, <1>1 DEF Request, Inv, AllRely, Relies
  <2> QED BY <1>0, <1>1, <2>1, SameFiles DEF Inv, Typed, Holding, Attempt
<1>2. CASE Closed(t, "check")
  BY <1>2, FailKeeps
<1>3. CASE Ends(t, "user") /\ Removed({"upload"})
  <2>1. Go(t, "user") /\ gate' = gate \ {t} /\ aside' \in [Tasks -> SUBSET Asides] /\ blind' = blind
    BY <1>3 DEF Ends, Inv, Typed
  <2>2. "user" \in Waits /\ "user" \notin Holding /\ Relies("user", file')
    BY DEF Waits, Holding, Attempt, Relies
  <2> QED BY <1>0, <1>3, <2>1, <2>2, RemoveKeeps
<1> QED BY <1>1, <1>2, <1>3 DEF Check

\* Clean removes names of earlier swaps only.
LEMMA CleanKeeps == ASSUME Inv, NEW t \in Tasks, Clean(t) PROVE Inv'
<1>1. PICK kept \in SUBSET Asides : Removed(Asides \ kept)
  BY DEF Clean
<1>2. pc[t] = "clean" /\ Go(t, "aside") /\ UNCHANGED <<gate, aside, blind>>
  BY DEF Clean, At
<1>3. file'["target"] = file["target"] /\ file'["upload"] = file["upload"]
  BY <1>1, NamesApart DEF Removed
<1>4. Relies("aside", file')
  BY <1>2, <1>3 DEF Inv, AllRely, Relies
<1>5. "aside" \in Holding /\ "aside" \in Attempt /\ pc[t] \in Holding /\ pc[t] \in Replacing
  BY <1>2 DEF Holding, Attempt, Replacing
<1>6. "target" \notin Asides \ kept
  BY NamesApart
<1> QED BY <1>1, <1>2, <1>4, <1>5, <1>6, RemoveKeeps DEF Inv, Typed

\* DropAside removes a name of this swap only.
LEMMA DropKeeps == ASSUME Inv, NEW t \in Tasks, DropAside(t) PROVE Inv'
<1>1. /\ pc[t] = "drop" /\ Go(t, "hooks") /\ UNCHANGED <<gate, blind>>
      /\ aside' = [aside EXCEPT ![t] = {}]
      /\ Removed(aside[t] \ Locked) \/ file' = file
  BY DEF DropAside, At
<1>2. aside' \in [Tasks -> SUBSET Asides] /\ aside[t] \subseteq Asides
  BY <1>1 DEF Inv, Typed
<1>3. "target" \notin aside[t] \ Locked /\ file'["target"] = file["target"]
  BY <1>1, <1>2, NamesApart DEF Removed
<1>4. Relies("hooks", file')
  BY <1>1, <1>3 DEF Inv, AllRely, Relies
<1>5. "hooks" \in Holding /\ "hooks" \in Attempt /\ pc[t] \in Holding /\ "hooks" \notin Replacing
  BY <1>1 DEF Holding, Attempt, Replacing
<1>6. CASE file' = file
  BY <1>1, <1>2, <1>4, <1>5, <1>6, SameFiles
<1>7. CASE Removed(aside[t] \ Locked)
  BY <1>1, <1>2, <1>3, <1>4, <1>5, <1>7, RemoveKeeps
<1> QED BY <1>1, <1>6, <1>7

\* What a rename does to the files.
LEMMA RenameMoves ==
  ASSUME Inv, NEW a \in Names, NEW b \in Names, a # b, Rename(a, b)
  PROVE  /\ file' \in [Names -> {"none", "part"} \cup Complete]
         /\ file'[a] = "none" /\ file'[b] = file[a]
         /\ \A n \in Names \ {a, b} : file'[n] = file[n]
BY DEF Rename, Inv, Typed

\* Task t, which replaces the binary, goes to q, where it relies on the files
\* as they are then.
LEMMA MoveKeeps ==
  ASSUME Inv, NEW t \in Tasks, NEW q \in Waits \cup Attempt, Go(t, q), pc[t] \in Replacing, q # "spawn",
         \/ q \in Holding /\ gate' = gate
         \/ q \notin Holding /\ gate' \in {gate, gate \ {t}},
         file' \in [Names -> {"none", "part"} \cup Complete], Whole(file'), Relies(q, file'),
         aside' \in [Tasks -> SUBSET Asides], blind' = blind
  PROVE  Inv'
<1>1. pc[t] \in Holding
  BY DEF Replacing, Holding, Attempt
<1>2. AllRely' /\ StartersApart'
  BY <1>1, RelyKeeps, StartersKeep
<1> QED BY <1>1, <1>2, GateKeeps DEF Inv, Typed

\* The attempt ends, and files were renamed.
LEMMA EndsMoved ==
  ASSUME Inv, NEW t \in Tasks, Ends(t, "user"), pc[t] \in Replacing,
         file' \in [Names -> {"none", "part"} \cup Complete], Whole(file')
  PROVE  Inv'
<1>1. /\ Go(t, "user") /\ gate' = gate \ {t} /\ blind' = blind
      /\ aside' = [aside EXCEPT ![t] = {}]
  BY DEF Ends
<1>2. aside' \in [Tasks -> SUBSET Asides]
  BY <1>1 DEF Inv, Typed
<1>3. Relies("user", file') /\ "user" \in Waits /\ "user" \notin Holding
  BY DEF Relies, Waits, Holding, Attempt
<1> QED BY <1>1, <1>2, <1>3, MoveKeeps

\* MoveAside: the target is free then, and the upload as it was.
LEMMA AsideKeeps == ASSUME Inv, NEW t \in Tasks, MoveAside(t) PROVE Inv'
<1>1. CASE SwapFails(t, "aside")
  BY <1>1, FailKeeps
<1>2. CASE ~SwapFails(t, "aside")
  <2>1. /\ pc[t] = "aside" /\ blind' = blind /\ pc[t] \in Replacing /\ pc[t] \in Holding
        /\ "place" \in Holding /\ "place" \in Attempt
    BY <1>2 DEF MoveAside, At, Ends, Holding, Attempt, Replacing
  <2>2. file["upload"] = "new"
    BY <2>1 DEF Inv, AllRely, Relies
  <2>3. CASE file["target"] = "none"
    <3>1. UNCHANGED <<gate, aside, file>> /\ Go(t, "place") /\ Relies("place", file)
      BY <1>2, <2>2, <2>3 DEF MoveAside, Relies
    <3> QED BY <2>1, <3>1, SameFiles DEF Inv, Typed
  <2>4. CASE file["target"] # "none"
    <3>1. PICK n \in Asides :
            /\ Rename("target", n)
            /\ \/ Go(t, "place") /\ aside' = [aside EXCEPT ![t] = {n}] /\ gate' = gate
               \/ Ends(t, "user")
      BY <1>2, <2>4 DEF MoveAside
    <3>2. /\ file' \in [Names -> {"none", "part"} \cup Complete]
          /\ file'["target"] = "none" /\ file'[n] = file["target"]
          /\ \A k \in Names \ {"target", n} : file'[k] = file[k]
      BY <3>1, RenameMoves, NamesApart
    <3>3. Whole(file') /\ Relies("place", file')
      BY <2>2, <3>2, NamesApart DEF Inv, Whole, Relies
    <3>4. CASE Go(t, "place") /\ aside' = [aside EXCEPT ![t] = {n}] /\ gate' = gate
      <4>1. aside' \in [Tasks -> SUBSET Asides]
        BY <3>4 DEF Inv, Typed
      <4> QED BY <2>1, <3>2, <3>3, <3>4, <4>1, MoveKeeps
    <3>5. CASE Ends(t, "user")
      BY <2>1, <3>2, <3>3, <3>5, EndsMoved
    <3> QED BY <3>1, <3>4, <3>5
  <2> QED BY <2>3, <2>4
<1> QED BY <1>1, <1>2

\* Place: the complete upload becomes the target, or nothing is done.
LEMMA PlaceKeeps == ASSUME Inv, NEW t \in Tasks, Place(t) PROVE Inv'
<1>1. pc[t] = "place" /\ UNCHANGED <<gate, aside, blind>> /\ pc[t] \in Holding /\ pc[t] \in Replacing
  BY DEF Place, Request, At, Holding, Attempt, Replacing
<1>2. file["target"] = "none" /\ file["upload"] = "new"
  BY <1>1 DEF Inv, AllRely, Relies
<1>3. CASE Go(t, "restore") /\ file' = file
  <2>1. Relies("restore", file) /\ "restore" \in Holding
    BY <1>2 DEF Relies, Holding, Attempt
  <2> QED BY <1>1, <1>3, <2>1, SameFiles DEF Inv, Typed, Holding
<1>4. CASE (Go(t, "drop") \/ Go(t, "restore")) /\ Rename("upload", "target")
  <2>1. /\ file' \in [Names -> {"none", "part"} \cup Complete]
        /\ file'["upload"] = "none" /\ file'["target"] = "new"
        /\ \A k \in Names \ {"upload", "target"} : file'[k] = file[k]
    BY <1>2, <1>4, RenameMoves, NamesApart
  <2>2. Whole(file')
    BY <2>1 DEF Inv, Whole
  <2>3. PICK q \in {"drop", "restore"} : Go(t, q)
    BY <1>4
  <2>4. Relies(q, file') /\ q \in Holding /\ q \in Attempt /\ q # "spawn"
    BY <2>1, <2>3 DEF Relies, Holding, Attempt
  <2>5. aside' \in [Tasks -> SUBSET Asides]
    BY <1>1 DEF Inv, Typed
  <2> QED BY <1>1, <2>1, <2>2, <2>3, <2>4, <2>5, MoveKeeps
<1> QED BY <1>3, <1>4 DEF Place, Request

\* Restore: what was moved aside is complete.
LEMMA RestoreKeeps == ASSUME Inv, NEW t \in Tasks, Restore(t) PROVE Inv'
<1>1. CASE SwapFails(t, "restore")
  BY <1>1, FailKeeps
<1>2. CASE pc[t] = "restore" /\ Ends(t, "user") /\ file' = file
  BY <1>2, EndKeeps DEF Waits
<1>3. CASE pc[t] = "restore" /\ Ends(t, "user") /\ \E n \in aside[t] : Rename(n, "target")
  <2>1. pc[t] \in Replacing
    BY <1>3 DEF Replacing
  <2>2. PICK n \in Asides : Rename(n, "target")
    BY <1>3 DEF Inv, Typed
  <2>3. /\ file' \in [Names -> {"none", "part"} \cup Complete]
        /\ file'[n] = "none" /\ file'["target"] = file[n]
        /\ \A k \in Names \ {n, "target"} : file'[k] = file[k]
    BY <2>2, RenameMoves, NamesApart
  <2>4. Whole(file')
    BY <2>3, NamesApart DEF Inv, Whole
  <2> QED BY <1>3, <2>1, <2>3, <2>4, EndsMoved
<1> QED BY <1>1, <1>2, <1>3 DEF Restore, At

\* Hooks gives the gate back; the target stays the app's, since whoever
\* replaces it holds the gate.
LEMMA OpenKeeps ==
  ASSUME Inv, NEW t \in Tasks, Hooks(t) \/ Spawn(t) \/ LinkLost(t) \/ Retry(t)
  PROVE  Inv'
<1>1. CASE Closed(t, "hooks") \/ Closed(t, "spawn")
  BY <1>1, FailKeeps
<1>2. CASE Request(t, "hooks", "spawn") /\ gate' = gate \ {t} /\ UNCHANGED <<aside, file, blind>>
  <2>1. Go(t, "spawn") /\ Relies("spawn", file) /\ pc[t] = "hooks" /\ file["target"] = "new"
    BY <1>2 DEF Request, At, Inv, AllRely, Relies
  <2>2. \A u \in Tasks : pc[u] \notin Replacing
    BY <2>1 DEF Inv, OneHolds, Replacing, Holding, Attempt
  <2>3. pc'[t] = "spawn" /\ \A u \in Tasks \ {t} : pc'[u] = pc[u]
    BY <2>1 DEF Go, Inv, Typed
  <2>4. StartersApart' /\ blind' \subseteq Tasks
    BY <1>2, <2>1, <2>2, <2>3 DEF StartersApart, Replacing, Inv, Typed
  <2> QED BY <1>2, <2>1, <2>4, SameFiles DEF Inv, Typed, Holding, Attempt
<1>3. CASE (Request(t, "spawn", "up") \/ Request(t, "spawn", "idle")) /\ UNCHANGED <<gate, aside, file, blind>>
  <2>1. PICK q \in {"up", "idle"} : Go(t, q)
    BY <1>3 DEF Request
  <2> QED BY <1>3, <2>1, SameFiles DEF Relies, Inv, Typed, Holding, Attempt, Waits, Replacing
<1>4. CASE LinkLost(t) \/ Retry(t)
  BY <1>4, SameFiles DEF LinkLost, Retry, Relies, Inv, Typed, Holding, Attempt, Waits, Replacing
<1> QED BY <1>1, <1>2, <1>3, <1>4 DEF Hooks, Spawn

\* Nothing of it changes.
LEMMA NothingMoves == ASSUME Inv, UNCHANGED <<gate, pc, aside, file, blind>> PROVE Inv'
BY DEF Inv, Typed, HoldersHaveGate, OneHolds, AllRely, StartersApart, Whole

\* The invariant is kept by every step.
LEMMA StepKeeps == Inv /\ [Next]_vars => Inv'
<1> SUFFICES ASSUME Inv, [Next]_vars PROVE Inv'
  OBVIOUS
<1>1. CASE UNCHANGED vars \/ AddAgain
  BY <1>1, NothingMoves DEF vars, AddAgain
<1>2. ASSUME NEW t \in Tasks, Step(t) PROVE Inv'
  BY <1>2, LockKeeps, HashKeeps, StopKeeps, WriteKeeps, CheckKeeps, CleanKeeps, AsideKeeps,
     PlaceKeeps, RestoreKeeps, DropKeeps, OpenKeeps DEF Step
<1>3. ASSUME NEW t \in Tasks, Drop(t) PROVE Inv'
  BY <1>3, NothingMoves DEF Drop
<1>4. ASSUME NEW t \in Tasks, Retry(t) PROVE Inv'
  BY <1>4, OpenKeeps
<1>5. ASSUME NEW t \in Tasks, Stops(t) PROVE Inv'
  BY <1>5, EndKeeps DEF Stops, Waits
<1> QED BY <1>1, <1>2, <1>3, <1>4, <1>5 DEF Next

-----------------------------------------------------------------------------
(* The theorems.                                                           *)

\* The files are as every task relies on, in every reachable state.
THEOREM Invariant == Spec => []Inv
BY Initially, StepKeeps, PTL DEF Spec

\* What is installed is complete, however many tasks deploy and wherever
\* their connections drop (gate, upload, swap_in).
THEOREM CompleteHolds == Spec => []InstalledIsComplete
<1>1. Inv => InstalledIsComplete
  BY NamesApart DEF Inv, Whole, InstalledIsComplete
<1> QED BY <1>1, Invariant, PTL

\* serve is started from the app's own binary, also after the gate was given
\* back (open_ssh), unless another task began then to replace it for want of
\* its hash.
THEOREM OwnProbeHolds == Spec => []StartsOwnProbe
<1>1. Inv => StartsOwnProbe
  BY DEF Inv, AllRely, Relies, StartersApart, StartsOwnProbe
<1> QED BY <1>1, Invariant, PTL

-----------------------------------------------------------------------------
(* Types, and what serve runs from.                                        *)

Present(f) == {n \in Names : f[n] # "none"}

\* What Inv leaves open of the type.
Rest ==
  /\ host \in Tasks /\ conn \in [Tasks -> BOOLEAN] /\ faults \in 0 .. MaxFaults
  /\ running \subseteq Present(file)

\* The parts make the whole.
LEMMA TypeParts == Inv /\ Rest => TypeOK
BY DEF Inv, Typed, Rest, TypeOK, Present

\* A file that is renamed to a free name goes on running there.
LEMMA RenameRuns ==
  ASSUME Inv, Rest, NEW a \in Names, NEW b \in Names, a # b, file[b] = "none", Rename(a, b)
  PROVE  running' \subseteq Present(file')
<1>1. file \in [Names -> {"none", "part"} \cup Complete]
  BY DEF Inv, Typed
<1>2. file' = [file EXCEPT ![a] = "none", ![b] = file[a]]
  BY DEF Rename
<1>3. file'[b] = file[a] /\ file'[a] = "none" /\ \A n \in Names \ {a, b} : file'[n] = file[n]
  BY <1>1, <1>2
<1>4. \A n \in running : n \in Names /\ file[n] # "none" /\ n # b
  BY DEF Rest, Present
<1>5. CASE a \in running
  <2>1. running' = (running \ {a}) \cup {b} /\ file[a] # "none"
    BY <1>4, <1>5 DEF Rename
  <2> QED BY <1>3, <1>4, <2>1 DEF Present
<1>6. CASE a \notin running
  <2>1. running' = running
    BY <1>6 DEF Rename
  <2> QED BY <1>3, <1>4, <1>6, <2>1 DEF Present
<1> QED BY <1>5, <1>6

\* What is removed runs no more.
LEMMA RemovedRuns ==
  ASSUME Rest, NEW S, Removed(S)
  PROVE  running' \subseteq Present(file')
BY DEF Rest, Present, Removed

\* Files that are there stay, and fewer run.
LEMMA StillRuns ==
  ASSUME Rest, running' \subseteq running, \A n \in Names : file[n] # "none" => file'[n] # "none"
  PROVE  running' \subseteq Present(file')
BY DEF Rest, Present

\* serve is started if there is a binary; who renames a file into place finds
\* no other there (Relies).
LEMMA RunsStep ==
  ASSUME Inv, Rest, NEW t \in Tasks, Step(t) \/ Drop(t) \/ Retry(t) \/ Stops(t)
  PROVE  running' \subseteq Present(file')
<1>1. /\ file \in [Names -> {"none", "part"} \cup Complete] /\ aside[t] \subseteq Asides
      /\ Relies(pc[t], file)
  BY DEF Inv, Typed, AllRely
<1>2. CASE file' = file /\ running' \subseteq running
  BY <1>2, StillRuns
<1>3. CASE \E S : Removed(S)
  BY <1>3, RemovedRuns
<1>4. CASE Lock(t) \/ Hash(t) \/ StopServe(t) \/ Hooks(t) \/ LinkLost(t) \/ Drop(t) \/ Retry(t) \/ Stops(t)
  <2>1. file' = file /\ running' \subseteq running
    BY <1>4 DEF Lock, Hash, StopServe, Hooks, LinkLost, Drop, Retry, Stops, Closed, Refused
  <2> QED BY <1>2, <2>1
<1>5. CASE Create(t) \/ Write(t)
  <2>1. running' = running /\ \A n \in Names : file[n] # "none" => file'[n] # "none"
    BY <1>1, <1>5, NamesApart DEF Create, Write, Closed, Refused
  <2> QED BY <2>1, StillRuns
<1>6. CASE Check(t) \/ Clean(t) \/ DropAside(t)
  <2>1. (file' = file /\ running' = running) \/ (\E S : Removed(S))
    BY <1>6 DEF Check, Clean, DropAside, Closed
  <2> QED BY <1>2, <1>3, <2>1
<1>7. CASE MoveAside(t)
  <2>1. \/ file' = file /\ running' = running
        \/ \E n \in Asides : file[n] = "none" /\ Rename("target", n)
    BY <1>7 DEF MoveAside, SwapFails
  <2>2. ASSUME NEW n \in Asides, file[n] = "none", Rename("target", n)
        PROVE  running' \subseteq Present(file')
    BY <2>2, RenameRuns, NamesApart
  <2> QED BY <1>2, <2>1, <2>2
<1>8. CASE Place(t)
  <2>1. \/ file' = file /\ running' = running
        \/ file["target"] = "none" /\ Rename("upload", "target")
    BY <1>1, <1>8 DEF Place, Request, At, Relies
  <2>2. ASSUME file["target"] = "none", Rename("upload", "target")
        PROVE  running' \subseteq Present(file')
    BY <2>2, RenameRuns, NamesApart
  <2> QED BY <1>2, <2>1, <2>2
<1>9. CASE Restore(t)
  <2>1. \/ file' = file /\ running' = running
        \/ \E n \in aside[t] : file["target"] = "none" /\ Rename(n, "target")
    BY <1>1, <1>9 DEF Restore, SwapFails, At, Relies
  <2>2. ASSUME NEW n \in Asides, file["target"] = "none", Rename(n, "target")
        PROVE  running' \subseteq Present(file')
    BY <2>2, RenameRuns, NamesApart
  <2> QED BY <1>1, <1>2, <2>1, <2>2
<1>10. CASE Spawn(t)
  <2>1. file' = file /\ (running' = running \/ (running' = running \cup {"target"} /\ file["target"] # "none"))
    BY <1>10 DEF Spawn, Closed
  <2> QED BY <2>1, NamesApart DEF Rest, Present
<1> QED BY <1>4, <1>5, <1>6, <1>7, <1>8, <1>9, <1>10 DEF Step

\* The host, the connections and the faults.
LEMMA RestStep == Inv /\ Rest /\ [Next]_vars => Rest'
<1> SUFFICES ASSUME Inv, Rest, [Next]_vars PROVE Rest'
  OBVIOUS
<1>1. CASE UNCHANGED vars
  BY <1>1 DEF vars, Rest
<1>2. CASE AddAgain
  BY <1>2, DeployAssumption DEF AddAgain, Rest, Tasks
<1>3. ASSUME NEW t \in Tasks, Step(t) \/ Drop(t) \/ Retry(t) \/ Stops(t) PROVE Rest'
  <2>1. host' = host
    BY <1>3 DEF Step, Lock, Hash, StopServe, Create, Write, Check, Clean, MoveAside, Place, Restore,
                DropAside, Hooks, Spawn, LinkLost, Drop, Retry, Stops, Closed, Refused, SwapFails, Ends
  <2>2. conn' \in [Tasks -> BOOLEAN]
    BY <1>3 DEF Rest, Step, Lock, Hash, StopServe, Create, Write, Check, Clean, MoveAside, Place, Restore,
                DropAside, Hooks, Spawn, LinkLost, Drop, Retry, Stops, Closed, Refused, SwapFails, Ends
  <2>3. faults' \in {faults, faults + 1} /\ (faults' # faults => faults < MaxFaults)
    BY <1>3 DEF Step, Lock, Hash, StopServe, Create, Write, Check, Clean, MoveAside, Place, Restore,
                DropAside, Hooks, Spawn, LinkLost, Drop, Retry, Stops, Closed, Refused, SwapFails, Fault
  <2>4. faults' \in 0 .. MaxFaults
    BY <2>3, DeployAssumption DEF Rest
  <2> QED BY <1>3, <2>1, <2>2, <2>4, RunsStep DEF Rest
<1> QED BY <1>1, <1>2, <1>3 DEF Next

\* At first serve runs from files that are there.
LEMMA RestInitially == Init => Rest
<1> SUFFICES ASSUME Init PROVE Rest
  OBVIOUS
<1>1. PICK there \in SUBSET {"target", "old"} :
        /\ file = [n \in Names |-> IF n \in there THEN "old" ELSE "none"]
        /\ running \in SUBSET there
  BY DEF Init
<1>2. there \subseteq Names
  BY DEF Names, Asides
<1>3. running \subseteq Present(file)
  BY <1>1, <1>2 DEF Present
<1> QED BY <1>3, DeployAssumption DEF Init, Rest, Tasks

\* The state stays well typed, whatever the tasks, faults and locks are; in
\* particular every serve process runs from a file that is still there: no
\* rename of swap_in replaces an executable that is in use.
THEOREM TypeCorrect == Spec => []TypeOK
<1>1. Spec => []Rest
  BY Invariant, RestInitially, RestStep, PTL DEF Spec
<1> QED BY <1>1, Invariant, TypeParts, PTL
=============================================================================
