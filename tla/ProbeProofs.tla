---------------------------- MODULE ProbeProofs ----------------------------
(***************************************************************************)
(* Proofs about the commands of mai-probe, for any numbers of processes,   *)
(* events and changes.                                                     *)
(*                                                                         *)
(* serve and stop (Serve): as long as no two starts overlap and the killed *)
(* die in time, there is one serve and the pid file names it.              *)
(*                                                                         *)
(* install-hooks and uninstall-hooks (Install): what others change in the  *)
(* agent's file survives in it or in a backup.  A change is at risk only   *)
(* once some process is about to rename, and then it is in a backup        *)
(* already; a process makes its backup once, so none is ever overwritten.  *)
(*                                                                         *)
(* What the edits do to the hooks: strip_ours drops ours and keeps the     *)
(* order of the others, whatever the groups are (by induction on lists);   *)
(* and what a process is about to write was right when it was computed,    *)
(* and is so still, since no step changes the hooks of others.             *)
(***************************************************************************)
EXTENDS Serve, Install, SequenceTheorems, WellFoundedInduction, TLAPS

\* Recorded, and not dead yet.
Holding == Serving \cup {"forget", "remove"}

\* Why it is so: the file names who holds a record; who has read the file
\* knows the holder; who is about to record has seen it die.
Clear ==
  \A p \in Pids : At(p) \in Holding =>
    /\ record = p
    /\ \A q \in Pids : At(q) \in {"check", "wait"} => proc[q].saw = p
    /\ \A q \in Pids : At(q) # "record"

\* Who checks a pid has read one.
Named == \A q \in Pids : At(q) \in {"check", "wait"} => proc[q].saw # 0

Inv == TypeOK /\ Named /\ (~muddled => Clear)

USE ServeAssumption

\* A bare process is well typed.
LEMMA BareIsProcess == \A b \in Places : Bare(b) \in Process /\ Bare(b).at = b
<1>1. 0 \in 0 .. MaxLines BY DEF ServeAssumption
<1> QED BY <1>1 DEF Process, Bare

\* No process has started.
LEMMA InitInv == Init => Inv
<1>1. "none" \in Places /\ "none" \notin Holding
  BY DEF Places, Holding, Serving, Busy
<1>2. Bare("none") \in Process /\ Bare("none").at = "none" BY <1>1, BareIsProcess
<1> QED BY <1>1, <1>2 DEF Init, Inv, TypeOK, Named, Clear, At

\* What a step of one process leaves of the others, and of itself.
LEMMA ToLemma ==
  ASSUME TypeOK, NEW p \in Pids, NEW s \in Process, To(p, s)
  PROVE  /\ proc' \in [Pids -> Process]
         /\ \A q \in Pids \ {p} : proc'[q] = proc[q]
         /\ proc'[p].at = s.at
         /\ s.at \in {"check", "wait"} => proc'[p].saw = s.saw
<1>1. s.at \in Places BY DEF Process
<1>2. Bare(s.at) \in Process /\ Bare(s.at).at = s.at BY <1>1, BareIsProcess
<1> QED BY <1>2 DEF To, TypeOK

\* The same for a process that goes from a to b.
LEMMA GoesLemma ==
  ASSUME TypeOK, NEW p \in Pids, NEW a, NEW b \in Places, Goes(p, a, b)
  PROVE  /\ At(p) = a /\ proc[p].cmd = "no"
         /\ proc' \in [Pids -> Process]
         /\ \A q \in Pids \ {p} : proc'[q] = proc[q]
         /\ proc'[p].at = b
         /\ b \in {"check", "wait"} => proc'[p].saw = proc[p].saw
<1>1. PICK c \in {"no", "runs"} : To(p, [proc[p] EXCEPT !.at = b, !.cmd = c])
  BY DEF Goes
<1>2. proc[p] \in Process BY DEF TypeOK
<1>3. [proc[p] EXCEPT !.at = b, !.cmd = c] \in Process BY <1>2 DEF Process
<1>4. /\ [proc[p] EXCEPT !.at = b, !.cmd = c].at = b
      /\ [proc[p] EXCEPT !.at = b, !.cmd = c].saw = proc[p].saw
  BY <1>2 DEF Process
<1>5. At(p) = a /\ proc[p].cmd = "no" BY DEF Goes
<1> QED BY <1>1, <1>3, <1>4, <1>5, ToLemma

\* A step by which p does not begin to hold, to know or to be about to.
LEMMA QuietStep ==
  ASSUME Inv, NEW p \in Pids, proc' \in [Pids -> Process],
         \A q \in Pids \ {p} : proc'[q] = proc[q],
         proc'[p].at \in Holding => At(p) \in Holding,
         proc'[p].at \in {"check", "wait"} =>
            At(p) \in {"check", "wait"} /\ proc'[p].saw = proc[p].saw,
         proc'[p].at = "record" => At(p) = "record",
         doomed' \subseteq Pids, UNCHANGED <<record, muddled>>
  PROVE  Inv'
<1>1. TypeOK' BY DEF Inv, TypeOK
<1>2. ASSUME ~muddled' PROVE Clear'
  <2>1. Clear BY <1>2 DEF Inv
  <2> QED BY <2>1 DEF Clear, At
<1>3. Named' BY DEF Inv, Named, At
<1> QED BY <1>1, <1>2, <1>3 DEF Inv

\* The named places are places, and which of them hold the record.
LEMMA PlacesLemma ==
  /\ Holding \subseteq Places
  /\ {"read", "check", "wait", "record", "setup", "recv", "handle", "tick", "send", "forget",
      "remove", "dead"} \subseteq Places
  /\ {"setup", "recv", "handle", "tick", "send", "forget", "remove"} = Holding
  /\ Serving \subseteq Holding
BY DEF Places, Holding, Serving, Busy, Stopping

\* A step inside the same place.
LEMMA StayStep ==
  ASSUME Inv, NEW p \in Pids, NEW s \in Process, s.at = At(p), s.saw = proc[p].saw, To(p, s),
         UNCHANGED <<doomed, record, muddled>>
  PROVE  Inv'
<1>1. TypeOK BY DEF Inv
<1>2. doomed' \subseteq Pids BY <1>1 DEF TypeOK
<1> QED BY <1>1, <1>2, ToLemma, QuietStep

\* A step from one place to another at which nothing new is held.
LEMMA MoveStep ==
  ASSUME Inv, NEW p \in Pids, NEW a, NEW b \in Places, Goes(p, a, b),
         b \in Holding => a \in Holding,
         b \in {"check", "wait"} => a \in {"check", "wait"}, b # "record",
         doomed' \subseteq Pids, UNCHANGED <<record, muddled>>
  PROVE  Inv'
<1>1. TypeOK BY DEF Inv
<1> QED BY <1>1, GoesLemma, QuietStep

\* Somebody is about to record, and nobody holds a record.
LEMMA ClearedStep ==
  ASSUME Inv, NEW p \in Pids, proc' \in [Pids -> Process],
         \A q \in Pids \ {p} : proc'[q] = proc[q], proc'[p].at = "record",
         ~muddled' => ~muddled /\ \A q \in Pids : At(q) \notin Holding,
         muddled' \in BOOLEAN, doomed' \subseteq Pids, UNCHANGED record
  PROVE  Inv'
<1>1. "record" \notin Holding BY DEF Holding, Serving, Busy
<1> QED BY <1>1 DEF Inv, TypeOK, Named, Clear, At

\* Reading the pid file changes no process but the reader, which does not hold the record yet.
LEMMA ReadStep ==
  ASSUME Inv, NEW p \in Pids, read_pid(p)
  PROVE  Inv'
<1>1. TypeOK BY DEF Inv
<1>2. proc[p] \in Process /\ record \in Pids \cup {0} /\ doomed \subseteq Pids /\ muddled \in BOOLEAN
  BY <1>1 DEF TypeOK
<1> DEFINE b == IF record = 0 THEN "record" ELSE "check"
           s == [proc[p] EXCEPT !.at = b, !.saw = record]
<1>3. s \in Process /\ s.at = b /\ s.saw = record
  <2>1. b \in Places BY PlacesLemma
  <2> QED BY <1>2, <2>1 DEF Process
<1>4. To(p, s) /\ UNCHANGED <<doomed, record, muddled>> BY DEF read_pid
<1> HIDE DEF s
<1>5. /\ proc' \in [Pids -> Process] /\ \A q \in Pids \ {p} : proc'[q] = proc[q]
      /\ proc'[p].at = b /\ (b = "check" => proc'[p].saw = record)
  BY <1>1, <1>3, <1>4, ToLemma
<1>6. CASE record = 0
  <2>1. ~muddled => \A q \in Pids : At(q) \notin Holding
    BY <1>6 DEF Inv, Clear, ServeAssumption
  <2> QED BY <1>2, <1>4, <1>5, <1>6, <2>1, ClearedStep
<1>7. CASE record # 0
  <2>1. "check" \notin Holding BY DEF Holding, Serving, Busy
  <2> QED BY <1>1, <1>2, <1>4, <1>5, <1>7, <2>1 DEF Inv, TypeOK, Named, Clear, At
<1> QED BY <1>6, <1>7

\* Sending SIGTERM, or finding no probe to send it to, leaves the record alone.
LEMMA KillStep ==
  ASSUME Inv, NEW p \in Pids, Kill(p)
  PROVE  Inv'
<1>1. TypeOK /\ doomed \subseteq Pids /\ muddled \in BOOLEAN BY DEF Inv, TypeOK
<1>2. UNCHANGED <<record, muddled>> BY DEF Kill
<1>3. CASE is_probe(proc[p].saw) /\ proc[p].saw \in Pids
  <2>1. Goes(p, "check", "wait") /\ doomed' \subseteq Pids BY <1>1, <1>3 DEF Kill
  <2>2. "wait" \in Places /\ "wait" \notin Holding
    BY PlacesLemma DEF Holding, Serving, Busy
  <2> QED BY <1>2, <2>1, <2>2, MoveStep
<1>4. CASE ~is_probe(proc[p].saw)
  <2>1. Goes(p, "check", "record") /\ doomed' = doomed BY <1>4 DEF Kill
  <2>2. At(p) = "check" /\ "record" \in Places BY PlacesLemma DEF Kill
  <2>3. ~muddled => \A q \in Pids : At(q) \notin Holding
    <3>1. \A q \in Pids : At(q) \in Holding => is_probe(q)
      BY DEF Holding, Serving, Busy, is_probe
    <3> QED BY <1>4, <2>2, <3>1 DEF Inv, Clear
  <2> QED BY <1>1, <1>2, <2>1, <2>2, <2>3, GoesLemma, ClearedStep
<1>5. proc[p].saw \in Pids \cup {0} BY <1>1 DEF TypeOK, Process
<1>6. proc[p].saw # 0 BY DEF Inv, Named, Kill
<1> QED BY <1>3, <1>4, <1>5, <1>6

\* A wait that ends with the probe it saw gone keeps the invariant; one that gives up is muddled.
LEMMA WaitStep ==
  ASSUME Inv, NEW p \in Pids, Wait(p)
  PROVE  Inv'
<1>1. TypeOK /\ doomed \subseteq Pids /\ muddled \in BOOLEAN BY DEF Inv, TypeOK
<1>2. Goes(p, "wait", "record") /\ UNCHANGED <<doomed, record>> BY DEF Wait
<1>3. "record" \in Places BY PlacesLemma
<1>4. At(p) = "wait" BY <1>1, <1>2, <1>3, GoesLemma
<1>5. muddled' \in BOOLEAN BY DEF Wait
<1>6. ~muddled' => ~muddled /\ \A q \in Pids : At(q) \notin Holding
  <2>1. \A q \in Pids : At(q) \in Holding => is_probe(q)
    BY DEF Holding, Serving, Busy, is_probe
  <2>2. ~muddled' => ~muddled /\ ~is_probe(proc[p].saw) BY DEF Wait
  <2> QED BY <1>4, <2>1, <2>2 DEF Inv, Clear
<1> QED BY <1>1, <1>2, <1>3, <1>5, <1>6, GoesLemma, ClearedStep

\* Writing the pid file: unless starts overlap, no other process holds the record.
LEMMA RecordStep ==
  ASSUME Inv, NEW p \in Pids, record_self(p)
  PROVE  Inv'
<1>1. TypeOK /\ doomed \subseteq Pids /\ muddled \in BOOLEAN BY DEF Inv, TypeOK
<1>2. doomed' = doomed BY DEF record_self
<1>3. CASE Goes(p, "record", "setup") /\ record' = p /\ muddled' = (muddled \/ Overlaps(p))
  <2>1. /\ At(p) = "record" /\ proc' \in [Pids -> Process] /\ proc'[p].at = "setup"
        /\ \A q \in Pids \ {p} : proc'[q] = proc[q]
    BY <1>1, <1>3, PlacesLemma, GoesLemma
  <2>2. ASSUME ~muddled' PROVE Clear'
    <3>1. ~muddled /\ \A q \in Pids \ {p} : At(q) \notin {"check", "wait", "record"}
      BY <1>3, <2>2 DEF Overlaps, Stopping
    <3>2. \A q \in Pids : At(q) \notin Holding BY <2>1, <3>1 DEF Inv, Clear
    <3> QED BY <1>3, <2>1, <3>1, <3>2 DEF Clear, At
  <2>3. Named' BY <2>1 DEF Inv, Named, At
  <2>4. TypeOK' BY <1>1, <1>2, <1>3, <2>1 DEF TypeOK
  <2> QED BY <2>2, <2>3, <2>4 DEF Inv
<1>4. CASE Goes(p, "record", "dead") /\ UNCHANGED <<record, muddled>>
  <2>1. "dead" \in Places /\ "dead" \notin Holding
    BY PlacesLemma DEF Holding, Serving, Busy
  <2> QED BY <1>1, <1>2, <1>4, <2>1, MoveStep
<1> QED BY <1>3, <1>4 DEF record_self

\* Removing the pid file: unless starts overlap, the record is still the remover's own.
LEMMA RemoveStep ==
  ASSUME Inv, NEW p \in Pids, ForgetRemoves(p)
  PROVE  Inv'
<1>1. TypeOK /\ doomed' \subseteq Pids /\ muddled' = muddled
  BY DEF Inv, TypeOK, ForgetRemoves
<1>2. "dead" \in Places /\ "dead" \notin Holding /\ "remove" \in Holding
  BY PlacesLemma DEF Holding, Serving, Busy
<1>3. Goes(p, "remove", "dead") /\ record' = 0 BY DEF ForgetRemoves
<1>4. /\ At(p) = "remove" /\ proc' \in [Pids -> Process] /\ proc'[p].at = "dead"
      /\ \A q \in Pids \ {p} : proc'[q] = proc[q]
  BY <1>1, <1>2, <1>3, GoesLemma
<1>5. ASSUME ~muddled' PROVE Clear'
  <2>1. \A q \in Pids : At(q) \in Holding => q = p BY <1>1, <1>2, <1>4, <1>5 DEF Inv, Clear
  <2> QED BY <1>2, <1>4, <2>1 DEF Clear, At
<1>6. TypeOK' /\ Named' BY <1>1, <1>3, <1>4 DEF Inv, TypeOK, Named, At
<1> QED BY <1>5, <1>6 DEF Inv

\* Steps between places of the loop, and out of it.
LEMMA LoopStep ==
  ASSUME Inv, NEW p \in Pids,
         \/ SetUp(p) \/ Send(p) \/ Receive(p) \/ Handled(p) \/ Ticked(p) \/ ForgetReads(p)
  PROVE  Inv'
<1> DEFINE L == {"setup", "recv", "handle", "tick", "send", "forget"}
<1>1. TypeOK /\ UNCHANGED <<record, muddled>> /\ doomed' \subseteq Pids
  BY DEF Inv, TypeOK, SetUp, Send, Receive, Handled, Ticked, ForgetReads
<1>2. ASSUME NEW a \in L, NEW b \in L \cup {"remove", "dead"}, Goes(p, a, b) PROVE Inv'
  <2>1. b \in Places /\ a \in Holding /\ b \notin {"check", "wait", "record"} BY PlacesLemma
  <2> QED BY <1>1, <1>2, <2>1, MoveStep
<1>3. ASSUME NEW a \in {"recv", "handle"}, Takes(p, a) PROVE Inv'
  <2>1. PICK c \in {"no", "runs"} :
          To(p, [proc[p] EXCEPT !.at = "handle", !.lines = @ - 1, !.cmd = c])
    BY <1>3 DEF Takes
  <2>2. proc[p] \in Process /\ At(p) = a /\ proc[p].lines > 0 BY <1>1, <1>3 DEF Takes, TypeOK
  <2> DEFINE s == [proc[p] EXCEPT !.at = "handle", !.lines = @ - 1, !.cmd = c]
  <2>3. s \in Process /\ s.at = "handle"
    <3>1. "handle" \in Places BY PlacesLemma
    <3>2. proc[p].lines - 1 \in 0 .. MaxLines BY <2>2 DEF Process, ServeAssumption
    <3> QED BY <2>2, <3>1, <3>2 DEF Process
  <2> HIDE DEF s
  <2>4. /\ proc' \in [Pids -> Process] /\ proc'[p].at = "handle"
        /\ \A q \in Pids \ {p} : proc'[q] = proc[q]
    BY <1>1, <2>1, <2>3, ToLemma DEF s
  <2>5. a \in Holding BY PlacesLemma
  <2> QED BY <1>1, <2>2, <2>4, <2>5, QuietStep
<1> QED BY <1>2, <1>3 DEF SetUp, Send, Receive, Handled, Ticked, ForgetReads

\* Steps that leave a process where it is.
LEMMA StillStep ==
  ASSUME Inv, NEW p \in Pids,
         \/ Exits(p) \/ Timeout(p) \/ PipesClose(p) \/ ReaderReads(p) \/ ReaderEnds(p) \/ OutStops(p)
  PROVE  Inv'
<1>1. proc[p] \in Process BY DEF Inv, TypeOK
<1>2. UNCHANGED <<doomed, record, muddled>>
  BY DEF Exits, Timeout, PipesClose, Command, ReaderReads, ReaderEnds, OutStops
<1>3. ASSUME NEW c \in {"no", "runs", "join"}, To(p, [proc[p] EXCEPT !.cmd = c]) PROVE Inv'
  <2>1. [proc[p] EXCEPT !.cmd = c] \in Process BY <1>1 DEF Process
  <2>2. /\ [proc[p] EXCEPT !.cmd = c].at = At(p)
        /\ [proc[p] EXCEPT !.cmd = c].saw = proc[p].saw
    BY <1>1 DEF Process, At
  <2> QED BY <1>2, <1>3, <2>1, <2>2, StayStep
<1>4. CASE Exits(p) \/ Timeout(p) \/ PipesClose(p)
  BY <1>3, <1>4 DEF Exits, Timeout, PipesClose, Command
<1>5. CASE ReaderReads(p)
  <2>1. [proc[p] EXCEPT !.lines = @ + 1] \in Process
    <3>1. proc[p].lines + 1 \in 0 .. MaxLines
      BY <1>1, <1>5 DEF ReaderReads, Process, ServeAssumption
    <3> QED BY <1>1, <3>1 DEF Process
  <2>2. /\ [proc[p] EXCEPT !.lines = @ + 1].at = At(p)
        /\ [proc[p] EXCEPT !.lines = @ + 1].saw = proc[p].saw
    BY <1>1 DEF Process, At
  <2> QED BY <1>2, <1>5, <2>1, <2>2, StayStep DEF ReaderReads
<1>6. CASE ReaderEnds(p)
  <2>1. [proc[p] EXCEPT !.input = FALSE] \in Process BY <1>1 DEF Process
  <2>2. /\ [proc[p] EXCEPT !.input = FALSE].at = At(p)
        /\ [proc[p] EXCEPT !.input = FALSE].saw = proc[p].saw
    BY <1>1 DEF Process, At
  <2> QED BY <1>2, <1>6, <2>1, <2>2, StayStep DEF ReaderEnds
<1>7. CASE OutStops(p)
  <2>1. PICK o \in {"stuck", "broken"} : To(p, [proc[p] EXCEPT !.out = o])
    BY <1>7 DEF OutStops
  <2>2. [proc[p] EXCEPT !.out = o] \in Process BY <1>1 DEF Process
  <2>3. /\ [proc[p] EXCEPT !.out = o].at = At(p)
        /\ [proc[p] EXCEPT !.out = o].saw = proc[p].saw
    BY <1>1 DEF Process, At
  <2> QED BY <1>2, <2>1, <2>2, <2>3, StayStep
<1> QED BY <1>4, <1>5, <1>6, <1>7

\* A death takes a process out of the holders and leaves the pid file.
LEMMA DieStep ==
  ASSUME Inv, NEW p \in Pids, Dies(p)
  PROVE  Inv'
<1>1. TypeOK /\ proc[p] \in Process BY DEF Inv, TypeOK
<1>2. "dead" \in Places /\ "dead" \notin Holding BY PlacesLemma DEF Holding, Serving, Busy
<1> DEFINE s == [proc[p] EXCEPT !.at = "dead"]
<1>3. s \in Process /\ s.at = "dead" BY <1>1, <1>2 DEF Process
<1>4. To(p, s) /\ doomed' \subseteq Pids /\ UNCHANGED <<record, muddled>>
  BY <1>1 DEF Dies, TypeOK
<1> HIDE DEF s
<1>5. /\ proc' \in [Pids -> Process] /\ proc'[p].at = "dead"
      /\ \A q \in Pids \ {p} : proc'[q] = proc[q]
  BY <1>1, <1>3, <1>4, ToLemma
<1> QED BY <1>2, <1>4, <1>5, QuietStep

\* Every step of a serve process keeps the invariant.
LEMMA InvStep == Inv /\ [Next]_vars => Inv'
<1> SUFFICES ASSUME Inv, [Next]_vars PROVE Inv' OBVIOUS
<1>1. ASSUME NEW p \in Pids, StartServe(p) PROVE Inv'
  <2>1. "read" \in Places /\ "read" \notin Holding
    BY PlacesLemma DEF Holding, Serving, Busy
  <2>2. doomed' \subseteq Pids BY <1>1 DEF Inv, TypeOK, StartServe
  <2> QED BY <1>1, <2>1, <2>2, MoveStep DEF StartServe
<1>2. ASSUME NEW p \in Pids, Steps(p) PROVE Inv'
  BY <1>2, ReadStep, KillStep, WaitStep, RecordStep, RemoveStep, LoopStep, StillStep DEF Steps
<1>3. ASSUME NEW p \in Pids, Exits(p) \/ PipesClose(p) \/ ReaderReads(p) \/ ReaderEnds(p) \/ OutStops(p)
      PROVE  Inv'
  BY <1>3, StillStep
<1>4. ASSUME NEW p \in Pids, Dies(p) PROVE Inv' BY <1>4, DieStep
<1>5. CASE StopKills
  BY <1>5 DEF StopKills, Inv, TypeOK, Named, Clear, At
<1>6. CASE UNCHANGED vars
  BY <1>6 DEF vars, Inv, TypeOK, Named, Clear, At
<1> QED BY <1>1, <1>2, <1>3, <1>4, <1>5, <1>6 DEF Next

\* The file, its readers and the processes agree as Inv says, whatever the
\* processes, the user and the system do.
THEOREM Invariant == Spec => []Inv
BY InitInv, InvStep, PTL DEF Spec

\* The state of Serve keeps its type, for any number of processes.
THEOREM TypeCorrect == Spec => []TypeOK
<1>1. Inv => TypeOK BY DEF Inv
<1> QED BY <1>1, Invariant, PTL

\* One serve per client (stop_recorded before record_self), unless two starts
\* overlapped or a killed process outlived STOP_WAIT.
THEOREM OneServeHolds == Spec => []OneServe
<1>1. Inv => OneServe BY PlacesLemma DEF Inv, OneServe, Clear
<1> QED BY <1>1, Invariant, PTL

\* The pid file names the serve that runs (record_self, forget_self).
THEOREM RecordHolds == Spec => []RecordedWhileServing
<1>1. Inv => RecordedWhileServing BY PlacesLemma DEF Inv, RecordedWhileServing, Clear
<1> QED BY <1>1, Invariant, PTL

-----------------------------------------------------------------------------
(* install-hooks and uninstall-hooks.                                      *)

\* Documents are records; at, after, bak and tmp belong to the processes.
FileTyped ==
  /\ at \in [Procs -> {"idle", "read", "backup", "tmp", "rename"} \cup Ends]
  /\ DOMAIN after = Procs /\ DOMAIN bak = Procs /\ DOMAIN tmp = Procs
  /\ "rest" \in DOMAIN file.doc
  /\ \A p \in Procs : "rest" \in DOMAIN after[p] /\ "rest" \in DOMAIN tmp[p].doc

InBackup(e) == \E p \in Procs : e \in bak[p].doc.rest
Replacing == \E p \in Procs : at[p] \in {"tmp", "rename"}

BackedUp == Replacing => \A e \in made \ late : InBackup(e)
NoBackupYet == \A p \in Procs : at[p] \in {"idle", "read", "backup"} => bak[p].doc.rest = {}

FileInv == FileTyped /\ BackedUp /\ NoBackupYet /\ EditsKept

-----------------------------------------------------------------------------
\* No change has been made, and there is no backup.
LEMMA FileInit == InstallInit => FileInv
<1> SUFFICES ASSUME InstallInit PROVE FileInv
  OBVIOUS
<1>1. "rest" \in DOMAIN file.doc
  BY InstallAssumption DEF InstallInit, File, Doc
<1>2. FileTyped
  BY <1>1 DEF InstallInit, FileTyped, Missing, Empty
<1>3. BackedUp /\ NoBackupYet /\ EditsKept
  BY DEF InstallInit, BackedUp, NoBackupYet, EditsKept, Replacing, Missing, Empty
<1> QED BY <1>2, <1>3 DEF FileInv

\* A step of a process that leaves the file and the backups alone, and does
\* not begin to replace the file, endangers nothing.
LEMMA ProcessMoves ==
  ASSUME FileInv, NEW p \in Procs,
         NEW q \in {"read", "backup", "rename"} \cup Ends,
         at' = [at EXCEPT ![p] = q],
         q = "rename" => at[p] = "tmp",
         q \in {"read", "backup"} => at[p] \in {"idle", "read"},
         UNCHANGED <<file, bak, made, late>>
  PROVE  BackedUp' /\ NoBackupYet' /\ EditsKept'
<1>1. Replacing' => Replacing
  BY DEF FileInv, FileTyped, Replacing, Ends
<1>2. BackedUp'
  BY <1>1 DEF FileInv, BackedUp, InBackup
<1>3. NoBackupYet'
  BY DEF FileInv, FileTyped, NoBackupYet, Ends
<1> QED BY <1>2, <1>3 DEF FileInv, EditsKept

\* Editing keeps the parts of a document.
LEMMA EditsKeepParts ==
  ASSUME NEW d, "rest" \in DOMAIN d
  PROVE  "rest" \in DOMAIN merge_hooks(d) /\ "rest" \in DOMAIN remove_hooks(d)
BY DEF merge_hooks, remove_hooks

\* Starting, reading and editing.
LEMMA EditKeeps ==
  ASSUME FileInv, NEW p \in Procs, Edit(p) \/ \E e \in {"install", "uninstall"} : Start(p, e)
  PROVE  FileInv'
<1>1. CASE \E e \in {"install", "uninstall"} : Start(p, e)
  <2>1. PICK q \in {"read", "error"} : Moves(p, "idle", q)
    BY <1>1 DEF Start
  <2>2. UNCHANGED <<file, after, bak, tmp, made, late>>
    BY <1>1 DEF Start
  <2>3. FileTyped'
    BY <2>1, <2>2 DEF Moves, FileInv, FileTyped, Ends
  <2> QED BY <2>1, <2>2, <2>3, ProcessMoves DEF Moves, FileInv, Ends
<1>2. CASE Edit(p)
  <2>1. PICK q \in {"Unchanged", "error", "backup"} : Moves(p, "read", q)
    BY <1>2, Zenon DEF Edit
  <2>2. UNCHANGED <<file, bak, tmp, made, late>>
    BY <1>2, Zenon DEF Edit
  <2>3. \/ after' = [after EXCEPT ![p] = merge_hooks(file.doc)]
        \/ after' = [after EXCEPT ![p] = remove_hooks(file.doc)]
        \/ after' = after
    BY <1>2, Zenon DEF Edit
  <2>4. DOMAIN after' = Procs /\ \A r \in Procs : "rest" \in DOMAIN after'[r]
    BY <2>3, EditsKeepParts DEF FileInv, FileTyped
  <2>5. FileTyped'
    BY <2>1, <2>2, <2>4 DEF Moves, FileInv, FileTyped, Ends
  <2> QED BY <2>1, <2>2, <2>5, ProcessMoves DEF Moves, FileInv, Ends
<1> QED BY <1>1, <1>2

\* The backup takes what is in the file; what is not there was in another.
LEMMA BackupKeeps == ASSUME FileInv, NEW p \in Procs, Backup(p) PROVE FileInv'
<1>0. at[p] = "backup" /\ UNCHANGED <<file, after, tmp, made, late>>
  BY DEF Backup, Moves
<1>1. CASE Moves(p, "backup", "error") /\ UNCHANGED bak
  <2>1. FileTyped'
    BY <1>0, <1>1 DEF Moves, FileInv, FileTyped, Ends
  <2> QED BY <1>0, <1>1, <2>1, ProcessMoves DEF Moves, FileInv, Ends
<1>2. CASE Moves(p, "backup", "tmp") /\ bak' = [bak EXCEPT ![p] = file]
  <2>1. FileTyped'
    BY <1>0, <1>2 DEF Moves, FileInv, FileTyped
  <2>2. bak'[p] = file /\ \A r \in Procs \ {p} : bak'[r] = bak[r]
    BY <1>2 DEF FileInv, FileTyped
  <2>3. bak[p].doc.rest = {}
    BY <1>0 DEF FileInv, NoBackupYet
  <2>4. \A e \in made \ late : e \in file.doc.rest \/ InBackup(e)
    BY DEF FileInv, EditsKept, InBackup
  <2>5. \A e \in made \ late : InBackup(e)'
    BY <2>2, <2>3, <2>4 DEF InBackup
  <2>6. BackedUp' /\ EditsKept'
    BY <1>0, <2>5 DEF BackedUp, EditsKept, InBackup
  <2>7. NoBackupYet'
    BY <1>2, <2>2 DEF Moves, FileInv, FileTyped, NoBackupYet
  <2> QED BY <2>1, <2>6, <2>7 DEF FileInv
<1> QED BY <1>1, <1>2 DEF Backup

\* Writing the temporary file, or a crash.
LEMMA WriteKeeps == ASSUME FileInv, NEW p \in Procs, WriteTmp(p) \/ Crash(p) PROVE FileInv'
<1>1. PICK q \in {"rename", "error", "crashed"} :
        at' = [at EXCEPT ![p] = q] /\ (q = "rename" => at[p] = "tmp")
  BY DEF WriteTmp, Crash, Moves
<1>2. UNCHANGED <<file, after, bak, made, late>>
  BY DEF WriteTmp, Crash
<1>3. \/ UNCHANGED tmp
      \/ \E t \in {"doc", "partial"} : tmp' = [tmp EXCEPT ![p] = [text |-> t, doc |-> after[p]]]
  BY DEF WriteTmp, Crash, Of
<1>4. DOMAIN tmp' = Procs /\ \A r \in Procs : "rest" \in DOMAIN tmp'[r].doc
  BY <1>3 DEF FileInv, FileTyped
<1>5. FileTyped'
  BY <1>1, <1>2, <1>4 DEF FileInv, FileTyped, Ends
<1> QED BY <1>1, <1>2, <1>5, ProcessMoves DEF FileInv, Ends

\* The rename: everything it may take from the file is in a backup.
LEMMA RenameKeeps == ASSUME FileInv, NEW p \in Procs, Rename(p) PROVE FileInv'
<1>1. PICK q \in {"Installed", "Removed", "error"} : at' = [at EXCEPT ![p] = q]
  BY DEF Rename, Moves
<1>2. at[p] = "rename" /\ UNCHANGED <<after, bak, made, late>>
  BY DEF Rename, Moves
<1>3. \/ UNCHANGED <<file, tmp>>
      \/ file' = tmp[p] /\ tmp' = [tmp EXCEPT ![p] = Missing]
  BY DEF Rename
<1>4. FileTyped'
  <2>1. "rest" \in DOMAIN file'.doc
    BY <1>3 DEF FileInv, FileTyped
  <2>2. DOMAIN tmp' = Procs /\ \A r \in Procs : "rest" \in DOMAIN tmp'[r].doc
    <3>1. "rest" \in DOMAIN Missing.doc
      BY DEF Missing, Empty
    <3> QED BY <1>3, <3>1 DEF FileInv, FileTyped
  <2> QED BY <1>1, <1>2, <2>1, <2>2 DEF FileInv, FileTyped, Ends
<1>5. \A e \in made \ late : InBackup(e)
  BY <1>2 DEF FileInv, BackedUp, Replacing
<1>6. BackedUp' /\ EditsKept'
  BY <1>2, <1>5 DEF BackedUp, EditsKept, InBackup
<1>7. NoBackupYet'
  BY <1>1, <1>2 DEF FileInv, FileTyped, NoBackupYet
<1> QED BY <1>4, <1>6, <1>7 DEF FileInv

\* A change of others is in the file, and late if that is being replaced.
LEMMA OthersKeep == ASSUME FileInv, NEW e \in Edits, EditByOthers(e) PROVE FileInv'
<1>1. /\ file' = [text |-> "doc", doc |-> [file.doc EXCEPT !.rest = @ \cup {e}]]
      /\ made' = made \cup {e}
      /\ late' = IF Replacing THEN late \cup {e} ELSE late
      /\ UNCHANGED <<at, after, bak, tmp>>
  BY DEF EditByOthers, Of, Replacing
<1>2. file'.doc.rest = file.doc.rest \cup {e} /\ "rest" \in DOMAIN file'.doc
  BY <1>1 DEF FileInv, FileTyped
<1>3. FileTyped'
  BY <1>1, <1>2 DEF FileInv, FileTyped
<1>4. BackedUp'
  BY <1>1 DEF FileInv, BackedUp, Replacing, InBackup
<1>5. NoBackupYet'
  BY <1>1 DEF FileInv, NoBackupYet
<1>6. EditsKept'
  BY <1>1, <1>2 DEF FileInv, EditsKept
<1> QED BY <1>3, <1>4, <1>5, <1>6 DEF FileInv

\* The invariant is kept by every step.
LEMMA FileStep == FileInv /\ [InstallNext]_installVars => FileInv'
<1> SUFFICES ASSUME FileInv, [InstallNext]_installVars PROVE FileInv'
  OBVIOUS
<1>1. CASE UNCHANGED installVars
  BY <1>1 DEF installVars, FileInv, FileTyped, BackedUp, NoBackupYet, EditsKept, Replacing, InBackup
<1>2. ASSUME NEW e \in Edits, EditByOthers(e) PROVE FileInv'
  BY <1>2, OthersKeep
<1>3. ASSUME NEW p \in Procs,
             \/ \E e \in {"install", "uninstall"} : Start(p, e)
             \/ Edit(p) \/ Backup(p) \/ WriteTmp(p) \/ Rename(p) \/ Crash(p)
      PROVE FileInv'
  BY <1>3, EditKeeps, BackupKeeps, WriteKeeps, RenameKeeps
<1> QED BY <1>1, <1>2, <1>3 DEF InstallNext

-----------------------------------------------------------------------------
\* However many processes install and remove hooks, fail and crash, what
\* others changed is in the file or in a backup, unless it was changed
\* between a backup and its rename (write_doc).
THEOREM EditsSurvive == InstallSpec => []EditsKept
<1>1. FileInv => EditsKept
  BY DEF FileInv
<1> QED BY FileInit, FileStep, <1>1, PTL DEF InstallSpec

-----------------------------------------------------------------------------
(* Induction, and what FlattenSeq returns.                                 *)

\* Induction on the natural numbers, over a set.
LEMMA SetInduction ==
  ASSUME NEW S, 0 \in S, \A n \in Nat : n \in S => n + 1 \in S
  PROVE  Nat \subseteq S
<1> DEFINE T == Nat \ S
           R == OpToRel(<, Nat)
<1> SUFFICES ASSUME T # {} PROVE FALSE
  OBVIOUS
<1>1. IsWellFoundedOn(R, Nat)
  BY NatLessThanWellFounded, Zenon
<1>2. PICK x \in T : \A y \in T : ~(<<y, x>> \in R)
  <2> HIDE DEF R, T
  <2>1. T \subseteq Nat BY DEF T
  <2> QED BY <1>1, <2>1, WFMin
<1>3. x \in Nat /\ x # 0 /\ x - 1 \in Nat /\ x - 1 < x /\ x - 1 + 1 = x
  OBVIOUS
<1>4. x - 1 \in T
  BY <1>3
<1>5. <<x - 1, x>> \in R
  BY <1>3 DEF OpToRel
<1> QED BY <1>2, <1>4, <1>5, Zenon

\* Induction on sequences, over a set.
LEMMA SeqInduction ==
  ASSUME NEW S, NEW P, <<>> \in P,
         \A s \in Seq(S), x \in S : s \in P => Append(s, x) \in P
  PROVE  Seq(S) \subseteq P
<1> DEFINE N == {n \in Nat : \A s \in Seq(S) : Len(s) = n => s \in P}
<1>1. 0 \in N
  BY EmptySeq
<1>2. ASSUME NEW n \in Nat, n \in N PROVE n + 1 \in N
  <2> SUFFICES ASSUME NEW s \in Seq(S), Len(s) = n + 1 PROVE s \in P
    OBVIOUS
  <2>1. PICK t \in Seq(S), x \in S : s = Append(t, x)
    BY SequenceEmptyOrAppend
  <2>2. Len(t) = n
    BY <2>1, AppendProperties
  <2> QED BY <1>2, <2>1, <2>2
<1>3. Nat \subseteq N
  <2> HIDE DEF N
  <2> QED BY <1>1, <1>2, SetInduction
<1> QED BY <1>3

\* The function by which FlattenSeq is defined.
Flattens(g, ss) ==
  g = [i \in 1 .. Len(ss) |-> IF i = 1 THEN ss[i] ELSE g[i - 1] \o ss[i]]

\* There is one.
LEMMA FlattenExists == ASSUME NEW S, NEW ss \in Seq(Seq(S)) PROVE \E g : Flattens(g, ss)
<1> DEFINE H(g, n) == g = [i \in 1 .. n |-> IF i = 1 THEN ss[i] ELSE g[i - 1] \o ss[i]]
           N == {n \in Nat : \E g : H(g, n)}
<1>1. 0 \in N
  <2>1. H(<<>>, 0)
    OBVIOUS
  <2> QED BY <2>1
<1>2. ASSUME NEW n \in Nat, n \in N PROVE n + 1 \in N
  <2>1. PICK g : H(g, n)
    BY <1>2
  <2> DEFINE h == [i \in 1 .. n + 1 |->
                     IF i = n + 1 THEN (IF i = 1 THEN ss[i] ELSE g[i - 1] \o ss[i]) ELSE g[i]]
  <2>2. h = [i \in 1 .. n + 1 |-> IF i = 1 THEN ss[i] ELSE h[i - 1] \o ss[i]]
    <3> DEFINE k == [i \in 1 .. n + 1 |-> IF i = 1 THEN ss[i] ELSE h[i - 1] \o ss[i]]
    <3>1. ASSUME NEW i \in 1 .. n + 1 PROVE h[i] = k[i]
      <4>1. CASE i = n + 1
        BY <4>1
      <4>2. CASE i # n + 1
        <5>1. i \in 1 .. n /\ (i # 1 => i - 1 \in 1 .. n)
          BY <4>2
        <5>2. h[i] = g[i] /\ (i # 1 => h[i - 1] = g[i - 1])
          BY <4>2, <5>1
        <5>3. g[i] = IF i = 1 THEN ss[i] ELSE g[i - 1] \o ss[i]
          <6> HIDE DEF h, k
          <6> QED BY <2>1, <5>1
        <5>4. k[i] = IF i = 1 THEN ss[i] ELSE h[i - 1] \o ss[i]
          <6> HIDE DEF h
          <6> QED OBVIOUS
        <5> QED BY <5>2, <5>3, <5>4, Zenon
      <4> QED BY <4>1, <4>2
    <3> HIDE DEF k
    <3>2. h = [i \in 1 .. n + 1 |-> h[i]]
      OBVIOUS
    <3>3. k = [i \in 1 .. n + 1 |-> k[i]]
      BY DEF k
    <3>4. h = k
      <4> HIDE DEF h
      <4> QED BY <3>1, <3>2, <3>3
    <3> QED BY <3>4 DEF k
  <2>3. H(h, n + 1)
    <3> HIDE DEF h
    <3> QED BY <2>2
  <2>4. n + 1 \in Nat
    OBVIOUS
  <2> HIDE DEF H
  <2> QED BY <2>3, <2>4
<1>3. Nat \subseteq N
  <2> HIDE DEF N
  <2> QED BY <1>1, <1>2, SetInduction
<1>4. Len(ss) \in N
  BY <1>3, LenProperties
<1> QED BY <1>4, Zenon DEF Flattens

\* There is only one, it flattens every prefix, and it yields sequences.
LEMMA FlattenAgrees ==
  ASSUME NEW S, NEW ss \in Seq(Seq(S)), NEW x \in Seq(S),
         NEW g, Flattens(g, ss), NEW h, Flattens(h, Append(ss, x))
  PROVE  \A i \in 1 .. Len(ss) : g[i] = h[i] /\ g[i] \in Seq(S)
<1> DEFINE N == {n \in Nat : n \in 1 .. Len(ss) => g[n] = h[n] /\ g[n] \in Seq(S)}
<1>0. /\ Len(ss) \in Nat /\ Len(Append(ss, x)) = Len(ss) + 1
      /\ \A i \in 1 .. Len(ss) : Append(ss, x)[i] = ss[i] /\ ss[i] \in Seq(S)
  BY AppendProperties, LenProperties, ElementOfSeq
<1>1. 0 \in N
  OBVIOUS
<1>2. ASSUME NEW n \in Nat, n \in N PROVE n + 1 \in N
  <2> SUFFICES ASSUME n + 1 \in 1 .. Len(ss)
               PROVE  g[n + 1] = h[n + 1] /\ g[n + 1] \in Seq(S)
    OBVIOUS
  <2>1. n + 1 \in 1 .. Len(Append(ss, x)) /\ (n + 1) - 1 = n /\ (n = 0 \/ n \in 1 .. Len(ss))
    BY <1>0
  <2>2. g[n + 1] = IF n + 1 = 1 THEN ss[n + 1] ELSE g[n] \o ss[n + 1]
    BY <2>1 DEF Flattens
  <2>3. h[n + 1] = IF n + 1 = 1 THEN Append(ss, x)[n + 1] ELSE h[n] \o Append(ss, x)[n + 1]
    BY <2>1 DEF Flattens
  <2>4. ss[n + 1] \in Seq(S) /\ Append(ss, x)[n + 1] = ss[n + 1]
    BY <1>0
  <2>5. CASE n = 0
    BY <2>2, <2>3, <2>4, <2>5
  <2>6. CASE n # 0
    <3>1. g[n] = h[n] /\ g[n] \in Seq(S)
      BY <1>2, <2>1, <2>6
    <3>0. n + 1 # 1
      BY <2>6
    <3>2. g[n + 1] = g[n] \o ss[n + 1] /\ h[n + 1] = g[n] \o ss[n + 1]
      BY <2>2, <2>3, <2>4, <3>0, <3>1, Zenon
    <3> QED BY <2>4, <3>1, <3>2, ConcatProperties
  <2> QED BY <2>5, <2>6
<1>3. Nat \subseteq N
  <2> HIDE DEF N
  <2> QED BY <1>1, <1>2, SetInduction
<1> QED BY <1>0, <1>3

\* FlattenSeq yields a sequence, and grows with its argument.
LEMMA FlattenAppend ==
  ASSUME NEW S, NEW ss \in Seq(Seq(S)), NEW x \in Seq(S)
  PROVE  /\ FlattenSeq(<<>>) = <<>>
         /\ FlattenSeq(ss) \in Seq(S)
         /\ FlattenSeq(Append(ss, x)) = FlattenSeq(ss) \o x
<1> DEFINE tt == Append(ss, x)
           g == CHOOSE f : Flattens(f, ss)
           h == CHOOSE f : Flattens(f, tt)
<1>1. /\ tt \in Seq(Seq(S)) /\ Len(tt) = Len(ss) + 1 /\ Len(ss) \in Nat
      /\ tt[Len(tt)] = x
  BY AppendProperties, LenProperties
<1>2. Flattens(g, ss) /\ Flattens(h, tt)
  BY <1>1, FlattenExists
<1>3. FlattenSeq(ss) = IF Len(ss) = 0 THEN ss ELSE g[Len(ss)]
  BY Zenon DEF FlattenSeq, Flattens
<1>4. FlattenSeq(tt) = h[Len(tt)]
  <2>1. Len(tt) # 0
    BY <1>1
  <2> HIDE DEF tt
  <2> QED BY <2>1, Zenon DEF FlattenSeq, Flattens
<1>5. FlattenSeq(<<>>) = <<>>
  BY EmptySeq DEF FlattenSeq
<1>6. h[Len(tt)] = IF Len(tt) = 1 THEN x ELSE h[Len(tt) - 1] \o x
  <2> HIDE DEF tt, h
  <2>1. Len(tt) \in 1 .. Len(tt)
    BY <1>1
  <2>2. h[Len(tt)] = IF Len(tt) = 1 THEN tt[Len(tt)] ELSE h[Len(tt) - 1] \o tt[Len(tt)]
    BY <1>2, <2>1 DEF Flattens
  <2> QED BY <1>1, <2>2
<1>7. \A i \in 1 .. Len(ss) : g[i] = h[i] /\ g[i] \in Seq(S)
  <2> HIDE DEF g, h
  <2> QED BY <1>2, FlattenAgrees
<1> HIDE DEF g, h, tt
<1>8. CASE Len(ss) = 0
  <2>1. ss = <<>>
    BY <1>8, EmptySeq
  <2>2. FlattenSeq(ss) = <<>> /\ FlattenSeq(tt) = x
    BY <1>1, <1>4, <1>5, <1>6, <1>8, <2>1
  <2> QED BY <1>5, <2>2, ConcatEmptySeq, EmptySeq DEF tt
<1>9. CASE Len(ss) # 0
  <2>1. Len(ss) \in 1 .. Len(ss) /\ Len(tt) # 1 /\ Len(tt) - 1 = Len(ss)
    BY <1>1, <1>9
  <2>2. FlattenSeq(ss) = g[Len(ss)] /\ g[Len(ss)] = h[Len(ss)] /\ g[Len(ss)] \in Seq(S)
    BY <1>3, <1>7, <1>9, <2>1
  <2>3. FlattenSeq(tt) = h[Len(ss)] \o x
    BY <1>4, <1>6, <2>1
  <2> QED BY <1>5, <2>2, <2>3 DEF tt
<1> QED BY <1>8, <1>9

\* f of every element, as a sequence and end to end.
Mapped(f, s) == [i \in DOMAIN s |-> f[s[i]]]
Flat(f, s) == FlattenSeq(Mapped(f, s))
Into(f, S, T) == \A y \in S : f[y] \in T

\* A sequence mapped element by element.
LEMMA MapAppend ==
  ASSUME NEW S, NEW T, NEW s \in Seq(S), NEW x \in S, NEW f, Into(f, S, T)
  PROVE  Mapped(f, s) \in Seq(T) /\ Mapped(f, Append(s, x)) = Append(Mapped(f, s), f[x])
<1> DEFINE t == [i \in DOMAIN s |-> f[s[i]]]
           u == [i \in DOMAIN Append(s, x) |-> f[Append(s, x)[i]]]
<1>1. t \in Seq(T) /\ Len(t) = Len(s) /\ \A i \in 1 .. Len(s) : t[i] = f[s[i]]
  BY LenProperties, ElementOfSeq DEF Into
<1>2. /\ Len(s) \in Nat /\ Append(s, x) \in Seq(S)
      /\ Len(Append(s, x)) = Len(s) + 1
      /\ \A i \in 1 .. Len(s) : Append(s, x)[i] = s[i]
      /\ Append(s, x)[Len(s) + 1] = x
  BY LenProperties, AppendProperties
<1>3. DOMAIN Append(s, x) = 1 .. Len(s) + 1
  BY <1>2, LenProperties
<1>4. u \in Seq(T) /\ Len(u) = Len(s) + 1 /\ \A i \in 1 .. Len(s) + 1 : u[i] = f[Append(s, x)[i]]
  <2>1. \A i \in 1 .. Len(s) + 1 : Append(s, x)[i] \in S
    BY <1>2, ElementOfSeq
  <2> QED BY <1>2, <1>3, <2>1 DEF Into
<1> HIDE DEF t, u
<1>5. f[x] \in T
  BY DEF Into
<1>6. /\ Append(t, f[x]) \in Seq(T) /\ Len(Append(t, f[x])) = Len(s) + 1
      /\ \A i \in 1 .. Len(s) : Append(t, f[x])[i] = t[i]
      /\ Append(t, f[x])[Len(s) + 1] = f[x]
  BY <1>1, <1>5, AppendProperties
<1>7. \A i \in 1 .. Len(s) + 1 : u[i] = Append(t, f[x])[i]
  <2> TAKE i \in 1 .. Len(s) + 1
  <2>1. CASE i \in 1 .. Len(s)
    BY <1>1, <1>2, <1>4, <1>6, <2>1
  <2>2. CASE i = Len(s) + 1
    BY <1>2, <1>4, <1>6, <2>2
  <2>3. i \in 1 .. Len(s) \/ i = Len(s) + 1
    <3>1. Len(s) \in Nat
      BY <1>2
    <3> QED BY <3>1
  <2> QED BY <2>1, <2>2, <2>3
<1>8. u = Append(t, f[x])
  BY <1>4, <1>6, <1>7, SeqEqual
<1> QED BY <1>1, <1>8 DEF t, u, Mapped

\* Flat goes through its sequence element by element.
LEMMA FlatAppend ==
  ASSUME NEW S, NEW T, NEW f, Into(f, S, Seq(T)), NEW s \in Seq(S), NEW x \in S
  PROVE  Flat(f, s) \in Seq(T) /\ Flat(f, Append(s, x)) = Flat(f, s) \o f[x]
<1>1. Mapped(f, s) \in Seq(Seq(T)) /\ Mapped(f, Append(s, x)) = Append(Mapped(f, s), f[x])
  BY MapAppend
<1>2. f[x] \in Seq(T)
  BY DEF Into
<1> QED BY <1>1, <1>2, FlattenAppend DEF Flat

\* What it starts from, and that it yields a sequence.
LEMMA FlatBase ==
  ASSUME NEW S, NEW T, NEW f, Into(f, S, Seq(T)), NEW s \in Seq(S)
  PROVE  Flat(f, <<>>) = <<>> /\ Flat(f, s) \in Seq(T)
<1>1. Flat(f, <<>>) = <<>>
  <2>1. Mapped(f, <<>>) = <<>>
    BY DEF Mapped
  <2>2. FlattenSeq(<<>>) = <<>>
    BY EmptySeq DEF FlattenSeq
  <2> QED BY <2>1, <2>2 DEF Flat
<1>2. CASE s = <<>>
  BY <1>1, <1>2, EmptySeq
<1>3. CASE s # <<>>
  <2>1. PICK t \in Seq(S), x \in S : s = Append(t, x)
    BY <1>3, SequenceEmptyOrAppend
  <2>2. Flat(f, t) \in Seq(T) /\ Flat(f, Append(t, x)) = Flat(f, t) \o f[x] /\ f[x] \in Seq(T)
    <3>1. f[x] \in Seq(T)
      BY DEF Into
    <3> QED BY <3>1, FlatAppend
  <2> QED BY <1>1, <2>1, <2>2, ConcatProperties
<1> QED BY <1>1, <1>2, <1>3

-----------------------------------------------------------------------------
(* What Keep leaves of a list.                                             *)

\* What Keep flattens.
Pick(x, H) == IF x \in H THEN <<x>> ELSE <<>>

PickFun(S, H) == [y \in S |-> Pick(y, H)]

\* Keep is the flattening of its picks.
LEMMA KeepIsFlat ==
  ASSUME NEW S, NEW H
  PROVE  /\ Into(PickFun(S, H), S, Seq(S))
         /\ \A y \in S : PickFun(S, H)[y] = Pick(y, H)
         /\ \A s \in Seq(S) : Keep(s, H) = Flat(PickFun(S, H), s)
<1> DEFINE f == PickFun(S, H)
<1>1. Into(f, S, Seq(S)) /\ \A y \in S : f[y] = Pick(y, H)
  BY DEF Pick, Into, PickFun
<1>2. \A t \in Seq(S) : Keep(t, H) = Flat(f, t)
  <2> TAKE t \in Seq(S)
  <2> HIDE DEF f
  <2>1. \A i \in DOMAIN t : f[t[i]] = IF t[i] \in H THEN <<t[i]>> ELSE <<>>
    BY <1>1, LenProperties, ElementOfSeq DEF Pick
  <2>2. [i \in DOMAIN t |-> IF t[i] \in H THEN <<t[i]>> ELSE <<>>] = [i \in DOMAIN t |-> f[t[i]]]
    BY <2>1
  <2> QED BY <2>2, Zenon DEF Keep, Flat, Mapped
<1> QED BY <1>1, <1>2

\* Keep goes through its sequence element by element.
LEMMA KeepAppend ==
  ASSUME NEW S, NEW H, NEW s \in Seq(S), NEW x \in S
  PROVE  /\ Keep(s, H) \in Seq(S)
         /\ Keep(Append(s, x), H) = Keep(s, H) \o Pick(x, H)
         /\ Pick(x, H) \in Seq(S)
<1> DEFINE f == PickFun(S, H)
<1>1. Into(f, S, Seq(S))
  BY KeepIsFlat
<1>2. Append(s, x) \in Seq(S)
  BY AppendProperties
<1>3. f[x] = Pick(x, H)
  BY KeepIsFlat
<1>4. Keep(s, H) = Flat(f, s) /\ Keep(Append(s, x), H) = Flat(f, Append(s, x))
  BY <1>2, KeepIsFlat
<1> HIDE DEF f
<1>5. Flat(f, s) \in Seq(S) /\ Flat(f, Append(s, x)) = Flat(f, s) \o f[x]
  BY <1>1, FlatAppend
<1>6. Pick(x, H) \in Seq(S)
  BY DEF Pick
<1> QED BY <1>3, <1>4, <1>5, <1>6

\* Nothing, and one element.
LEMMA KeepBase ==
  ASSUME NEW S, NEW H, NEW s \in Seq(S) PROVE Keep(<<>>, H) = <<>> /\ Keep(s, H) \in Seq(S)
<1> DEFINE f == PickFun(S, H)
<1>1. Into(f, S, Seq(S))
  BY KeepIsFlat
<1>2. Keep(s, H) = Flat(f, s) /\ Keep(<<>>, H) = Flat(f, <<>>)
  BY EmptySeq, KeepIsFlat
<1> HIDE DEF f
<1> QED BY <1>1, <1>2, FlatBase

\* One element is kept or not.
LEMMA KeepOne == ASSUME NEW H, NEW x PROVE Keep(<<x>>, H) = Pick(x, H)
<1>1. Keep(<<>>, H) = <<>> /\ Keep(Append(<<>>, x), H) = Keep(<<>>, H) \o Pick(x, H)
  <2>1. <<>> \in Seq({x}) /\ x \in {x}
    BY EmptySeq
  <2> QED BY <2>1, KeepAppend, KeepBase
<1>2. Append(<<>>, x) = <<x>> /\ <<>> \o Pick(x, H) = Pick(x, H)
  BY DEF Pick
<1> QED BY <1>1, <1>2

\* Keep treats the parts of a sequence one by one.
LEMMA KeepConcat ==
  ASSUME NEW S, NEW H, NEW s \in Seq(S), NEW t \in Seq(S)
  PROVE  Keep(s \o t, H) = Keep(s, H) \o Keep(t, H)
<1> DEFINE P == {u \in Seq(S) : Keep(s \o u, H) = Keep(s, H) \o Keep(u, H)}
<1>1. <<>> \in P
  <2>1. Keep(<<>>, H) = <<>> /\ Keep(s, H) \in Seq(S)
    BY KeepBase
  <2>2. s \o <<>> = s /\ Keep(s, H) \o <<>> = Keep(s, H)
    BY <2>1, ConcatEmptySeq
  <2> QED BY <2>1, <2>2, EmptySeq
<1>2. ASSUME NEW u \in Seq(S), NEW x \in S, u \in P PROVE Append(u, x) \in P
  <2>1. s \o Append(u, x) = Append(s \o u, x) /\ s \o u \in Seq(S) /\ Append(u, x) \in Seq(S)
    BY ConcatProperties, AppendProperties
  <2>2. /\ Keep(Append(s \o u, x), H) = Keep(s \o u, H) \o Pick(x, H)
        /\ Keep(Append(u, x), H) = Keep(u, H) \o Pick(x, H)
        /\ Keep(s, H) \in Seq(S) /\ Keep(u, H) \in Seq(S) /\ Pick(x, H) \in Seq(S)
    <3>1. Keep(Append(s \o u, x), H) = Keep(s \o u, H) \o Pick(x, H)
      <4> DEFINE v == s \o u
      <4>1. v \in Seq(S)
        BY <2>1
      <4> HIDE DEF v
      <4>2. Keep(Append(v, x), H) = Keep(v, H) \o Pick(x, H)
        BY <4>1, KeepAppend
      <4> QED BY <4>2 DEF v
    <3>2. Keep(Append(u, x), H) = Keep(u, H) \o Pick(x, H) /\ Pick(x, H) \in Seq(S)
      BY KeepAppend
    <3> QED BY <3>1, <3>2, KeepBase
  <2>3. (Keep(s, H) \o Keep(u, H)) \o Pick(x, H) = Keep(s, H) \o (Keep(u, H) \o Pick(x, H))
    <3> HIDE DEF P
    <3>1. \A a, b, c \in Seq(S) : (a \o b) \o c = a \o (b \o c)
      OBVIOUS
    <3> QED BY <2>2, <3>1, Zenon
  <2>4. Keep(s \o u, H) = Keep(s, H) \o Keep(u, H)
    BY <1>2
  <2> QED BY <2>1, <2>2, <2>3, <2>4
<1>3. Seq(S) \subseteq P
  <2> HIDE DEF P
  <2> QED BY <1>1, <1>2, SeqInduction
<1> QED BY <1>3

\* What was kept is kept again, and nothing else is left.
LEMMA KeepKept ==
  ASSUME NEW S, NEW H, NEW s \in Seq(S), NEW G, G \cap H = {}
  PROVE  Keep(Keep(s, H), H) = Keep(s, H) /\ Keep(Keep(s, H), G) = <<>>
<1> DEFINE P == {u \in Seq(S) : Keep(Keep(u, H), H) = Keep(u, H) /\ Keep(Keep(u, H), G) = <<>>}
<1>1. <<>> \in P
  BY KeepBase, EmptySeq
<1>2. ASSUME NEW u \in Seq(S), NEW x \in S, u \in P PROVE Append(u, x) \in P
  <2>1. /\ Keep(Append(u, x), H) = Keep(u, H) \o Pick(x, H)
        /\ Keep(u, H) \in Seq(S) /\ Pick(x, H) \in Seq(S)
    BY KeepAppend
  <2>2. /\ Keep(Keep(u, H) \o Pick(x, H), H) = Keep(Keep(u, H), H) \o Keep(Pick(x, H), H)
        /\ Keep(Keep(u, H) \o Pick(x, H), G) = Keep(Keep(u, H), G) \o Keep(Pick(x, H), G)
    BY <2>1, KeepConcat
  <2>3. Keep(Pick(x, H), H) = Pick(x, H) /\ Keep(Pick(x, H), G) = <<>>
    <3>1. CASE x \in H
      <4>1. Pick(x, H) = <<x>> /\ Pick(x, G) = <<>>
        BY <3>1 DEF Pick
      <4> QED BY <4>1, KeepOne
    <3>2. CASE x \notin H
      <4>1. Pick(x, H) = <<>>
        BY <3>2 DEF Pick
      <4> QED BY <4>1, KeepBase
    <3> QED BY <3>1, <3>2
  <2>4. Keep(Keep(u, H), H) = Keep(u, H) /\ Keep(Keep(u, H), G) = <<>>
    BY <1>2
  <2>5. Append(u, x) \in Seq(S) /\ <<>> \o <<>> = <<>>
    BY AppendProperties, ConcatEmptySeq, EmptySeq
  <2> QED BY <2>1, <2>2, <2>3, <2>4, <2>5
<1>3. Seq(S) \subseteq P
  <2> HIDE DEF P
  <2> QED BY <1>1, <1>2, SeqInduction
<1> QED BY <1>3

-----------------------------------------------------------------------------
(* What strip_ours leaves of the groups.                                   *)

Foreign == Hook \ Ours

\* What is left of a group, and of a list with this group alone.
Left(g) == [g EXCEPT !.hooks = Keep(@, Foreign)]
Stays(g) == Left(g) = g \/ Left(g).hooks # <<>>
Rest(g) == IF Stays(g) THEN <<Left(g)>> ELSE <<>>
RestFun == [g \in Group |-> Rest(g)]

\* The hooks of a group, and of several.
HooksFun == [g \in Group |-> g.hooks]
GroupHooks(gs) == FlattenSeq([i \in DOMAIN gs |-> gs[i].hooks])

\* A group without our hooks is a group with the others'.
LEMMA LeftIsGroup == ASSUME NEW g \in Group PROVE Left(g) \in Group /\ Left(g).hooks = Keep(g.hooks, Foreign)
<1>1. g.hooks \in Seq(Hook)
  BY DEF Group
<1>2. Keep(g.hooks, Foreign) \in Seq(Hook)
  BY <1>1, KeepBase
<1> QED BY <1>2 DEF Left, Group

\* strip_ours flattens what is left of each group.
LEMMA StripIsFlat ==
  /\ Into(RestFun, Group, Seq(Group))
  /\ \A g \in Group : RestFun[g] = Rest(g)
  /\ \A gs \in Seq(Group) : strip_ours(gs) = Flat(RestFun, gs)
<1>1. \A g \in Group : RestFun[g] = Rest(g)
  BY DEF RestFun
<1>2. \A g \in Group : Rest(g) \in Seq(Group)
  BY LeftIsGroup DEF Rest
<1>3. Into(RestFun, Group, Seq(Group))
  BY <1>1, <1>2 DEF Into
<1>4. ASSUME NEW gs \in Seq(Group) PROVE strip_ours(gs) = Flat(RestFun, gs)
  <2>1. \A i \in DOMAIN gs : RestFun[gs[i]] = IF Stays(gs[i]) THEN <<Left(gs[i])>> ELSE <<>>
    BY <1>1, LenProperties, ElementOfSeq DEF Rest
  <2>2. [i \in DOMAIN gs |-> IF Stays(gs[i]) THEN <<Left(gs[i])>> ELSE <<>>] = Mapped(RestFun, gs)
    BY <2>1 DEF Mapped
  <2>3. strip_ours(gs) = FlattenSeq([i \in DOMAIN gs |-> IF Stays(gs[i]) THEN <<Left(gs[i])>> ELSE <<>>])
    BY Zenon DEF strip_ours, Stays, Left, Foreign
  <2> QED BY <2>2, <2>3 DEF Flat
<1> QED BY <1>1, <1>3, <1>4

\* The hooks of some groups are their lists, flattened.
LEMMA GroupHooksFlat ==
  /\ Into(HooksFun, Group, Seq(Hook))
  /\ \A g \in Group : HooksFun[g] = g.hooks
  /\ \A gs \in Seq(Group) : GroupHooks(gs) = Flat(HooksFun, gs)
<1>1. \A g \in Group : HooksFun[g] = g.hooks /\ g.hooks \in Seq(Hook)
  BY DEF HooksFun, Group
<1>2. Into(HooksFun, Group, Seq(Hook))
  BY <1>1 DEF Into
<1>3. ASSUME NEW gs \in Seq(Group) PROVE GroupHooks(gs) = Flat(HooksFun, gs)
  <2>1. \A i \in DOMAIN gs : HooksFun[gs[i]] = gs[i].hooks
    BY <1>1, LenProperties, ElementOfSeq
  <2>2. [i \in DOMAIN gs |-> gs[i].hooks] = Mapped(HooksFun, gs)
    BY <2>1 DEF Mapped
  <2> QED BY <2>2 DEF Flat, GroupHooks
<1> QED BY <1>1, <1>2, <1>3

\* Group by group.
LEMMA StripAppend ==
  ASSUME NEW gs \in Seq(Group), NEW g \in Group
  PROVE  /\ strip_ours(<<>>) = <<>> /\ strip_ours(gs) \in Seq(Group)
         /\ strip_ours(Append(gs, g)) = strip_ours(gs) \o Rest(g)
<1>1. Append(gs, g) \in Seq(Group) /\ <<>> \in Seq(Group)
  BY AppendProperties, EmptySeq
<1>2. /\ Flat(RestFun, <<>>) = <<>> /\ Flat(RestFun, gs) \in Seq(Group)
      /\ Flat(RestFun, Append(gs, g)) = Flat(RestFun, gs) \o RestFun[g]
  BY StripIsFlat, FlatAppend, FlatBase
<1> QED BY <1>1, <1>2, StripIsFlat

\* One group more.
LEMMA GroupHooksAppend ==
  ASSUME NEW gs \in Seq(Group), NEW g \in Group
  PROVE  /\ GroupHooks(<<>>) = <<>> /\ GroupHooks(gs) \in Seq(Hook)
         /\ GroupHooks(Append(gs, g)) = GroupHooks(gs) \o g.hooks
<1>1. Append(gs, g) \in Seq(Group) /\ <<>> \in Seq(Group)
  BY AppendProperties, EmptySeq
<1>2. /\ Flat(HooksFun, <<>>) = <<>> /\ Flat(HooksFun, gs) \in Seq(Hook)
      /\ Flat(HooksFun, Append(gs, g)) = Flat(HooksFun, gs) \o HooksFun[g]
  BY GroupHooksFlat, FlatAppend, FlatBase
<1> QED BY <1>1, <1>2, GroupHooksFlat

\* Of a group, H keeps what it keeps of the hooks.
LEMMA KeepGroup ==
  ASSUME NEW gs \in Seq(Group), NEW g \in Group, NEW H
  PROVE  Keep(GroupHooks(Append(gs, g)), H) = Keep(GroupHooks(gs), H) \o Keep(g.hooks, H)
<1>1. GroupHooks(gs) \in Seq(Hook) /\ g.hooks \in Seq(Hook)
  BY GroupHooksAppend DEF Group
<1>2. GroupHooks(Append(gs, g)) = GroupHooks(gs) \o g.hooks
  BY GroupHooksAppend
<1> QED BY <1>1, <1>2, KeepConcat

\* strip_ours takes out our hooks, and no other.
LEMMA StripKeeps ==
  ASSUME NEW gs \in Seq(Group)
  PROVE  /\ Keep(GroupHooks(strip_ours(gs)), Foreign) = Keep(GroupHooks(gs), Foreign)
         /\ Keep(GroupHooks(strip_ours(gs)), Ours) = <<>>
<1> DEFINE P == {hs \in Seq(Group) :
                   /\ Keep(GroupHooks(strip_ours(hs)), Foreign) = Keep(GroupHooks(hs), Foreign)
                   /\ Keep(GroupHooks(strip_ours(hs)), Ours) = <<>>}
<1>1. <<>> \in P
  <2>1. strip_ours(<<>>) = <<>>
    BY EmptySeq, StripIsFlat, FlatBase
  <2>2. GroupHooks(<<>>) = <<>>
    BY EmptySeq, GroupHooksFlat, FlatBase
  <2> QED BY <2>1, <2>2, EmptySeq, KeepBase
<1>2. ASSUME NEW hs \in Seq(Group), NEW g \in Group, hs \in P PROVE Append(hs, g) \in P
  <2> DEFINE ss == strip_ours(hs)
  <2>1. ss \in Seq(Group) /\ strip_ours(Append(hs, g)) = ss \o Rest(g)
    BY StripAppend
  <2>2. /\ Keep(GroupHooks(ss), Foreign) = Keep(GroupHooks(hs), Foreign)
        /\ Keep(GroupHooks(ss), Ours) = <<>>
    BY <1>2
  <2>3. g.hooks \in Seq(Hook) /\ Left(g) \in Group /\ Left(g).hooks = Keep(g.hooks, Foreign)
    BY LeftIsGroup DEF Group
  <2>4. Keep(GroupHooks(Append(hs, g)), Foreign) = Keep(GroupHooks(hs), Foreign) \o Keep(g.hooks, Foreign)
    BY KeepGroup
  <2>5. Keep(GroupHooks(hs), Foreign) \in Seq(Hook)
    BY GroupHooksAppend, KeepBase
  <2>6. Append(hs, g) \in Seq(Group)
    BY AppendProperties
  <2> HIDE DEF ss
  <2>7. CASE Stays(g)
    <3>1. ss \o Rest(g) = Append(ss, Left(g))
      BY <2>1, <2>3, <2>7, AppendIsConcat DEF Rest
    <3>2. /\ Keep(GroupHooks(Append(ss, Left(g))), Foreign)
               = Keep(GroupHooks(ss), Foreign) \o Keep(Left(g).hooks, Foreign)
          /\ Keep(GroupHooks(Append(ss, Left(g))), Ours)
               = Keep(GroupHooks(ss), Ours) \o Keep(Left(g).hooks, Ours)
      BY <2>1, <2>3, KeepGroup
    <3>3. Keep(Left(g).hooks, Foreign) = Keep(g.hooks, Foreign) /\ Keep(Left(g).hooks, Ours) = <<>>
      <4>1. Ours \cap Foreign = {}
        BY DEF Foreign
      <4>2. Keep(Keep(g.hooks, Foreign), Foreign) = Keep(g.hooks, Foreign)
        BY <2>3, <4>1, KeepKept
      <4>3. Keep(Keep(g.hooks, Foreign), Ours) = <<>>
        BY <2>3, <4>1, KeepKept
      <4> QED BY <2>3, <4>2, <4>3
    <3>4. <<>> \o <<>> = <<>>
      OBVIOUS
    <3> QED BY <2>1, <2>2, <2>4, <2>6, <3>1, <3>2, <3>3, <3>4
  <2>8. CASE ~Stays(g)
    <3>1. Keep(g.hooks, Foreign) = <<>>
      BY <2>3, <2>8 DEF Stays
    <3>2. ss \o Rest(g) = ss
      BY <2>1, <2>8, ConcatEmptySeq DEF Rest
    <3>3. Keep(GroupHooks(Append(hs, g)), Foreign) = Keep(GroupHooks(hs), Foreign)
      BY <2>4, <2>5, <3>1, ConcatEmptySeq
    <3> QED BY <2>1, <2>2, <2>6, <3>2, <3>3
  <2> QED BY <2>7, <2>8
<1>3. Seq(Group) \subseteq P
  <2> HIDE DEF P
  <2> QED BY <1>1, <1>2, SeqInduction
<1> QED BY <1>3

-----------------------------------------------------------------------------
(* merge_hooks and remove_hooks.                                           *)

\* The document is right for an edit of this kind.
Right(kind, doc) ==
  /\ kind = "install" => \A e \in Events : OurHooks(doc, e) = <<"ours">>
  /\ kind = "uninstall" => \A e \in Events \cup Others : OurHooks(doc, e) = <<>>

\* Hooks of a list are those of its groups.
LEMMA HooksOfList == \A l : Hooks(l) = GroupHooks(l.groups)
BY Zenon DEF Hooks, GroupHooks

\* The lists decide.
LEMMA SameLists ==
  ASSUME NEW d \in Doc, NEW c \in Doc, c.lists = d.lists
  PROVE  UserHooks(c) = UserHooks(d) /\ \A k : Right(k, c) = Right(k, d)
BY DEF UserHooks, Right, OurHooks

\* Documents whose lists hold the same hooks of others.
LEMMA SameUserHooks ==
  ASSUME NEW d \in Doc, NEW c \in Doc,
         \A e \in Events \cup Others :
           Keep(GroupHooks(c.lists[e].groups), Foreign) = Keep(GroupHooks(d.lists[e].groups), Foreign)
  PROVE  UserHooks(c) = UserHooks(d)
<1>1. DOMAIN c.lists = Events \cup Others /\ DOMAIN d.lists = Events \cup Others
  BY DEF Doc
<1>2. \A e \in Events \cup Others : Keep(Hooks(c.lists[e]), Foreign) = Keep(Hooks(d.lists[e]), Foreign)
  BY HooksOfList
<1>3. /\ UserHooks(c) = [e \in Events \cup Others |-> Keep(Hooks(c.lists[e]), Foreign)]
      /\ UserHooks(d) = [e \in Events \cup Others |-> Keep(Hooks(d.lists[e]), Foreign)]
  BY <1>1 DEF UserHooks, Foreign
<1> QED BY <1>2, <1>3

\* The group that install adds.
LEMMA EntryIsGroup == Entry \in Group /\ Entry.hooks = <<"ours">>
<1>1. <<"ours">> \in Seq(Hook)
  BY DEF Hook, Ours
<1> QED BY <1>1 DEF Entry, Group

\* A document with other lists; the parts of a document.
LEMMA DocWith ==
  ASSUME NEW d \in Doc, NEW ls
  PROVE  [d EXCEPT !.lists = ls] = [shape |-> d.shape, lists |-> ls, rest |-> d.rest]
<1>1. PICK x, y, z : d = [shape |-> x, lists |-> y, rest |-> z]
  BY DEF Doc
<1>2. [[shape |-> x, lists |-> y, rest |-> z] EXCEPT !.lists = ls]
        = [shape |-> x, lists |-> ls, rest |-> z]
  OBVIOUS
<1>3. d.shape = x /\ d.rest = z
  BY <1>1
<1> QED BY <1>1, <1>2, <1>3

\* The parts of a document.
LEMMA DocParts ==
  ASSUME NEW d \in Doc
  PROVE  /\ d.lists \in [Events \cup Others -> List] /\ d.rest \in SUBSET Edits
         /\ d.shape \in {"other", "no hooks", "bad hooks", "hooks"}
         /\ DOMAIN d.lists = Events \cup Others
         /\ \A e \in Events \cup Others : d.lists[e] \in List /\ d.lists[e].groups \in Seq(Group)
BY DEF Doc, List

\* The lists that merge_hooks and remove_hooks make.
MergedLists(ls) ==
  [e \in DOMAIN ls |->
     IF e \in Events THEN [kind |-> "list", groups |-> Append(strip_ours(ls[e].groups), Entry)]
                     ELSE ls[e]]
RemovedList(l) ==
  IF l.kind = "list" /\ [l EXCEPT !.groups = strip_ours(l.groups)].groups = <<>> THEN Absent
  ELSE [l EXCEPT !.groups = strip_ours(l.groups)]
RemovedLists(ls) == [e \in DOMAIN ls |-> RemovedList(ls[e])]

\* The edits make other lists and keep the rest.
LEMMA EditedDocs ==
  ASSUME NEW d \in Doc
  PROVE  /\ merge_hooks(d) = [shape |-> "hooks", lists |-> MergedLists(d.lists), rest |-> d.rest]
         /\ remove_hooks(d) = [shape |-> d.shape, lists |-> RemovedLists(d.lists), rest |-> d.rest]
<1>1. merge_hooks(d) = [shape |-> "hooks", lists |-> MergedLists(d.lists), rest |-> d.rest]
  BY Zenon DEF merge_hooks, MergedLists
<1>2. remove_hooks(d) = [d EXCEPT !.lists = RemovedLists(d.lists)]
  BY Zenon DEF remove_hooks, RemovedLists, RemovedList
<1> QED BY <1>1, <1>2, DocWith

\* What is left of groups are groups.
LEMMA StripIsSeq == \A gs \in Seq(Group) : strip_ours(gs) \in Seq(Group)
BY StripAppend, EntryIsGroup

\* An install puts one hook into every list of ours.
LEMMA Merged ==
  ASSUME NEW d \in Doc
  PROVE  /\ merge_hooks(d) \in Doc /\ UserHooks(merge_hooks(d)) = UserHooks(d)
         /\ Right("install", merge_hooks(d))
<1> DEFINE c == merge_hooks(d)
<1>1. c = [shape |-> "hooks", lists |-> MergedLists(d.lists), rest |-> d.rest]
  BY EditedDocs
<1> HIDE DEF c
<1>2. c.lists = MergedLists(d.lists)
  BY <1>1
<1>3. ASSUME NEW e \in Events \cup Others
      PROVE  /\ e \in Events => c.lists[e] = [kind |-> "list", groups |-> Append(strip_ours(d.lists[e].groups), Entry)]
             /\ e \in Others => c.lists[e] = d.lists[e]
             /\ c.lists[e] \in List
  <2>1. Append(strip_ours(d.lists[e].groups), Entry) \in Seq(Group)
    BY DocParts, StripIsSeq, EntryIsGroup, AppendProperties
  <2>2. [kind |-> "list", groups |-> Append(strip_ours(d.lists[e].groups), Entry)] \in List
    BY <2>1 DEF List
  <2>3. e \in DOMAIN d.lists /\ d.lists[e] \in List
    BY DocParts
  <2> QED BY <1>2, <2>2, <2>3, InstallAssumption DEF MergedLists
<1>4. c \in Doc
  <2>1. c.lists \in [Events \cup Others -> List]
    <3>1. DOMAIN d.lists = Events \cup Others
      BY DocParts
    <3>2. MergedLists(d.lists) = [e \in Events \cup Others |-> MergedLists(d.lists)[e]]
      BY <3>1 DEF MergedLists
    <3> QED BY <1>2, <1>3, <3>2
  <2>2. d.rest \in SUBSET Edits
    BY DocParts
  <2> QED BY <1>1, <1>2, <2>1, <2>2 DEF Doc
<1>5. ASSUME NEW e \in Events
      PROVE  /\ Keep(GroupHooks(c.lists[e].groups), Foreign) = Keep(GroupHooks(d.lists[e].groups), Foreign)
             /\ Keep(GroupHooks(c.lists[e].groups), Ours) = <<"ours">>
  <2> DEFINE gs == d.lists[e].groups
             ss == strip_ours(gs)
  <2>1. gs \in Seq(Group) /\ c.lists[e].groups = Append(ss, Entry)
    <3>1. c.lists[e] = [kind |-> "list", groups |-> Append(ss, Entry)]
      BY <1>3
    <3>2. gs \in Seq(Group)
      BY DocParts
    <3> HIDE DEF ss
    <3> QED BY <3>1, <3>2
  <2> HIDE DEF gs
  <2>2. ss \in Seq(Group)
    BY <2>1, StripIsSeq
  <2>3. Keep(GroupHooks(ss), Foreign) = Keep(GroupHooks(gs), Foreign) /\ Keep(GroupHooks(ss), Ours) = <<>>
    BY <2>1, StripKeeps
  <2>4. Keep(<<"ours">>, Foreign) = <<>> /\ Keep(<<"ours">>, Ours) = <<"ours">>
    BY KeepOne DEF Foreign, Ours, Pick
  <2> HIDE DEF ss
  <2>5. Keep(GroupHooks(ss), Foreign) \in Seq(Hook)
    BY <2>2, GroupHooksAppend, EntryIsGroup, KeepBase
  <2>6. /\ Keep(GroupHooks(Append(ss, Entry)), Foreign) = Keep(GroupHooks(ss), Foreign) \o Keep(Entry.hooks, Foreign)
        /\ Keep(GroupHooks(Append(ss, Entry)), Ours) = Keep(GroupHooks(ss), Ours) \o Keep(Entry.hooks, Ours)
    BY <2>2, KeepGroup, EntryIsGroup
  <2>7. Keep(GroupHooks(ss), Foreign) \o <<>> = Keep(GroupHooks(ss), Foreign) /\ <<>> \o <<"ours">> = <<"ours">>
    BY <2>5, ConcatEmptySeq
  <2>8. Entry.hooks = <<"ours">>
    BY EntryIsGroup
  <2> QED BY <2>1, <2>3, <2>4, <2>6, <2>7, <2>8 DEF gs
<1>6. UserHooks(c) = UserHooks(d)
  <2>1. \A e \in Events \cup Others :
           Keep(GroupHooks(c.lists[e].groups), Foreign) = Keep(GroupHooks(d.lists[e].groups), Foreign)
    BY <1>3, <1>5
  <2> QED BY <1>4, <2>1, SameUserHooks
<1>7. Right("install", c)
  BY <1>5, HooksOfList DEF Right, OurHooks
<1> QED BY <1>4, <1>6, <1>7 DEF c

\* A removal leaves none of ours.
LEMMA Removed ==
  ASSUME NEW d \in Doc
  PROVE  /\ remove_hooks(d) \in Doc /\ UserHooks(remove_hooks(d)) = UserHooks(d)
         /\ Right("uninstall", remove_hooks(d))
<1> DEFINE c == remove_hooks(d)
<1>1. c = [shape |-> d.shape, lists |-> RemovedLists(d.lists), rest |-> d.rest]
  BY EditedDocs
<1> HIDE DEF c
<1>2. c.lists = RemovedLists(d.lists)
  BY <1>1
<1>3. ASSUME NEW l \in List
      PROVE  RemovedList(l) \in List /\ RemovedList(l).groups = strip_ours(l.groups)
  <2>1. l.groups \in Seq(Group)
    BY DEF List
  <2>2. strip_ours(l.groups) \in Seq(Group)
    BY <2>1, StripIsSeq
  <2>3. /\ [l EXCEPT !.groups = strip_ours(l.groups)] \in List
        /\ [l EXCEPT !.groups = strip_ours(l.groups)].groups = strip_ours(l.groups)
    BY <2>2 DEF List
  <2>4. Absent \in List /\ Absent.groups = <<>>
    BY EmptySeq DEF List, Absent
  <2> QED BY <2>3, <2>4 DEF RemovedList
<1>4. \A e \in Events \cup Others : c.lists[e] = RemovedList(d.lists[e])
  BY <1>2, DocParts DEF RemovedLists
<1>5. \A e \in Events \cup Others : c.lists[e] \in List /\ c.lists[e].groups = strip_ours(d.lists[e].groups)
  BY <1>3, <1>4, DocParts
<1>6. c \in Doc
  <2>1. c.lists \in [Events \cup Others -> List]
    <3>1. DOMAIN d.lists = Events \cup Others
      BY DocParts
    <3>2. RemovedLists(d.lists) = [e \in Events \cup Others |-> RemovedLists(d.lists)[e]]
      BY <3>1 DEF RemovedLists
    <3> QED BY <1>2, <1>5, <3>2
  <2>2. d.rest \in SUBSET Edits /\ d.shape \in {"other", "no hooks", "bad hooks", "hooks"}
    BY DocParts
  <2> QED BY <1>1, <1>2, <2>1, <2>2 DEF Doc
<1>7. \A e \in Events \cup Others :
        /\ Keep(GroupHooks(c.lists[e].groups), Foreign) = Keep(GroupHooks(d.lists[e].groups), Foreign)
        /\ Keep(GroupHooks(c.lists[e].groups), Ours) = <<>>
  BY <1>5, DocParts, StripKeeps
<1>8. UserHooks(c) = UserHooks(d)
  BY <1>6, <1>7, SameUserHooks
<1>9. Right("uninstall", c)
  BY <1>7, HooksOfList DEF Right, OurHooks
<1> QED BY <1>6, <1>8, <1>9 DEF c

-----------------------------------------------------------------------------
(* The hooks of the file, through every step.                              *)

\* Why it is so: what a process is about to write is right, whatever has
\* become of the file since it was read.
Planned ==
  \A p \in Procs : at[p] \in {"backup", "tmp", "rename"} =>
    /\ first.text \in {"missing", "doc"}
    /\ UserHooks(after[p]) = UserHooks(first.doc)
    /\ Right(edit[p], after[p])

Written == \A p \in Procs : at[p] = "rename" => tmp[p] = Of(after[p])

HooksInv == InstallTypeOK /\ Planned /\ Written /\ HooksRight

\* The file is as it should be.
FileRight ==
  /\ file.text = first.text \/ (first.text = "missing" /\ file.text = "doc")
  /\ UserHooks(file.doc) = UserHooks(first.doc)
  /\ Right(last, file.doc)

\* The property says so of the file.
LEMMA HooksRightParts == HooksRight <=> FileRight
BY DEF HooksRight, FileRight, Right

\* A file that is missing reads as an empty document.
LEMMA EmptyIsDoc == Empty \in Doc /\ Missing \in File
<1>1. Absent \in List
  BY EmptySeq DEF Absent, List
<1>2. Empty \in Doc
  BY <1>1 DEF Empty, Doc
<1> QED BY <1>2 DEF Missing, File

\* A document makes a file.
LEMMA OfIsFile == ASSUME NEW d \in Doc PROVE Of(d) \in File /\ Of(d).text = "doc" /\ Of(d).doc = d
BY DEF Of, File

\* At first nothing is planned, and the file is the first one.
LEMMA HooksInit == InstallInit => HooksInv
<1> SUFFICES ASSUME InstallInit PROVE HooksInv
  OBVIOUS
<1>1. file \in File
  BY InstallAssumption DEF InstallInit
<1>2. InstallTypeOK
  BY <1>1, EmptyIsDoc DEF InstallInit, InstallTypeOK
<1>3. Planned /\ Written
  BY DEF InstallInit, Planned, Written
<1>4. HooksRight
  BY DEF InstallInit, HooksRight
<1> QED BY <1>2, <1>3, <1>4 DEF HooksInv

\* A step of a process that writes neither the file nor a document.
LEMMA HooksMoves ==
  ASSUME HooksInv, NEW p \in Procs,
         NEW q \in {"read", "tmp"} \cup Ends,
         at' = [at EXCEPT ![p] = q],
         q = "tmp" => at[p] = "backup",
         UNCHANGED <<file, after, edit, made, late, first, last>>,
         bak' \in [Procs -> File], tmp' \in [Procs -> File],
         \A r \in Procs \ {p} : tmp'[r] = tmp[r]
  PROVE  HooksInv'
<1>1. InstallTypeOK'
  BY DEF HooksInv, InstallTypeOK, Ends
<1>2. Planned'
  BY DEF HooksInv, InstallTypeOK, Planned, Ends
<1>3. Written'
  BY DEF HooksInv, InstallTypeOK, Written, Ends
<1>4. HooksRight'
  BY DEF HooksInv, HooksRight
<1> QED BY <1>1, <1>2, <1>3, <1>4 DEF HooksInv

\* Starting.
LEMMA HooksStart ==
  ASSUME HooksInv, NEW p \in Procs, NEW e \in {"install", "uninstall"}, Start(p, e) PROVE HooksInv'
<1>1. PICK q \in {"read", "error"} : at[p] = "idle" /\ at' = [at EXCEPT ![p] = q]
  BY DEF Start, Moves
<1>2. /\ edit' = [edit EXCEPT ![p] = e]
      /\ UNCHANGED <<file, after, bak, tmp, made, late, first, last>>
  BY DEF Start
<1>3. InstallTypeOK'
  BY <1>1, <1>2 DEF HooksInv, InstallTypeOK, Ends
<1>4. Planned' /\ Written'
  BY <1>1, <1>2 DEF HooksInv, InstallTypeOK, Planned, Written
<1>5. HooksRight'
  BY <1>2 DEF HooksInv, HooksRight
<1> QED BY <1>3, <1>4, <1>5 DEF HooksInv

\* The edit of a right file is right.
LEMMA EditIsRight ==
  ASSUME HooksInv, NEW p \in Procs, Readable,
         NEW d, d = IF edit[p] = "install" THEN merge_hooks(file.doc) ELSE remove_hooks(file.doc)
  PROVE  /\ d \in Doc /\ first.text \in {"missing", "doc"}
         /\ UserHooks(d) = UserHooks(first.doc) /\ Right(edit[p], d)
<1>1. file.doc \in Doc /\ edit[p] \in {"install", "uninstall"}
  BY DEF HooksInv, InstallTypeOK, File
<1>2. UserHooks(file.doc) = UserHooks(first.doc) /\ first.text \in {"missing", "doc"}
  BY DEF HooksInv, HooksRight, Readable
<1>3. CASE edit[p] = "install"
  BY <1>1, <1>2, <1>3, Merged
<1>4. CASE edit[p] = "uninstall"
  BY <1>1, <1>2, <1>4, Removed
<1> QED BY <1>1, <1>3, <1>4

\* Reading and editing.
LEMMA HooksEdit == ASSUME HooksInv, NEW p \in Procs, Edit(p) PROVE HooksInv'
<1> DEFINE d == IF edit[p] = "install" THEN merge_hooks(file.doc) ELSE remove_hooks(file.doc)
<1>1. UNCHANGED <<file, edit, bak, tmp, made, late, first, last>>
  BY Zenon DEF Edit
<1>2. \/ \E q \in {"Unchanged", "error"} : at' = [at EXCEPT ![p] = q] /\ after' = after
      \/ at' = [at EXCEPT ![p] = "backup"] /\ after' = [after EXCEPT ![p] = d] /\ Readable
  BY Zenon DEF Edit, Moves
<1>3. CASE \E q \in {"Unchanged", "error"} : at' = [at EXCEPT ![p] = q] /\ after' = after
  <2>1. PICK q \in {"Unchanged", "error"} : at' = [at EXCEPT ![p] = q] /\ after' = after
    BY <1>3
  <2>2. bak' \in [Procs -> File] /\ tmp' \in [Procs -> File] /\ \A r \in Procs \ {p} : tmp'[r] = tmp[r]
    BY <1>1 DEF HooksInv, InstallTypeOK
  <2>3. q \in {"read", "tmp"} \cup Ends /\ q # "tmp"
    BY DEF Ends
  <2> QED BY <1>1, <2>1, <2>2, <2>3, HooksMoves
<1>4. CASE at' = [at EXCEPT ![p] = "backup"] /\ after' = [after EXCEPT ![p] = d] /\ Readable
  <2> HIDE DEF d
  <2>1. /\ d \in Doc /\ first.text \in {"missing", "doc"}
        /\ UserHooks(d) = UserHooks(first.doc) /\ Right(edit[p], d)
    BY <1>4, EditIsRight DEF d
  <2>2. InstallTypeOK'
    BY <1>1, <1>4, <2>1 DEF HooksInv, InstallTypeOK, Ends
  <2>3. \A r \in Procs : after'[r] = IF r = p THEN d ELSE after[r]
    BY <1>4 DEF HooksInv, InstallTypeOK
  <2>4. \A r \in Procs \ {p} : at'[r] = at[r]
    BY <1>4 DEF HooksInv, InstallTypeOK
  <2>5. Planned'
    BY <1>1, <2>1, <2>3, <2>4 DEF HooksInv, Planned
  <2>6. Written'
    BY <1>1, <1>4, <2>3, <2>4 DEF HooksInv, InstallTypeOK, Written
  <2>7. HooksRight'
    BY <1>1 DEF HooksInv, HooksRight
  <2> QED BY <2>2, <2>5, <2>6, <2>7 DEF HooksInv
<1> QED BY <1>2, <1>3, <1>4

\* Backups, and what is not written wholly.
LEMMA HooksBackup == ASSUME HooksInv, NEW p \in Procs, Backup(p) \/ Crash(p) PROVE HooksInv'
<1>1. UNCHANGED <<file, after, edit, made, late, first, last>>
  BY DEF Backup, Crash
<1>2. PICK q \in {"tmp", "error", "crashed"} :
        at' = [at EXCEPT ![p] = q] /\ (q = "tmp" => at[p] = "backup")
  BY DEF Backup, Crash, Moves
<1>3. bak' \in [Procs -> File]
  BY DEF Backup, Crash, HooksInv, InstallTypeOK
<1>4. UNCHANGED tmp \/ tmp' = [tmp EXCEPT ![p] = [text |-> "partial", doc |-> after[p]]]
  BY DEF Backup, Crash, Of
<1>5. tmp' \in [Procs -> File] /\ \A r \in Procs \ {p} : tmp'[r] = tmp[r]
  <2>1. [text |-> "partial", doc |-> after[p]] \in File
    BY DEF HooksInv, InstallTypeOK, File
  <2> QED BY <1>4, <2>1 DEF HooksInv, InstallTypeOK
<1> QED BY <1>1, <1>2, <1>3, <1>5, HooksMoves DEF Ends

\* What may be renamed was written whole: a partial file ends the process.
LEMMA HooksWrite == ASSUME HooksInv, NEW p \in Procs, WriteTmp(p) PROVE HooksInv'
<1>1. UNCHANGED <<file, after, edit, bak, made, late, first, last>> /\ at[p] = "tmp"
  BY DEF WriteTmp, Moves
<1>2. CASE at' = [at EXCEPT ![p] = "error"] /\ tmp' = [tmp EXCEPT ![p] = [text |-> "partial", doc |-> after[p]]]
  <2>1. tmp' \in [Procs -> File] /\ \A r \in Procs \ {p} : tmp'[r] = tmp[r]
    <3>1. [text |-> "partial", doc |-> after[p]] \in File
      BY DEF HooksInv, InstallTypeOK, File
    <3> QED BY <1>2, <3>1 DEF HooksInv, InstallTypeOK
  <2>2. bak' \in [Procs -> File]
    BY <1>1 DEF HooksInv, InstallTypeOK
  <2> QED BY <1>1, <1>2, <2>1, <2>2, HooksMoves DEF Ends
<1>3. CASE at' = [at EXCEPT ![p] = "rename"] /\ tmp' = [tmp EXCEPT ![p] = Of(after[p])]
  <2>1. Of(after[p]) \in File
    BY OfIsFile DEF HooksInv, InstallTypeOK
  <2>2. InstallTypeOK'
    BY <1>1, <1>3, <2>1 DEF HooksInv, InstallTypeOK, Ends
  <2>3. \A r \in Procs : /\ tmp'[r] = IF r = p THEN Of(after[p]) ELSE tmp[r]
                         /\ at'[r] = IF r = p THEN "rename" ELSE at[r]
    BY <1>3 DEF HooksInv, InstallTypeOK
  <2>4. Planned'
    BY <1>1, <2>3 DEF HooksInv, Planned
  <2>5. Written'
    BY <1>1, <2>3 DEF HooksInv, Written
  <2>6. HooksRight'
    BY <1>1 DEF HooksInv, HooksRight
  <2> QED BY <2>2, <2>4, <2>5, <2>6 DEF HooksInv
<1> QED BY <1>2, <1>3 DEF WriteTmp, Moves, Of

\* The rename puts a right document in place.
LEMMA HooksRename == ASSUME HooksInv, NEW p \in Procs, Rename(p) PROVE HooksInv'
<1>1. UNCHANGED <<after, edit, bak, made, late, first>> /\ at[p] = "rename"
  BY DEF Rename, Moves
<1>2. CASE at' = [at EXCEPT ![p] = "error"] /\ UNCHANGED <<file, tmp, last>>
  <2>1. bak' \in [Procs -> File] /\ tmp' \in [Procs -> File] /\ \A r \in Procs \ {p} : tmp'[r] = tmp[r]
    BY <1>1, <1>2 DEF HooksInv, InstallTypeOK
  <2> QED BY <1>1, <1>2, <2>1, HooksMoves DEF Ends
<1>3. CASE /\ \E q \in {"Installed", "Removed"} : at' = [at EXCEPT ![p] = q]
           /\ file' = tmp[p] /\ tmp' = [tmp EXCEPT ![p] = Missing] /\ last' = edit[p]
  <2>1. PICK q \in {"Installed", "Removed"} : at' = [at EXCEPT ![p] = q]
    BY <1>3
  <2>2. file' = Of(after[p])
    BY <1>1, <1>3 DEF HooksInv, Written
  <2>3. after[p] \in Doc
    BY DEF HooksInv, InstallTypeOK
  <2>4. file' \in File /\ file'.text = "doc" /\ file'.doc = after[p]
    BY <2>2, <2>3, OfIsFile
  <2>5. InstallTypeOK'
    BY <1>1, <1>3, <2>1, <2>4, EmptyIsDoc DEF HooksInv, InstallTypeOK, Ends
  <2>6. \A r \in Procs \ {p} : tmp'[r] = tmp[r] /\ at'[r] = at[r]
    BY <1>3, <2>1 DEF HooksInv, InstallTypeOK
  <2>7. at'[p] = q
    BY <2>1 DEF HooksInv, InstallTypeOK
  <2>8. Planned' /\ Written'
    BY <1>1, <2>6, <2>7 DEF HooksInv, Planned, Written
  <2>9. /\ first.text \in {"missing", "doc"}
        /\ UserHooks(after[p]) = UserHooks(first.doc)
        /\ Right(edit[p], after[p])
    BY <1>1 DEF HooksInv, Planned
  <2>10. HooksRight'
    BY <1>1, <1>3, <2>4, <2>9 DEF HooksRight, Right
  <2> QED BY <2>5, <2>8, <2>10 DEF HooksInv
<1> QED BY <1>2, <1>3 DEF Rename, Moves

\* Others change the rest of the document.
LEMMA HooksOthers == ASSUME HooksInv, NEW e \in Edits, EditByOthers(e) PROVE HooksInv'
<1> DEFINE d == [file.doc EXCEPT !.rest = @ \cup {e}]
<1>1. /\ UNCHANGED <<at, edit, after, bak, tmp, first, last>> /\ Readable /\ file' = Of(d)
      /\ made' \subseteq Edits /\ late' \subseteq made'
  BY DEF EditByOthers, HooksInv, InstallTypeOK
<1>2. file.doc \in Doc
  BY DEF HooksInv, InstallTypeOK, File
<1>3. d \in Doc /\ d.lists = file.doc.lists
  BY <1>2 DEF Doc
<1> HIDE DEF d
<1>4. UserHooks(d) = UserHooks(file.doc) /\ \A k : Right(k, d) = Right(k, file.doc)
  BY <1>2, <1>3, SameLists
<1>5. file' \in File /\ file'.text = "doc" /\ file'.doc = d
  BY <1>1, <1>3, OfIsFile
<1>6. InstallTypeOK'
  BY <1>1, <1>5 DEF HooksInv, InstallTypeOK
<1>7. Planned' /\ Written'
  BY <1>1 DEF HooksInv, Planned, Written
<1>8. FileRight
  BY HooksRightParts DEF HooksInv
<1>9. FileRight'
  BY <1>1, <1>4, <1>5, <1>8 DEF FileRight, Readable
<1> QED BY <1>6, <1>7, <1>9, HooksRightParts DEF HooksInv, HooksRight, FileRight, Right

\* Every step keeps the invariant.
LEMMA HooksStep == HooksInv /\ [InstallNext]_installVars => HooksInv'
<1> SUFFICES ASSUME HooksInv, [InstallNext]_installVars PROVE HooksInv'
  OBVIOUS
<1>1. CASE UNCHANGED installVars
  BY <1>1 DEF installVars, HooksInv, InstallTypeOK, Planned, Written, HooksRight
<1>2. ASSUME NEW e \in Edits, EditByOthers(e) PROVE HooksInv'
  BY <1>2, HooksOthers
<1>3. ASSUME NEW p \in Procs,
             \/ \E e \in {"install", "uninstall"} : Start(p, e)
             \/ Edit(p) \/ Backup(p) \/ WriteTmp(p) \/ Rename(p) \/ Crash(p)
      PROVE HooksInv'
  BY <1>3, HooksStart, HooksEdit, HooksBackup, HooksWrite, HooksRename
<1> QED BY <1>1, <1>2, <1>3 DEF InstallNext

\* The processes, the file, the backups and the temporary files stay well
\* typed; in particular every edit of a document is a document.
THEOREM InstallTypes == InstallSpec => []InstallTypeOK
<1>1. HooksInv => InstallTypeOK
  BY DEF HooksInv
<1> QED BY HooksInit, HooksStep, <1>1, PTL DEF InstallSpec

\* For any numbers of processes, events, hooks and groups: however installs
\* and removals interleave, fail and crash, the file is a whole document in
\* which everybody else's hooks are, in their order; ours is there once for
\* each event after an install and nowhere after a removal (merge_hooks,
\* remove_hooks, write_doc).
THEOREM HooksHold == InstallSpec => []HooksRight
<1>1. HooksInv => HooksRight
  BY DEF HooksInv
<1> QED BY HooksInit, HooksStep, <1>1, PTL DEF InstallSpec

=============================================================================
