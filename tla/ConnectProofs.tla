--------------------------- MODULE ConnectProofs ---------------------------
(***************************************************************************)
(* Proofs about Connect: for any numbers of callers, connections and hops, *)
(* a connection that timed out is silent, the prompts of one host do not   *)
(* overlap, a key that was learned is known from then on, and only one of  *)
(* an algorithm is learned for a host.                                     *)
(*                                                                         *)
(* The invariant ties the two sides of a connection together: the phase    *)
(* says whether the session task may ask, and as long as it may and nobody *)
(* left it, a caller waits for it, who holds the gate.  What is learned    *)
(* follows: whoever looked a key up is the only one to learn before it     *)
(* does, and a line that is appended spoils no other.                      *)
(***************************************************************************)
EXTENDS Connect, TLAPS

\* The types of what decides who may ask.
Typed ==
  /\ gate \subseteq Callers
  /\ at \in [Callers -> {"idle", "hop", "auth", "open", "up", "user", "gone"}]
  /\ conn \in [Callers -> 0 .. MaxConns]
  /\ conns \in 0 .. MaxConns
  /\ task \in [Conns -> Tasks]
  /\ phase \in [Conns -> {"Idle", "Prompting", "Abandoned"}]
  /\ left \in [Conns -> {"no", "timed out", "dropped"}]

AskingIsPrompting == \A c \in Conns : task[c] \in Asking => phase[c] = "Prompting"
TimedOutIsAbandoned == \A c \in Conns : left[c] = "timed out" => phase[c] = "Abandoned"
Works(w) == at[w] \in {"hop", "auth", "open"}
WorkingHoldsGate == \A w \in Callers : Works(w) => w \in gate
OneWorks == \A v, w \in Callers : Works(v) /\ Works(w) => v = w
WaitsForSomething == \A w \in Callers : at[w] = "hop" => conn[w] \in Conns

MayAsk == {"dial", "kex", "claim"} \cup Asking
IsWaitedFor ==
  \A c \in Conns :
    task[c] \in MayAsk /\ left[c] = "no" => \E w \in Callers : at[w] = "hop" /\ conn[w] = c

Inv ==
  /\ Typed /\ AskingIsPrompting /\ TimedOutIsAbandoned
  /\ WorkingHoldsGate /\ OneWorks /\ WaitsForSomething /\ IsWaitedFor

\* What there is to know of the callers.
CallerInv == WorkingHoldsGate /\ OneWorks /\ WaitsForSomething

-----------------------------------------------------------------------------
(* The invariant holds at the start and is kept by every step.             *)

\* A connection number is a natural number.
LEMMA ConnsAreNat == MaxConns \in Nat
BY ConnectAssumption

\* No caller has started and no connection was made.
LEMMA Initially == Init => Inv
<1> SUFFICES ASSUME Init PROVE Inv
  OBVIOUS
<1>1. Typed
  BY ConnsAreNat DEF Init, Typed, Tasks, Conns
<1>2. AskingIsPrompting /\ TimedOutIsAbandoned /\ IsWaitedFor
  BY DEF Init, AskingIsPrompting, TimedOutIsAbandoned, IsWaitedFor, MayAsk, Asking
<1>3. WorkingHoldsGate /\ OneWorks /\ WaitsForSomething
  BY DEF Init, WorkingHoldsGate, OneWorks, WaitsForSomething, Works
<1> QED BY <1>1, <1>2, <1>3 DEF Inv

\* The callers are where they were.
LEMMA CallersStay ==
  ASSUME Inv, UNCHANGED <<gate, at, conn>>
  PROVE  CallerInv'
BY DEF Inv, CallerInv, WorkingHoldsGate, OneWorks, WaitsForSomething, Works

\* A step of the session task that leaves HopState alone and does not begin
\* to ask: what may ask afterwards might have before.
LEMMA TaskMoves ==
  ASSUME Inv, NEW c \in Conns, NEW q \in Tasks,
         task' = [task EXCEPT ![c] = q],
         q \in MayAsk => task[c] \in MayAsk,
         q \in Asking => task[c] \in Asking,
         UNCHANGED <<gate, at, conn, conns, phase, left>>
  PROVE  Inv'
<1>1. Typed'
  BY DEF Inv, Typed
<1>2. AskingIsPrompting' /\ TimedOutIsAbandoned'
  BY DEF Inv, Typed, AskingIsPrompting, TimedOutIsAbandoned
<1>3. IsWaitedFor'
  BY DEF Inv, Typed, IsWaitedFor
<1> QED BY <1>1, <1>2, <1>3, CallersStay DEF Inv, CallerInv

\* None of it changes.
LEMMA NothingMoves ==
  ASSUME Inv, UNCHANGED <<gate, at, conn, conns, task, phase, left>>
  PROVE  Inv'
BY CallersStay DEF Inv, CallerInv, Typed, AskingIsPrompting, TimedOutIsAbandoned, IsWaitedFor

\* The steps before the prompt.
LEMMA BeforePrompt ==
  ASSUME Inv, NEW c \in Conns, Reached(c) \/ Certificate(c) \/ Breaks(c) \/ \E k \in Key : CheckKey(c, k)
  PROVE  Inv'
<1>1. CASE Reached(c)
  BY <1>1, TaskMoves DEF Reached, Goes, callerVars, Tasks, MayAsk, Asking
<1>2. CASE Certificate(c)
  BY <1>2, TaskMoves DEF Certificate, Goes, callerVars, Tasks, MayAsk, Asking
<1>3. CASE Breaks(c)
  BY <1>3, TaskMoves DEF Breaks, Goes, callerVars, Tasks, MayAsk, Asking
<1>4. ASSUME NEW k \in Key, CheckKey(c, k) PROVE Inv'
  <2>1. PICK q \in {"accepted", "claim", "failed"} : Goes(c, "kex", q)
    BY <1>4 DEF CheckKey
  <2> QED BY <1>4, <2>1, TaskMoves DEF CheckKey, Goes, callerVars, Tasks, MayAsk, Asking
<1> QED BY <1>1, <1>2, <1>3, <1>4

\* Claim: only an idle phase lets the task ask, and it is idle only if the
\* caller has not given up.
LEMMA ClaimKeeps == ASSUME Inv, NEW c \in Conns, Claim(c) PROVE Inv'
<1>1. CASE phase[c] # "Idle"
  BY <1>1, TaskMoves DEF Claim, Goes, callerVars, Tasks, MayAsk, Asking
<1>2. CASE phase[c] = "Idle"
  <2>1. /\ task[c] = "claim" /\ task' = [task EXCEPT ![c] = "prompt"]
        /\ phase' = [phase EXCEPT ![c] = "Prompting"]
        /\ UNCHANGED <<gate, at, conn, conns, left>>
    BY <1>2 DEF Claim, Goes, callerVars
  <2>2. Typed'
    BY <2>1 DEF Inv, Typed, Tasks, Asking
  <2>3. AskingIsPrompting'
    BY <2>1 DEF Inv, Typed, AskingIsPrompting
  <2>4. TimedOutIsAbandoned'
    BY <1>2, <2>1 DEF Inv, Typed, TimedOutIsAbandoned
  <2>5. IsWaitedFor'
    BY <2>1 DEF Inv, Typed, IsWaitedFor, MayAsk
  <2> QED BY <2>1, <2>2, <2>3, <2>4, <2>5, CallersStay DEF Inv, CallerInv
<1> QED BY <1>1, <1>2

\* The steps of the prompt.
LEMMA PromptKeeps ==
  ASSUME Inv, NEW c \in Conns,
         Confirm(c) \/ Decline(c) \/ LearnReads(c) \/ LearnAppends(c) \/ CountPrompt(c)
  PROVE  Inv'
<1>1. /\ UNCHANGED <<gate, at, conn, conns, phase, left>>
      /\ \E p, q \in Asking : Goes(c, p, q)
  BY DEF Confirm, Decline, LearnReads, LearnAppends, CountPrompt, callerVars, Asking
<1>2. PICK p, q \in Asking : Goes(c, p, q)
  BY <1>1
<1> QED BY <1>1, <1>2, TaskMoves DEF Goes, Tasks, MayAsk

\* Release: the phase was "Prompting", so nobody had given up.
LEMMA ReleaseKeeps == ASSUME Inv, NEW c \in Conns, Release(c) PROVE Inv'
<1>1. PICK q \in {"accepted", "failed"} :
        /\ task[c] = "release" /\ task' = [task EXCEPT ![c] = q]
        /\ phase' = [phase EXCEPT ![c] = "Idle"]
        /\ UNCHANGED <<gate, at, conn, conns, left>>
  BY DEF Release, Goes, callerVars
<1>2. Typed'
  BY <1>1 DEF Inv, Typed, Tasks
<1>3. AskingIsPrompting'
  BY <1>1 DEF Inv, Typed, AskingIsPrompting, Asking
<1>4. TimedOutIsAbandoned'
  BY <1>1 DEF Inv, Typed, AskingIsPrompting, TimedOutIsAbandoned, Asking
<1>5. IsWaitedFor'
  BY <1>1 DEF Inv, Typed, IsWaitedFor, MayAsk, Asking
<1> QED BY <1>1, <1>2, <1>3, <1>4, <1>5, CallersStay DEF Inv, CallerInv

\* A caller that does not wait yet opens a connection of its own.
LEMMA DialKeeps ==
  ASSUME Inv, NEW w \in Callers, NEW h, Dials(w, h), at[w] # "hop",
         w \in gate', gate' \subseteq Callers, \A v \in Callers : Works(v) => v = w,
         UNCHANGED <<phase, left>>
  PROVE  Inv'
<1> DEFINE c == conns + 1
<1>1. /\ c \in Conns /\ conns' = c
      /\ conn' = [conn EXCEPT ![w] = c] /\ at' = [at EXCEPT ![w] = "hop"]
      /\ task' = [task EXCEPT ![c] = "dial"]
  BY DEF Dials
<1>2. c \in 0 .. MaxConns
  BY <1>1, ConnsAreNat DEF Conns
<1> HIDE DEF c
<1>3. Typed'
  <2>1. conns' \in 0 .. MaxConns /\ conn' \in [Callers -> 0 .. MaxConns]
    BY <1>1, <1>2 DEF Inv, Typed
  <2>2. task' \in [Conns -> Tasks]
    BY <1>1 DEF Inv, Typed, Tasks
  <2>3. at' \in [Callers -> {"idle", "hop", "auth", "open", "up", "user", "gone"}]
    BY <1>1 DEF Inv, Typed
  <2> QED BY <2>1, <2>2, <2>3 DEF Inv, Typed
<1>4. AskingIsPrompting' /\ TimedOutIsAbandoned'
  BY <1>1 DEF Inv, Typed, AskingIsPrompting, TimedOutIsAbandoned, Asking
<1>5. WorkingHoldsGate' /\ OneWorks' /\ WaitsForSomething'
  <2>1. \A v \in Callers : v # w => at'[v] = at[v] /\ conn'[v] = conn[v]
    BY <1>1 DEF Inv, Typed
  <2>2. \A v \in Callers : Works(v)' => v = w
    BY <2>1 DEF Works
  <2>3. WaitsForSomething'
    BY <1>1, <2>1 DEF Inv, Typed, WaitsForSomething
  <2> QED BY <2>2, <2>3 DEF WorkingHoldsGate, OneWorks
<1>6. IsWaitedFor'
  <2> SUFFICES ASSUME NEW d \in Conns, task'[d] \in MayAsk, left'[d] = "no"
               PROVE  \E v \in Callers : at'[v] = "hop" /\ conn'[v] = d
    BY DEF IsWaitedFor
  <2>1. CASE d = c
    BY <1>1, <2>1 DEF Inv, Typed
  <2>2. CASE d # c
    <3>1. PICK v \in Callers : at[v] = "hop" /\ conn[v] = d
      BY <1>1, <2>2 DEF Inv, Typed, IsWaitedFor
    <3> QED BY <1>1, <3>1 DEF Inv, Typed
  <2> QED BY <2>1, <2>2
<1> QED BY <1>3, <1>4, <1>5, <1>6 DEF Inv

\* The caller leaves the wait without ending the attempt or changing the
\* connection.
LEMMA MoveKeeps ==
  ASSUME Inv, NEW w \in Callers,
         NEW q \in {"idle", "auth", "open", "up", "user"},
         at' = [at EXCEPT ![w] = q], q \in {"auth", "open"} => Works(w),
         at[w] = "hop" => task[conn[w]] \notin MayAsk,
         UNCHANGED <<gate, conn, conns, task, phase, left>>
  PROVE  Inv'
<1>1. Typed'
  BY DEF Inv, Typed
<1>2. AskingIsPrompting' /\ TimedOutIsAbandoned'
  BY DEF Inv, AskingIsPrompting, TimedOutIsAbandoned
<1>3. WorkingHoldsGate' /\ OneWorks' /\ WaitsForSomething'
  BY DEF Inv, Typed, WorkingHoldsGate, OneWorks, WaitsForSomething, Works
<1>4. IsWaitedFor'
  BY DEF Inv, Typed, IsWaitedFor
<1> QED BY <1>1, <1>2, <1>3, <1>4 DEF Inv

\* Ending an attempt starts nothing.
LEMMA EndStartsNothing ==
  ASSUME Inv, NEW w \in Callers, NEW q, Ends(w, q)
  PROVE  /\ task' \in [Conns -> Tasks]
         /\ \A c \in Conns : task'[c] = task[c] \/ task'[c] = "ended"
BY DEF Ends, Inv, Typed, Tasks

\* The attempt ends: the caller lets go of the gate and of a future that had
\* not become a task; the connection it waited for may no longer ask, or is
\* marked as left.
LEMMA EndKeeps ==
  ASSUME Inv, NEW w \in Callers, NEW q \in {"idle", "up", "user", "gone"}, Ends(w, q),
         UNCHANGED <<conn, conns>>,
         phase' \in [Conns -> {"Idle", "Prompting", "Abandoned"}],
         left' \in [Conns -> {"no", "timed out", "dropped"}],
         AskingIsPrompting', TimedOutIsAbandoned',
         \A c \in Conns : left'[c] = "no" => left[c] = "no",
         at[w] = "hop" => left'[conn[w]] # "no" \/ task[conn[w]] \notin MayAsk
  PROVE  Inv'
<1>1. at' = [at EXCEPT ![w] = q] /\ gate' = gate \ {w}
  BY DEF Ends
<1>2. Typed'
  BY <1>1, EndStartsNothing DEF Inv, Typed
<1>3. \A c \in Conns : task'[c] \in MayAsk => task[c] \in MayAsk
  BY EndStartsNothing DEF MayAsk, Asking
<1>4. WorkingHoldsGate' /\ OneWorks' /\ WaitsForSomething'
  <2>1. \A v \in Callers : Works(v)' => v # w /\ Works(v) /\ at[v] = at'[v]
    BY <1>1 DEF Inv, Typed, Works
  <2>2. WorkingHoldsGate'
    BY <1>1, <2>1 DEF Inv, WorkingHoldsGate
  <2>3. OneWorks'
    BY <2>1 DEF Inv, OneWorks
  <2>4. WaitsForSomething'
    BY <2>1 DEF Inv, WaitsForSomething, Works
  <2> QED BY <2>2, <2>3, <2>4
<1>5. IsWaitedFor'
  <2> SUFFICES ASSUME NEW c \in Conns, task'[c] \in MayAsk, left'[c] = "no"
               PROVE  \E v \in Callers : at'[v] = "hop" /\ conn'[v] = c
    BY DEF IsWaitedFor
  <2>1. PICK v \in Callers : at[v] = "hop" /\ conn[v] = c
    BY <1>3 DEF Inv, IsWaitedFor
  <2>2. v # w
    BY <2>1, <1>3
  <2> QED BY <1>1, <2>1, <2>2 DEF Inv, Typed
<1> QED BY <1>2, <1>4, <1>5 DEF Inv

\* The same where HopState stays as it is.
LEMMA EndKeepsPhase ==
  ASSUME Inv, NEW w \in Callers, NEW q, Ends(w, q), UNCHANGED phase
  PROVE  AskingIsPrompting'
BY EndStartsNothing DEF Inv, AskingIsPrompting, Asking

\* The caller's wait: the connection is up, refused, or given up.
LEMMA WaitKeeps == ASSUME Inv, NEW w \in Callers, Waits(w) PROVE Inv'
<1>1. CASE Connected(w)
  BY <1>1, MoveKeeps DEF Connected, connVars, Works, MayAsk, Asking
<1>2. CASE Refused(w)
  <2>1. /\ at[w] = "hop" /\ task[conn[w]] = "failed" /\ UNCHANGED <<conn, conns, phase, left>>
        /\ Ends(w, After(verdict[conn[w]]))
    BY <1>2 DEF Refused
  <2>2. After(verdict[conn[w]]) \in {"idle", "user"}
    BY DEF After
  <2>3. AskingIsPrompting' /\ TimedOutIsAbandoned'
    BY <2>1, EndKeepsPhase DEF Inv, TimedOutIsAbandoned
  <2>4. task[conn[w]] \notin MayAsk
    BY <2>1 DEF MayAsk, Asking
  <2>5. phase \in [Conns -> {"Idle", "Prompting", "Abandoned"}]
        /\ left \in [Conns -> {"no", "timed out", "dropped"}]
    BY DEF Inv, Typed
  <2> QED BY <2>1, <2>2, <2>3, <2>4, <2>5, EndKeeps
<1>3. CASE TimerFires(w)
  BY <1>3, NothingMoves DEF TimerFires
<1>4. CASE GiveUp(w) /\ phase[conn[w]] # "Idle"
  BY <1>4, NothingMoves DEF GiveUp
<1>5. CASE GiveUp(w) /\ phase[conn[w]] = "Idle"
  <2>1. /\ at[w] = "hop" /\ UNCHANGED <<conn, conns>>
        /\ phase' = [phase EXCEPT ![conn[w]] = "Abandoned"]
        /\ left' = [left EXCEPT ![conn[w]] = "timed out"]
        /\ Ends(w, "idle")
    BY <1>5 DEF GiveUp
  <2>2. conn[w] \in Conns
    BY <2>1 DEF Inv, WaitsForSomething
  <2>3. AskingIsPrompting'
    BY <1>5, <2>1, <2>2, EndStartsNothing DEF Inv, Typed, AskingIsPrompting, Asking
  <2>4. TimedOutIsAbandoned'
    BY <2>1, <2>2 DEF Inv, Typed, TimedOutIsAbandoned
  <2>5. /\ phase' \in [Conns -> {"Idle", "Prompting", "Abandoned"}]
        /\ left' \in [Conns -> {"no", "timed out", "dropped"}]
        /\ \A c \in Conns : left'[c] = "no" => left[c] = "no"
        /\ left'[conn[w]] # "no"
    BY <2>1, <2>2 DEF Inv, Typed
  <2> QED BY <2>1, <2>3, <2>4, <2>5, EndKeeps
<1> QED BY <1>1, <1>2, <1>3, <1>4, <1>5 DEF Waits

\* What a caller does between waits.
LEMMA CallerKeeps ==
  ASSUME Inv, NEW w \in Callers,
         \/ Begin(w) \/ BadConfig(w) \/ NextHop(w) \/ LastHop(w)
         \/ OpenFails(w) \/ Opened(w) \/ Again(w) \/ Removed(w)
  PROVE  Inv'
<1>1. CASE Begin(w)
  BY <1>1, DialKeeps DEF Begin, Inv, WorkingHoldsGate
<1>2. CASE NextHop(w)
  <2>1. Works(w) /\ gate' = gate /\ gate \subseteq Callers
    BY <1>2 DEF NextHop, Works, Inv, Typed
  <2>2. w \in gate /\ \A v \in Callers : Works(v) => v = w
    BY <2>1 DEF Inv, WorkingHoldsGate, OneWorks
  <2> QED BY <1>2, <2>1, <2>2, DialKeeps DEF NextHop
<1>3. CASE BadConfig(w) \/ LastHop(w) \/ Again(w)
  BY <1>3, MoveKeeps DEF BadConfig, LastHop, Again, connVars, Works
<1>4. CASE OpenFails(w) \/ Opened(w)
  <2>1. PICK q \in {"idle", "user", "up"} : Ends(w, q)
    BY <1>4 DEF OpenFails, Opened
  <2>2. at[w] # "hop" /\ UNCHANGED <<conn, conns, phase, left>>
    BY <1>4 DEF OpenFails, Opened
  <2>3. AskingIsPrompting' /\ TimedOutIsAbandoned'
    BY <2>1, <2>2, EndKeepsPhase DEF Inv, TimedOutIsAbandoned
  <2>4. phase \in [Conns -> {"Idle", "Prompting", "Abandoned"}]
        /\ left \in [Conns -> {"no", "timed out", "dropped"}]
    BY DEF Inv, Typed
  <2> QED BY <2>1, <2>2, <2>3, <2>4, EndKeeps
<1>5. CASE Removed(w)
  <2>1. /\ Ends(w, "gone") /\ UNCHANGED <<conn, conns, phase>>
        /\ left' = IF at[w] = "hop" THEN [left EXCEPT ![conn[w]] = "dropped"] ELSE left
    BY <1>5 DEF Removed
  <2>2. AskingIsPrompting'
    BY <2>1, EndKeepsPhase
  <2>3. at[w] = "hop" => conn[w] \in Conns
    BY DEF Inv, WaitsForSomething
  <2>4. /\ left' \in [Conns -> {"no", "timed out", "dropped"}]
        /\ \A c \in Conns : left'[c] = "no" => left[c] = "no"
        /\ \A c \in Conns : left'[c] = "timed out" => left[c] = "timed out"
        /\ at[w] = "hop" => left'[conn[w]] # "no"
    BY <2>1, <2>3 DEF Inv, Typed
  <2>5. TimedOutIsAbandoned' /\ phase \in [Conns -> {"Idle", "Prompting", "Abandoned"}]
    BY <2>1, <2>4 DEF Inv, Typed, TimedOutIsAbandoned
  <2> QED BY <2>1, <2>2, <2>4, <2>5, EndKeeps
<1> QED BY <1>1, <1>2, <1>3, <1>4, <1>5

\* The invariant is kept by every step.
LEMMA Step == Inv /\ [Next]_vars => Inv'
<1> SUFFICES ASSUME Inv, [Next]_vars PROVE Inv'
  OBVIOUS
<1>1. CASE UNCHANGED vars
  BY <1>1, NothingMoves DEF vars
<1>2. ASSUME NEW c \in Conns, Handler(c) \/ Environment(c) PROVE Inv'
  BY <1>2, BeforePrompt, ClaimKeeps, PromptKeeps, ReleaseKeeps DEF Handler, Environment
<1>3. ASSUME NEW w \in Callers,
             \/ Begin(w) \/ BadConfig(w) \/ Waits(w) \/ NextHop(w) \/ LastHop(w)
             \/ OpenFails(w) \/ Opened(w) \/ Again(w) \/ Removed(w)
      PROVE Inv'
  BY <1>3, WaitKeeps, CallerKeeps
<1> QED BY <1>1, <1>2, <1>3 DEF Next

-----------------------------------------------------------------------------
(* The theorems.                                                           *)

\* The phase, the caller and the gate agree in every reachable state.
THEOREM Invariant == Spec => []Inv
BY Initially, Step, PTL DEF Spec

\* A connection that timed out neither asks the user nor learns a key
\* (HopState, the timer of connect_hop), for every instance.
THEOREM TimedOutHolds == Spec => []TimedOutIsSilent
<1>1. Inv => TimedOutIsSilent
  BY DEF Inv, TimedOutIsSilent, AskingIsPrompting, TimedOutIsAbandoned
<1> QED BY <1>1, Invariant, PTL

\* The gate keeps the prompts of a host apart, except for that of a caller
\* dropped with its host, for every instance.
THEOREM PromptsApartHolds == Spec => []PromptsApart
<1>1. ASSUME Inv, NEW c \in Conns, NEW d \in Conns, task[c] \in Asking, task[d] \in Asking,
             "dropped" \notin {left[c], left[d]}
      PROVE  c = d
  <2>1. left[c] = "no" /\ left[d] = "no"
    BY <1>1 DEF Inv, Typed, AskingIsPrompting, TimedOutIsAbandoned
  <2>2. PICK v \in Callers : at[v] = "hop" /\ conn[v] = c
    BY <1>1, <2>1 DEF Inv, IsWaitedFor, MayAsk
  <2>3. PICK w \in Callers : at[w] = "hop" /\ conn[w] = d
    BY <1>1, <2>1 DEF Inv, IsWaitedFor, MayAsk
  <2>4. v = w
    BY <1>1, <2>2, <2>3 DEF Inv, OneWorks, Works
  <2> QED BY <2>2, <2>3, <2>4
<1>2. Inv => PromptsApart
  BY <1>1 DEF PromptsApart
<1> QED BY <1>2, Invariant, PTL

-----------------------------------------------------------------------------
(* Who waits for a connection has not left it, and connections that are    *)
(* still to be made are untouched.                                         *)

Unmade == \A c \in Conns : c > conns => task[c] = "none" /\ left[c] = "no"
NotLeftYet == \A w \in Callers : at[w] = "hop" => conn[w] <= conns /\ left[conn[w]] = "no"
Books == Unmade /\ NotLeftYet

\* What a step may do to `left`.
LeftGrows ==
  \A c \in Conns : /\ left[c] = "dropped" => left'[c] = "dropped"
                   /\ left'[c] = "no" => left[c] = "no"

-----------------------------------------------------------------------------
(* What is learned.                                                        *)

\* The file holds the key for the name.
Holds(f, n, k) == f.there /\ scan(f.lines, n, k).known

KeysTyped ==
  /\ files \in [FileNames -> File]
  /\ name \in [Conns -> Names] /\ key \in [Conns -> SUBSET Key] /\ newline \in [Conns -> BOOLEAN]
  /\ learned \subseteq [name : Names, key : Key, by : Conns]
OneKeyShown == \A c \in Conns : \A k, l \in key[c] : k = l
LearnedIsHeld == \A r \in learned : Holds(files[LearnTo], r.name, r.key)

\* Whoever is to append has seen a last line without newline, or there is none.
AppendFits == \A c \in Conns : task[c] = "append" => newline[c] \/ files[LearnTo].ended

\* A connection that may still learn its key, and nobody left: no other key of
\* the algorithm has been learned since it was looked up.
Checking == {"claim", "prompt", "learn", "append"}
StillUnknown ==
  \A c \in Conns : task[c] \in Checking /\ left[c] = "no" =>
    \A r \in learned, k \in key[c] :
      r.name = name[c] /\ r.key.alg = k.alg => r.key = k \/ left[r.by] = "dropped"

\* Every caller is at a hop of its route.
OnRoute == hop \in [Callers -> Hops]

Learning ==
  KeysTyped /\ OneKeyShown /\ LearnedIsHeld /\ AppendFits /\ StillUnknown /\ OneKeyEach
LInv == Inv /\ Books /\ OnRoute /\ Learning

\* A line that is appended properly is added to those there are.
LEMMA AppendedHolds ==
  ASSUME NEW f \in File, NEW n \in Names, NEW k \in Key, NEW nl \in BOOLEAN, nl \/ f.ended
  PROVE  LET g == Appended(f, Learned(n, k), nl)
         IN  /\ g \in File /\ g.there /\ g.ended
             /\ Holds(g, n, k)
             /\ \A m, l : Holds(f, m, l) => Holds(g, m, l)
<1> DEFINE x == Learned(n, k)
           g == Appended(f, x, nl)
<1>1. f.lines \in Seq(Line) /\ x \in Line
  BY DEF File, Learned, Line
<1>2. g = [there |-> TRUE, readable |-> TRUE, ended |-> TRUE, lines |-> Append(f.lines, x)]
  BY DEF Appended
<1>3. x.yes = {n} /\ x.no = {} /\ x.marker = "none" /\ x.key = k
  BY DEF Learned
<1> HIDE DEF x, g
<1>4. /\ g.there /\ g.ended /\ g.lines = Append(f.lines, x)
      /\ g.lines \in Seq(Line) /\ g \in File
  BY <1>1, <1>2 DEF File
<1>5. /\ Len(f.lines) + 1 \in DOMAIN g.lines /\ g.lines[Len(f.lines) + 1] = x
      /\ \A i \in DOMAIN f.lines : i \in DOMAIN g.lines /\ g.lines[i] = f.lines[i]
  BY <1>1, <1>4
<1>6. Holds(g, n, k)
  BY <1>3, <1>4, <1>5 DEF Holds, scan, Lines, host_matches
<1>7. \A m, l : Holds(f, m, l) => Holds(g, m, l)
  BY <1>4, <1>5 DEF Holds, scan, Lines, host_matches
<1> QED BY <1>4, <1>6, <1>7 DEF x, g

\* What is appended is the last element.
LEMMA AppendedIsLast ==
  ASSUME NEW S, NEW s \in Seq(S), NEW e \in S
  PROVE  Len(s) + 1 \in DOMAIN Append(s, e) /\ Append(s, e)[Len(s) + 1] = e
OBVIOUS

\* The file that learn writes is among those that check reads.
LEMMA LearnToIsChecked == \E i \in DOMAIN Contents : Contents[i] = files[LearnTo]
<1>1. KnownFiles \in Seq(STRING) /\ LearnTo \in STRING
  BY ConnectAssumption
<1>2. \E i \in DOMAIN check_files : check_files[i] = LearnTo
  <2>1. CASE \E i \in DOMAIN KnownFiles : KnownFiles[i] = LearnTo
    BY <2>1 DEF check_files
  <2>2. CASE ~\E i \in DOMAIN KnownFiles : KnownFiles[i] = LearnTo
    <3>1. check_files = Append(KnownFiles, LearnTo)
      BY <2>2 DEF check_files
    <3>2. Len(KnownFiles) + 1 \in DOMAIN Append(KnownFiles, LearnTo)
          /\ Append(KnownFiles, LearnTo)[Len(KnownFiles) + 1] = LearnTo
      BY <1>1, AppendedIsLast, Zenon
    <3> QED BY <3>1, <3>2
  <2> QED BY <2>1, <2>2
<1> QED BY <1>2 DEF Contents

\* A key that one of the files holds is not unknown.
LEMMA CheckFinds ==
  ASSUME NEW fs, NEW n, NEW k, NEW i \in DOMAIN fs, Holds(fs[i], n, k)
  PROVE  check(fs, n, k) # "Unknown"
BY DEF check, Holds

\* A key is unknown only if no file holds another one of its algorithm.
LEMMA CheckClears ==
  ASSUME NEW fs, NEW n, NEW k, check(fs, n, k) = "Unknown",
         NEW i \in DOMAIN fs, NEW l, Holds(fs[i], n, l), l.alg = k.alg
  PROVE  l = k
<1> SUFFICES ASSUME l # k PROVE FALSE
  OBVIOUS
<1>1. fs[i].there /\ \E j \in Lines(fs[i].lines, n, "none") : fs[i].lines[j].key = l
  BY DEF Holds, scan
<1>2. scan(fs[i].lines, n, k).changed
  BY <1>1 DEF scan
<1> QED BY <1>1, <1>2 DEF check

-----------------------------------------------------------------------------
(* Every step keeps the books.                                             *)

\* A step of a session task that has been started.
LEMMA TaskBooks ==
  ASSUME Inv, Books, NEW c \in Conns, NEW p, p # "none", NEW q, Goes(c, p, q),
         UNCHANGED <<at, conn, conns, left>>
  PROVE  Books' /\ LeftGrows
<1>1. ~(c > conns)
  BY DEF Books, Unmade, Goes
<1>2. Unmade'
  BY <1>1 DEF Books, Unmade, Goes, Inv, Typed
<1>3. NotLeftYet'
  BY DEF Books, NotLeftYet
<1> QED BY <1>2, <1>3 DEF Books, LeftGrows

\* Connections are counted.
LEMMA ConnNumbers == Inv => conns \in Nat /\ \A w \in Callers : conn[w] \in Nat
<1> SUFFICES ASSUME Inv PROVE conns \in Nat /\ \A w \in Callers : conn[w] \in Nat
  OBVIOUS
<1>1. conns \in 0 .. MaxConns /\ conn \in [Callers -> 0 .. MaxConns]
  BY DEF Inv, Typed
<1>2. 0 .. MaxConns \subseteq Nat
  BY ConnsAreNat
<1> QED BY <1>1, <1>2

\* A caller opens a connection.
LEMMA DialBooks ==
  ASSUME Inv, Books, NEW w \in Callers, NEW h, Dials(w, h), UNCHANGED left
  PROVE  Books' /\ LeftGrows
<1> DEFINE c == conns + 1
<1>0. conns \in Nat /\ \A v \in Callers : conn[v] \in Nat
  BY ConnNumbers
<1>1. /\ c \in Conns /\ conns' = c
      /\ conn' = [conn EXCEPT ![w] = c] /\ at' = [at EXCEPT ![w] = "hop"]
      /\ task' = [task EXCEPT ![c] = "dial"]
  BY DEF Dials
<1> HIDE DEF c
<1>2. Unmade'
  <2> SUFFICES ASSUME NEW d \in Conns, d > conns' PROVE task'[d] = "none" /\ left'[d] = "no"
    BY DEF Unmade
  <2>1. d > conns /\ d # c
    BY <1>0, <1>1, ConnsAreNat DEF Conns, c
  <2> QED BY <1>1, <2>1 DEF Books, Unmade, Inv, Typed
<1>3. NotLeftYet'
  <2> SUFFICES ASSUME NEW v \in Callers, at'[v] = "hop" PROVE conn'[v] <= conns' /\ left'[conn'[v]] = "no"
    BY DEF NotLeftYet
  <2>1. CASE v = w
    <3>1. c > conns /\ c <= conns'
      BY <1>0, <1>1 DEF c
    <3>2. left[c] = "no"
      BY <1>1, <3>1 DEF Books, Unmade
    <3>3. conn'[v] = c
      BY <1>1, <2>1 DEF Inv, Typed
    <3> QED BY <3>1, <3>2, <3>3
  <2>2. CASE v # w
    <3>1. at[v] = "hop" /\ conn'[v] = conn[v]
      BY <1>1, <2>2 DEF Inv, Typed
    <3>2. conn[v] <= conns /\ left[conn[v]] = "no"
      BY <3>1 DEF Books, NotLeftYet
    <3> QED BY <1>0, <1>1, <3>1, <3>2 DEF c
  <2> QED BY <2>1, <2>2
<1> QED BY <1>2, <1>3 DEF Books, LeftGrows

\* A number is not both.
LEMMA NotBoth == ASSUME NEW a \in Nat, NEW b \in Nat, a <= b, a > b PROVE FALSE
OBVIOUS

\* A caller goes elsewhere, and may mark the connection it waited for as left.
LEMMA LeaveBooks ==
  ASSUME Inv, Books, NEW w \in Callers, NEW q, q # "hop", at' = [at EXCEPT ![w] = q],
         UNCHANGED <<conn, conns>>,
         \A c \in Conns : task'[c] = task[c] \/ (task'[c] = "ended" /\ task[c] # "none"),
         NEW x \in {"timed out", "dropped"},
         \/ UNCHANGED left
         \/ at[w] = "hop" /\ left' = [left EXCEPT ![conn[w]] = x]
  PROVE  Books' /\ LeftGrows
<1>1. at[w] = "hop" => conn[w] \in Conns /\ conn[w] <= conns /\ left[conn[w]] = "no"
  BY DEF Inv, WaitsForSomething, Books, NotLeftYet
<1>2. Unmade'
  <2> SUFFICES ASSUME NEW c \in Conns, c > conns PROVE task'[c] = "none" /\ left'[c] = "no"
    BY DEF Unmade
  <2>1. task[c] = "none" /\ left[c] = "no"
    BY DEF Books, Unmade
  <2>2. at[w] = "hop" => conn[w] # c
    <3> SUFFICES ASSUME at[w] = "hop", conn[w] = c PROVE FALSE
      OBVIOUS
    <3>1. c <= conns /\ c > conns /\ c \in Nat /\ conns \in Nat
      BY <1>1, ConnNumbers, ConnsAreNat DEF Conns
    <3> QED BY <3>1, NotBoth, Zenon
  <2> QED BY <2>1, <2>2 DEF Inv, Typed
<1>3. NotLeftYet'
  <2> SUFFICES ASSUME NEW v \in Callers, at'[v] = "hop" PROVE conn[v] <= conns /\ left'[conn[v]] = "no"
    BY DEF NotLeftYet
  <2>1. v # w /\ at[v] = "hop"
    BY DEF Inv, Typed
  <2>2. at[w] # "hop"
    BY <2>1 DEF Inv, OneWorks, Works
  <2> QED BY <2>1, <2>2 DEF Books, NotLeftYet
<1>4. LeftGrows
  BY <1>1 DEF LeftGrows, Inv, Typed
<1> QED BY <1>2, <1>3, <1>4 DEF Books

\* What a caller's end does to the connections.
LEMMA EndTasks ==
  ASSUME Inv, NEW w \in Callers, NEW q, Ends(w, q)
  PROVE  \A c \in Conns : task'[c] = task[c] \/ (task'[c] = "ended" /\ task[c] = "dial")
BY DEF Ends, Inv, Typed

\* The steps of a session task.
LEMMA TaskStepBooks ==
  ASSUME Inv, Books, NEW c \in Conns, Handler(c) \/ Environment(c)
  PROVE  Books' /\ LeftGrows
<1>1. UNCHANGED <<at, conn, conns, left>>
  BY DEF Handler, Environment, Claim, LearnReads, LearnAppends, CountPrompt, Release, Reached,
         Breaks, Certificate, Confirm, Decline, CheckKey, callerVars
<1>2. \E p \in Tasks \ {"none"} : \E q : Goes(c, p, q)
  <2>1. CASE Breaks(c)
    <3>1. Goes(c, task[c], "failed") /\ task[c] \in Tasks \ {"none"}
      BY <2>1 DEF Breaks, Tasks
    <3> QED BY <3>1, Zenon
  <2>2. CASE Claim(c) \/ LearnReads(c) \/ LearnAppends(c) \/ CountPrompt(c) \/ Release(c)
    <3>1. \E p \in Asking \cup {"claim"} : \E q : Goes(c, p, q)
      BY <2>2 DEF Claim, LearnReads, LearnAppends, CountPrompt, Release, Asking
    <3> QED BY <3>1 DEF Asking, Tasks
  <2>3. CASE Reached(c) \/ Certificate(c) \/ Confirm(c) \/ Decline(c) \/ \E k \in Key : CheckKey(c, k)
    <3>1. \E p \in {"dial", "kex", "prompt"} : \E q : Goes(c, p, q)
      BY <2>3, Zenon DEF Reached, Certificate, Confirm, Decline, CheckKey
    <3> QED BY <3>1 DEF Asking, Tasks
  <2> QED BY <2>1, <2>2, <2>3 DEF Handler, Environment
<1> QED BY <1>1, <1>2, TaskBooks

\* The steps of a caller.
LEMMA CallerStepBooks ==
  ASSUME Inv, Books, NEW w \in Callers,
         \/ Begin(w) \/ BadConfig(w) \/ Waits(w) \/ NextHop(w) \/ LastHop(w)
         \/ OpenFails(w) \/ Opened(w) \/ Again(w) \/ Removed(w)
  PROVE  Books' /\ LeftGrows
<1>1. CASE Begin(w) \/ NextHop(w)
  BY <1>1, DialBooks DEF Begin, NextHop
<1>2. CASE BadConfig(w) \/ LastHop(w) \/ Again(w) \/ Connected(w)
  <2>1. PICK q \in {"user", "open", "idle", "auth"} : at' = [at EXCEPT ![w] = q]
    BY <1>2 DEF BadConfig, LastHop, Again, Connected
  <2>2. UNCHANGED <<conn, conns, task, left>>
    BY <1>2 DEF BadConfig, LastHop, Again, Connected, connVars
  <2> QED BY <2>1, <2>2, LeaveBooks
<1>3. CASE Refused(w) \/ OpenFails(w) \/ Opened(w)
  <2>1. PICK q \in {"user", "idle", "up"} : Ends(w, q)
    BY <1>3 DEF Refused, OpenFails, Opened, After
  <2>2. UNCHANGED <<conn, conns, left>> /\ at' = [at EXCEPT ![w] = q]
    BY <1>3, <2>1 DEF Refused, OpenFails, Opened, Ends
  <2> QED BY <2>1, <2>2, EndTasks, LeaveBooks
<1>4. CASE TimerFires(w) \/ (GiveUp(w) /\ UNCHANGED <<gate, at, task, phase, left>>)
  <2>1. UNCHANGED <<at, conn, conns, task, left>>
    BY <1>4 DEF TimerFires, GiveUp
  <2> QED BY <2>1 DEF Books, Unmade, NotLeftYet, LeftGrows
<1>5. CASE GiveUp(w) /\ left' = [left EXCEPT ![conn[w]] = "timed out"] /\ Ends(w, "idle")
  <2>1. UNCHANGED <<conn, conns>> /\ at' = [at EXCEPT ![w] = "idle"] /\ at[w] = "hop"
    BY <1>5 DEF GiveUp, Ends
  <2> QED BY <1>5, <2>1, EndTasks, LeaveBooks
<1>6. CASE Removed(w)
  <2>1. /\ UNCHANGED <<conn, conns>> /\ at' = [at EXCEPT ![w] = "gone"] /\ Ends(w, "gone")
        /\ left' = IF at[w] = "hop" THEN [left EXCEPT ![conn[w]] = "dropped"] ELSE left
    BY <1>6 DEF Removed, Ends
  <2> QED BY <2>1, EndTasks, LeaveBooks
<1> QED BY <1>1, <1>2, <1>3, <1>4, <1>5, <1>6 DEF Waits, GiveUp

-----------------------------------------------------------------------------
(* Every step keeps what was learned.                                      *)

\* Nothing was learned yet.
LEMMA LearningInitially == Init => Books /\ OnRoute /\ Learning
<1> SUFFICES ASSUME Init PROVE Books /\ OnRoute /\ Learning
  OBVIOUS
<1>1. Books
  BY DEF Init, Books, Unmade, NotLeftYet
<1>2. files \in [FileNames -> File]
  BY ConnectAssumption DEF Init
<1>3. Route[1] \in Names
  BY ConnectAssumption
<1>4. KeysTyped
  BY <1>2, <1>3 DEF Init, KeysTyped
<1>5. OneKeyShown /\ LearnedIsHeld /\ AppendFits /\ StillUnknown /\ OneKeyEach
  BY DEF Init, OneKeyShown, LearnedIsHeld, AppendFits, StillUnknown, OneKeyEach, Checking
<1>6. OnRoute
  BY ConnectAssumption DEF Init, OnRoute, Hops
<1> QED BY <1>1, <1>4, <1>5, <1>6 DEF Learning

\* A step by which nothing is looked up, learned or written: names and keys
\* stay for what is still checking.
LEMMA LearningStays ==
  ASSUME Learning, LeftGrows, UNCHANGED <<key, newline, files, learned>>,
         name' \in [Conns -> Names],
         \A c \in Conns : task'[c] \in Checking => task[c] \in Checking /\ name'[c] = name[c],
         \A c \in Conns : task'[c] = "append" => task[c] = "append"
  PROVE  Learning'
<1>1. KeysTyped' /\ OneKeyShown' /\ LearnedIsHeld' /\ AppendFits'
  BY DEF Learning, KeysTyped, OneKeyShown, LearnedIsHeld, AppendFits
<1>2. \A r \in learned : r.by \in Conns
  BY DEF Learning, KeysTyped
<1>3. StillUnknown'
  BY <1>2 DEF Learning, StillUnknown, LeftGrows
<1>4. OneKeyEach'
  BY <1>2 DEF Learning, OneKeyEach, LeftGrows
<1> QED BY <1>1, <1>3, <1>4 DEF Learning

\* The key is looked up: if it is unknown, no other one of its algorithm was
\* learned.
LEMMA CheckLearning ==
  ASSUME Inv, Books, Learning, NEW c \in Conns, NEW k \in Key, CheckKey(c, k)
  PROVE  Learning'
<1> DEFINE status == check(Contents, name[c], k)
<1>1. /\ key' = [key EXCEPT ![c] = {k}] /\ task[c] = "kex"
      /\ \E q \in {"accepted", "claim", "failed"} :
           task' = [task EXCEPT ![c] = q] /\ (q = "claim" => status = "Unknown")
      /\ UNCHANGED <<name, newline, files, learned, left>>
  BY DEF CheckKey, Goes
<1>2. PICK q \in {"accepted", "claim", "failed"} :
        task' = [task EXCEPT ![c] = q] /\ (q = "claim" => status = "Unknown")
  BY <1>1
<1>3. KeysTyped' /\ OneKeyShown' /\ LearnedIsHeld' /\ OneKeyEach'
  BY <1>1 DEF Learning, KeysTyped, OneKeyShown, LearnedIsHeld, OneKeyEach
<1>4. AppendFits'
  BY <1>1, <1>2 DEF Learning, AppendFits, Inv, Typed
<1>5. StillUnknown'
  <2> SUFFICES ASSUME NEW d \in Conns, task'[d] \in Checking, left[d] = "no",
                      NEW r \in learned, NEW l \in key'[d], r.name = name[d], r.key.alg = l.alg
               PROVE  r.key = l \/ left[r.by] = "dropped"
    BY <1>1 DEF StillUnknown
  <2>1. CASE d # c
    BY <1>1, <1>2, <2>1 DEF Learning, KeysTyped, StillUnknown, Inv, Typed
  <2>2. CASE d = c
    <3>1. l = k /\ status = "Unknown"
      BY <1>1, <1>2, <2>2 DEF Learning, KeysTyped, Inv, Typed, Checking
    <3>2. Holds(files[LearnTo], name[c], r.key)
      BY <2>2 DEF Learning, LearnedIsHeld
    <3>3. PICK i \in DOMAIN Contents : Contents[i] = files[LearnTo]
      BY LearnToIsChecked
    <3> QED BY <3>1, <3>2, <3>3, CheckClears
  <2> QED BY <2>1, <2>2
<1> QED BY <1>3, <1>4, <1>5 DEF Learning

\* Whoever records a key, no other connection that nobody left is between
\* lookup and recording: the gate keeps them apart.
LEMMA OneChecks ==
  ASSUME Inv, NEW c \in Conns, NEW d \in Conns, task[c] \in Asking, task[d] \in Checking,
         left[d] = "no", left[c] # "dropped"
  PROVE  c = d
<1>1. left[c] = "no"
  BY DEF Inv, Typed, AskingIsPrompting, TimedOutIsAbandoned
<1>2. task[d] \in MayAsk
  BY DEF Checking, MayAsk, Asking
<1>3. PICK v \in Callers : at[v] = "hop" /\ conn[v] = c
  BY <1>1 DEF Inv, IsWaitedFor, MayAsk
<1>4. PICK w \in Callers : at[w] = "hop" /\ conn[w] = d
  BY <1>2 DEF Inv, IsWaitedFor
<1>5. v = w
  BY <1>3, <1>4 DEF Inv, OneWorks, Works
<1> QED BY <1>3, <1>4, <1>5

\* A key is recorded: it is in the file, and no other of its algorithm was
\* recorded since it was looked up.
LEMMA RecordLearning ==
  ASSUME Inv, Learning, NEW c \in Conns, task[c] \in {"learn", "append"},
         task' = [task EXCEPT ![c] = "count"],
         NEW k, k \in key[c], learned' = learned \cup Recorded(c),
         UNCHANGED <<name, key, newline, left>>,
         files' \in [FileNames -> File],
         Holds(files'[LearnTo], name[c], k),
         files[LearnTo].ended => files'[LearnTo].ended,
         \A m, l : Holds(files[LearnTo], m, l) => Holds(files'[LearnTo], m, l)
  PROVE  Learning'
<1> DEFINE x == [name |-> name[c], key |-> k, by |-> c]
<1>1. key[c] = {k} /\ k \in Key /\ name[c] \in Names
  BY DEF Learning, OneKeyShown, KeysTyped
<1>2. learned' = learned \cup {x}
  BY <1>1 DEF Recorded
<1>3. x \in [name : Names, key : Key, by : Conns] /\ x.name = name[c] /\ x.key = k /\ x.by = c
  BY <1>1
<1> HIDE DEF x
<1>4. KeysTyped'
  BY <1>2, <1>3 DEF Learning, KeysTyped
<1>5. OneKeyShown' /\ AppendFits'
  BY DEF Learning, OneKeyShown, AppendFits, Inv, Typed
<1>6. LearnedIsHeld'
  BY <1>2, <1>3 DEF Learning, LearnedIsHeld
<1>7. \A d \in Conns : task'[d] \in Checking => d # c /\ task[d] \in Checking
  BY DEF Checking, Inv, Typed
<1>8. task[c] \in Asking /\ task[c] \in Checking /\ left[c] # "timed out"
  BY DEF Asking, Checking, Inv, AskingIsPrompting, TimedOutIsAbandoned
<1>9. StillUnknown'
  <2> SUFFICES ASSUME NEW d \in Conns, task'[d] \in Checking, left[d] = "no",
                      NEW r \in learned', NEW l \in key[d], r.name = name[d], r.key.alg = l.alg
               PROVE  r.key = l \/ left[r.by] = "dropped"
    BY DEF StillUnknown
  <2>1. CASE r \in learned
    BY <1>7, <2>1 DEF Learning, StillUnknown
  <2>2. CASE r = x
    <3>1. left[c] = "dropped"
      BY <1>7, <1>8, OneChecks
    <3> QED BY <1>3, <2>2, <3>1
  <2> QED BY <1>2, <2>1, <2>2
<1>10. OneKeyEach'
  <2>1. \A r \in learned : r.name = x.name /\ r.key.alg = x.key.alg =>
          r.key = x.key \/ "dropped" \in {left[r.by], left[x.by]}
    <3>1. CASE left[c] = "dropped"
      BY <1>3, <3>1
    <3>2. CASE left[c] = "no"
      BY <1>3, <1>8, <3>2 DEF Learning, StillUnknown
    <3> QED BY <1>8, <3>1, <3>2 DEF Inv, Typed
  <2>2. \A r, s \in learned : r.name = s.name /\ r.key.alg = s.key.alg =>
          r.key = s.key \/ "dropped" \in {left[r.by], left[s.by]}
    BY DEF Learning, OneKeyEach
  <2>3. \A r, s \in learned' : r.name = s.name /\ r.key.alg = s.key.alg =>
          r.key = s.key \/ "dropped" \in {left[r.by], left[s.by]}
    BY <1>2, <2>1, <2>2
  <2> QED BY <2>3 DEF OneKeyEach
<1> QED BY <1>4, <1>5, <1>6, <1>9, <1>10 DEF Learning

\* learn: the file holds the key by now, is appended to, or cannot be.
LEMMA LearnLearning ==
  ASSUME Inv, Books, Learning, NEW c \in Conns, LearnReads(c) \/ LearnAppends(c)
  PROVE  Learning'
<1> DEFINE file == files[LearnTo]
<1>1. UNCHANGED <<name, key, left>> /\ file \in File /\ LearnTo \in FileNames
  BY DEF LearnReads, LearnAppends, Learning, KeysTyped, FileNames
<1>2. LeftGrows
  BY <1>1 DEF LeftGrows
<1>3. CASE \E p \in {"learn", "append"} :
             Goes(c, p, "count") /\ UNCHANGED <<newline, files, learned>>
  <2>1. \A d \in Conns : task'[d] \in Checking => task'[d] = task[d]
    BY <1>3 DEF Goes, Checking, Inv, Typed
  <2>2. name' \in [Conns -> Names]
    BY <1>1 DEF Learning, KeysTyped
  <2> QED BY <1>1, <1>2, <1>3, <2>1, <2>2, LearningStays DEF Checking
<1>4. CASE /\ file.there /\ file.readable
           /\ \E k \in key[c] : scan(file.lines, name[c], k).known
           /\ Goes(c, "learn", "count")
           /\ learned' = learned \cup Recorded(c)
           /\ UNCHANGED <<newline, files>>
  <2>1. PICK k \in key[c] : scan(file.lines, name[c], k).known
    BY <1>4
  <2>2. Holds(file, name[c], k)
    BY <1>4, <2>1 DEF Holds
  <2>3. files' \in [FileNames -> File] /\ files' = files
    BY <1>4 DEF Learning, KeysTyped
  <2> QED BY <1>1, <1>4, <2>1, <2>2, <2>3, RecordLearning DEF Goes
<1>5. CASE /\ Goes(c, "learn", "append")
           /\ newline' = [newline EXCEPT ![c] = ~file.ended]
           /\ UNCHANGED <<files, learned>>
  <2>1. newline' \in [Conns -> BOOLEAN] /\ (newline'[c] \/ file.ended)
        /\ \A d \in Conns \ {c} : newline'[d] = newline[d]
    BY <1>1, <1>5 DEF Learning, KeysTyped, File
  <2>2. KeysTyped' /\ OneKeyShown' /\ LearnedIsHeld' /\ OneKeyEach'
    BY <1>1, <1>5, <2>1 DEF Learning, KeysTyped, OneKeyShown, LearnedIsHeld, OneKeyEach
  <2>3. AppendFits'
    BY <1>5, <2>1 DEF Learning, AppendFits, Goes, Inv, Typed
  <2>4. \A d \in Conns : task'[d] \in Checking => task[d] \in Checking
    BY <1>5 DEF Goes, Checking, Inv, Typed
  <2>5. StillUnknown'
    BY <1>1, <1>5, <2>4 DEF Learning, StillUnknown
  <2> QED BY <2>2, <2>3, <2>5 DEF Learning
<1>6. CASE /\ Goes(c, "append", "count")
           /\ \E k \in key[c] :
                files' = [files EXCEPT ![LearnTo] = Appended(@, Learned(name[c], k), newline[c])]
           /\ learned' = learned \cup Recorded(c)
           /\ UNCHANGED newline
  <2>1. PICK k \in key[c] :
          files' = [files EXCEPT ![LearnTo] = Appended(file, Learned(name[c], k), newline[c])]
    BY <1>6
  <2>2. k \in Key /\ name[c] \in Names /\ newline[c] \in BOOLEAN /\ (newline[c] \/ file.ended)
    BY <1>6 DEF Learning, KeysTyped, AppendFits, Goes
  <2> DEFINE g == Appended(file, Learned(name[c], k), newline[c])
  <2>3. /\ g \in File /\ g.there /\ g.ended /\ Holds(g, name[c], k)
        /\ \A m, l : Holds(file, m, l) => Holds(g, m, l)
    BY <1>1, <2>2, AppendedHolds
  <2> HIDE DEF g
  <2>4. files' \in [FileNames -> File] /\ files'[LearnTo] = g
    BY <1>1, <2>1, <2>3 DEF Learning, KeysTyped, g
  <2> QED BY <1>1, <1>6, <2>3, <2>4, RecordLearning DEF Goes
<1> QED BY <1>3, <1>4, <1>5, <1>6 DEF LearnReads, LearnAppends

\* The other steps of a session task.
LEMMA TaskLearning ==
  ASSUME Inv, Learning, LeftGrows, NEW c \in Conns,
         \/ Claim(c) \/ CountPrompt(c) \/ Release(c) \/ Reached(c) \/ Breaks(c)
         \/ Certificate(c) \/ Confirm(c) \/ Decline(c)
  PROVE  Learning'
<1>1. UNCHANGED <<name, key, newline, files, learned>> /\ name' \in [Conns -> Names]
  BY DEF Claim, CountPrompt, Release, Reached, Breaks, Certificate, Confirm, Decline, Learning, KeysTyped
<1>2. \E q : /\ task' = [task EXCEPT ![c] = q] /\ q # "append"
             /\ q \in Checking => task[c] \in Checking
  BY DEF Claim, CountPrompt, Release, Reached, Breaks, Certificate, Confirm, Decline, Goes, Checking
<1>3. \A d \in Conns : /\ task'[d] \in Checking => task[d] \in Checking
                       /\ task'[d] = "append" => task[d] = "append"
  BY <1>2 DEF Inv, Typed
<1> QED BY <1>1, <1>3, LearningStays

\* A hop that is not the last has one after it.
LEMMA HopAfter ==
  ASSUME OnRoute, NEW w \in Callers, hop[w] < Len(Route)
  PROVE  hop[w] + 1 \in Hops
<1>1. Hops = 1 .. Len(Route) /\ Len(Route) \in Nat
  BY ConnectAssumption DEF Hops
<1>2. hop[w] \in 1 .. Len(Route)
  BY <1>1 DEF OnRoute
<1> QED BY <1>1, <1>2

\* No step leaves the route.
LEMMA RouteKept ==
  ASSUME OnRoute, NEW w \in Callers,
         UNCHANGED hop \/ \E h \in Hops : Dials(w, h)
  PROVE  OnRoute'
BY DEF OnRoute, Dials

\* The steps of a caller.
LEMMA CallerLearning ==
  ASSUME Inv, Books, OnRoute, Learning, LeftGrows, NEW w \in Callers,
         \/ Begin(w) \/ BadConfig(w) \/ Waits(w) \/ NextHop(w) \/ LastHop(w)
         \/ OpenFails(w) \/ Opened(w) \/ Again(w) \/ Removed(w)
  PROVE  OnRoute' /\ Learning'
<1>1. UNCHANGED <<key, newline, files, learned>>
  BY DEF Begin, BadConfig, Waits, Connected, Refused, TimerFires, GiveUp, NextHop, LastHop,
         OpenFails, Opened, Again, Removed, connVars
<1>2. CASE \E h \in Hops : Dials(w, h)
  <2>1. PICK h \in Hops : Dials(w, h)
    BY <1>2
  <2>2. Route[h] \in Names
    BY ConnectAssumption DEF Hops
  <2>3. name' \in [Conns -> Names]
    BY <2>1, <2>2 DEF Dials, Learning, KeysTyped
  <2>4. \A d \in Conns : task'[d] \in Checking => task'[d] = task[d] /\ name'[d] = name[d]
    BY <2>1 DEF Dials, Checking, Inv, Typed, Learning, KeysTyped
  <2> QED BY <1>1, <1>2, <2>3, <2>4, LearningStays, RouteKept DEF Checking
<1>3. CASE UNCHANGED <<name, hop>> /\ (UNCHANGED task \/ \E q : Ends(w, q))
  <2>1. name' \in [Conns -> Names]
    BY <1>3 DEF Learning, KeysTyped
  <2>2. \A d \in Conns : task'[d] \in Checking => task'[d] = task[d]
    BY <1>3, EndTasks DEF Checking
  <2> QED BY <1>1, <1>3, <2>1, <2>2, LearningStays, RouteKept DEF Checking
<1>4. \/ \E h \in Hops : Dials(w, h)
      \/ UNCHANGED <<name, hop>> /\ (UNCHANGED task \/ \E q : Ends(w, q))
  <2>1. 1 \in Hops
    BY ConnectAssumption DEF Hops
  <2>2. CASE Begin(w)
    BY <2>1, <2>2 DEF Begin
  <2>3. CASE NextHop(w)
    BY <2>3, HopAfter DEF NextHop
  <2>4. CASE \/ BadConfig(w) \/ Waits(w) \/ LastHop(w)
             \/ OpenFails(w) \/ Opened(w) \/ Again(w) \/ Removed(w)
    BY <2>4 DEF BadConfig, Waits, Connected, Refused, TimerFires, GiveUp, LastHop,
                OpenFails, Opened, Again, Removed, connVars
  <2> QED BY <2>2, <2>3, <2>4
<1> QED BY <1>2, <1>3, <1>4

\* Every step keeps the invariant.
LEMMA LearningStep == LInv /\ [Next]_vars => LInv'
<1> SUFFICES ASSUME LInv, [Next]_vars PROVE LInv'
  OBVIOUS
<1>1. Inv /\ Books /\ OnRoute /\ Learning
  BY DEF LInv
<1>2. Inv'
  BY <1>1, Step
<1>3. CASE UNCHANGED vars
  <2>1. Books' /\ OnRoute' /\ LeftGrows
    BY <1>1, <1>3 DEF vars, Books, Unmade, NotLeftYet, OnRoute, LeftGrows
  <2>2. UNCHANGED <<task, name, key, newline, files, learned>> /\ name' \in [Conns -> Names]
    BY <1>1, <1>3 DEF vars, Learning, KeysTyped
  <2>3. Learning'
    BY <1>1, <2>1, <2>2, LearningStays
  <2> QED BY <1>2, <2>1, <2>3 DEF LInv
<1>4. ASSUME NEW c \in Conns, Handler(c) \/ Environment(c) PROVE LInv'
  <2>1. Books' /\ LeftGrows
    BY <1>1, <1>4, TaskStepBooks
  <2>2. OnRoute'
    BY <1>1, <1>4 DEF Handler, Environment, Claim, LearnReads, LearnAppends, CountPrompt, Release,
         Reached, Breaks, Certificate, Confirm, Decline, CheckKey, callerVars, OnRoute
  <2>3. CASE LearnReads(c) \/ LearnAppends(c)
    BY <1>1, <1>2, <2>1, <2>2, <2>3, LearnLearning DEF LInv
  <2>4. CASE \E k \in Key : CheckKey(c, k)
    BY <1>1, <1>2, <2>1, <2>2, <2>4, CheckLearning DEF LInv
  <2>5. CASE \/ Claim(c) \/ CountPrompt(c) \/ Release(c) \/ Reached(c) \/ Breaks(c)
             \/ Certificate(c) \/ Confirm(c) \/ Decline(c)
    BY <1>1, <1>2, <2>1, <2>2, <2>5, TaskLearning DEF LInv
  <2> QED BY <1>4, <2>3, <2>4, <2>5 DEF Handler, Environment
<1>5. ASSUME NEW w \in Callers,
             \/ Begin(w) \/ BadConfig(w) \/ Waits(w) \/ NextHop(w) \/ LastHop(w)
             \/ OpenFails(w) \/ Opened(w) \/ Again(w) \/ Removed(w)
      PROVE LInv'
  <2>1. Books' /\ LeftGrows
    BY <1>1, <1>5, CallerStepBooks
  <2>2. OnRoute' /\ Learning'
    BY <1>1, <1>5, <2>1, CallerLearning
  <2> QED BY <1>2, <2>1, <2>2 DEF LInv
<1> QED BY <1>3, <1>4, <1>5 DEF Next

-----------------------------------------------------------------------------
(* The theorems about what is learned.                                     *)

\* The files, the confirmed keys and the connections that still check theirs
\* agree in every reachable state.
THEOREM LearningInvariant == Spec => []LInv
<1>1. Init => LInv
  BY Initially, LearningInitially DEF LInv
<1> QED BY <1>1, LearningStep, PTL DEF Spec

\* A key that the user confirmed and learn recorded is found by every later
\* check (check_files contains learn_to; learn mends the last line), for any
\* contents of the files at the start.
THEOREM LearnedHolds == Spec => []LearnedIsKnown
<1>1. ASSUME LInv, NEW r \in learned PROVE check(Contents, r.name, r.key) # "Unknown"
  <2>1. Holds(files[LearnTo], r.name, r.key)
    BY <1>1 DEF LInv, Learning, LearnedIsHeld
  <2>2. PICK i \in DOMAIN Contents : Contents[i] = files[LearnTo]
    BY LearnToIsChecked
  <2>3. Holds(Contents[i], r.name, r.key)
    BY <2>1, <2>2, Zenon
  <2> QED BY <2>3, CheckFinds
<1>2. LInv => LearnedIsKnown
  BY <1>1 DEF LearnedIsKnown
<1> QED BY <1>2, LearningInvariant, PTL

\* No two keys of one algorithm are learned for a host (check_server_key),
\* except by a caller dropped with its host, for every instance.
THEOREM OneKeyHolds == Spec => []OneKeyEach
<1>1. LInv => OneKeyEach
  BY DEF LInv, Learning
<1> QED BY <1>1, LearningInvariant, PTL

-----------------------------------------------------------------------------
(* Types.                                                                  *)

\* What LInv leaves open of the type.
Rest ==
  /\ timer \in [Callers -> {"sleep", "looked"}]
  /\ done \in [Conns -> Nat] /\ seen \in [Conns -> Nat]
  /\ verdict \in [Conns -> {"none", "Connect", "Rejected", "Changed", "Revoked"}]

\* The steps of a session task count prompts and give verdicts.
LEMMA TaskRest ==
  ASSUME Rest, NEW c \in Conns, Handler(c) \/ Environment(c)
  PROVE  Rest'
<1>1. UNCHANGED <<timer, seen>>
  BY DEF Handler, Environment, Claim, LearnReads, LearnAppends, CountPrompt, Release,
         Reached, Breaks, Certificate, Confirm, Decline, CheckKey, callerVars
<1>2. UNCHANGED done \/ done' = [done EXCEPT ![c] = @ + 1]
  BY DEF Handler, Environment, Claim, LearnReads, LearnAppends, CountPrompt, Release,
         Reached, Breaks, Certificate, Confirm, Decline, CheckKey
<1>3. done' \in [Conns -> Nat]
  BY <1>2 DEF Rest
<1>4. UNCHANGED verdict \/ \E e \in {"Connect", "Rejected", "Changed", "Revoked"} : Refuse(c, e)
  BY DEF Handler, Environment, Claim, LearnReads, LearnAppends, CountPrompt, Release,
         Reached, Breaks, Certificate, Confirm, Decline, CheckKey
<1>5. verdict' \in [Conns -> {"none", "Connect", "Rejected", "Changed", "Revoked"}]
  BY <1>4 DEF Rest, Refuse
<1> QED BY <1>1, <1>3, <1>5 DEF Rest

\* The steps of a caller set its timer and its copy of the count.
LEMMA CallerRest ==
  ASSUME Inv, Rest, NEW w \in Callers,
         \/ Begin(w) \/ BadConfig(w) \/ Waits(w) \/ NextHop(w) \/ LastHop(w)
         \/ OpenFails(w) \/ Opened(w) \/ Again(w) \/ Removed(w)
  PROVE  Rest'
<1>1. UNCHANGED <<done, verdict>>
  BY DEF Begin, BadConfig, Waits, Connected, Refused, TimerFires, GiveUp, NextHop, LastHop,
         OpenFails, Opened, Again, Removed, connVars
<1>2. UNCHANGED timer \/ \E q \in {"sleep", "looked"} : timer' = [timer EXCEPT ![w] = q]
  BY DEF Begin, BadConfig, Waits, Connected, Refused, TimerFires, GiveUp, NextHop, LastHop,
         OpenFails, Opened, Again, Removed, Dials
<1>3. UNCHANGED seen \/ (at[w] = "hop" /\ seen' = [seen EXCEPT ![conn[w]] = done[conn[w]]])
  BY DEF Begin, BadConfig, Waits, Connected, Refused, TimerFires, GiveUp, NextHop, LastHop,
         OpenFails, Opened, Again, Removed, connVars
<1>4. seen' \in [Conns -> Nat]
  BY <1>3 DEF Rest, Inv, WaitsForSomething
<1> QED BY <1>1, <1>2, <1>4 DEF Rest

\* Every state of the callers, the connections and the files is well typed;
\* a caller that waits always has a connection, and is at a hop of its route.
THEOREM TypeCorrect == Spec => []TypeOK
<1>1. Init => Rest
  BY DEF Init, Rest
<1>2. LInv /\ Rest /\ [Next]_vars => Rest'
  <2> SUFFICES ASSUME LInv, Rest, [Next]_vars PROVE Rest'
    OBVIOUS
  <2>1. CASE UNCHANGED vars
    BY <2>1 DEF vars, Rest
  <2>2. CASE Next
    BY <2>2, TaskRest, CallerRest DEF Next, LInv
  <2> QED BY <2>1, <2>2
<1>3. LInv /\ Rest => TypeOK
  BY DEF LInv, Inv, Typed, OnRoute, Learning, KeysTyped, Rest, TypeOK
<1> QED BY <1>1, <1>2, <1>3, LearningInvariant, PTL DEF Spec
=============================================================================
