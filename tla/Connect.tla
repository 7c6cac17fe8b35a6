------------------------------ MODULE Connect ------------------------------
(***************************************************************************)
(* Connecting to a host over SSH, hop by hop (mai-core/src/ssh/client.rs,  *)
(* connect.rs).  The callers are the tasks of one host id: its probe task, *)
(* its terminal task, and those of the host added again.  They share the   *)
(* host's gate, held from the first hop until the session is set up.       *)
(*                                                                         *)
(* A connection has two sides that run on different threads: the caller,   *)
(* which waits for the key exchange with a timer, and russh's session      *)
(* task, which checks the server's key, may ask the user and learns the    *)
(* key.  HopState coordinates them.  A caller that gives up, or is dropped *)
(* because its host was removed, leaves the session task behind.           *)
(*                                                                         *)
(* What authenticate does is in Auth; here it succeeds or fails.           *)
(***************************************************************************)
EXTENDS KnownHosts, FiniteSets

CONSTANTS
  Callers,
  Route,        \* the hops: jump hosts, outermost first, then the host
  KnownFiles,   \* ConnectOptions::known_hosts
  LearnTo,      \* ConnectOptions::learn_to
  FirstFiles,   \* name -> what the file may hold at the start
  MaxConns      \* bound: connections made

FileNames == {LearnTo} \cup {KnownFiles[i] : i \in DOMAIN KnownFiles}

ASSUME ConnectAssumption ==
  /\ Route \in Seq(Names) /\ Len(Route) > 0
  /\ KnownFiles \in Seq(STRING) /\ LearnTo \in STRING
  /\ \A n \in FileNames : \A f \in FirstFiles[n] : f \in File
  /\ MaxConns \in Nat

Conns == 1 .. MaxConns
Hops == DOMAIN Route

\* Between claiming the prompt and giving it back.
Asking == {"prompt", "learn", "append", "count", "release"}
Tasks == {"none", "dial", "kex", "claim", "accepted", "failed", "ended"} \cup Asking

VARIABLES
  \* Callers.
  gate,      \* who holds the gate: {} or one caller
  at,        \* what the caller does
  hop,       \* the hop it is at
  conn,      \* its connection, 0 before the first
  timer,     \* "sleep", or "looked": fired, and prompts_done was unchanged
  \* Connections.
  conns,     \* connections made so far
  task,      \* where the session task (or the dialing future) is
  phase,     \* HopState::phase
  done,      \* HopState::prompts_done
  seen,      \* the caller's copy of it
  name,      \* the host
  key,       \* the key the server presented: {} or one
  verdict,   \* why the key was refused
  newline,   \* learn found a last line without newline
  \* The rest.
  files,     \* name -> what the file holds
  learned,   \* keys the user confirmed and learn recorded: [name, key, by]
  left       \* connections whose caller no longer waits for them, and why

callerVars == <<gate, at, hop, conn, timer>>
connVars == <<conns, task, phase, done, seen, name, key, verdict, newline>>
vars == <<gate, at, hop, conn, timer, conns, task, phase, done, seen, name, key, verdict,
          newline, files, learned, left>>

\* Every part of the state has its type.
TypeOK ==
  /\ gate \subseteq Callers
  /\ at \in [Callers -> {"idle", "hop", "auth", "open", "up", "user", "gone"}]
  /\ hop \in [Callers -> Hops] /\ conn \in [Callers -> 0 .. MaxConns]
  /\ timer \in [Callers -> {"sleep", "looked"}]
  /\ conns \in 0 .. MaxConns
  /\ task \in [Conns -> Tasks]
  /\ phase \in [Conns -> {"Idle", "Prompting", "Abandoned"}]
  /\ done \in [Conns -> Nat] /\ seen \in [Conns -> Nat]
  /\ name \in [Conns -> Names] /\ key \in [Conns -> SUBSET Key]
  /\ verdict \in [Conns -> {"none", "Connect", "Rejected", "Changed", "Revoked"}]
  /\ newline \in [Conns -> BOOLEAN]
  /\ files \in [FileNames -> File]
  /\ learned \subseteq [name : Names, key : Key, by : Conns]
  /\ left \in [Conns -> {"no", "timed out", "dropped"}]

-----------------------------------------------------------------------------
(* The session task: check_server_key.                                     *)

\* Mutant: learn_to is not among the files checked.
check_files_listed == KnownFiles

check_files ==
  IF \E i \in DOMAIN KnownFiles : KnownFiles[i] = LearnTo
    THEN KnownFiles ELSE Append(KnownFiles, LearnTo)

Contents == [i \in DOMAIN check_files |-> files[check_files[i]]]

Goes(c, p, q) == task[c] = p /\ task' = [task EXCEPT ![c] = q]
Refuse(c, e) == verdict' = [verdict EXCEPT ![c] = e]

\* TCP (or the channel through the hop before) and the SSH id: from here on
\* the session is a task of its own.
Reached(c) ==
  /\ Goes(c, "dial", "kex")
  /\ UNCHANGED <<callerVars, conns, phase, done, seen, name, key, verdict, newline, files,
                 learned, left>>

\* The server presents a host certificate.
Certificate(c) ==
  /\ Goes(c, "kex", "failed")
  /\ Refuse(c, "Connect")
  /\ UNCHANGED <<callerVars, conns, phase, done, seen, name, key, newline, files, learned,
                 left>>

\* The server presents key k, and the files are read.
CheckKey(c, k) ==
  LET status == check(Contents, name[c], k)
  IN /\ Goes(c, "kex", CASE status = "Known"   -> "accepted"
                         [] status = "Unknown" -> "claim"
                         [] OTHER              -> "failed")
     /\ key' = [key EXCEPT ![c] = {k}]
     /\ CASE status \in {"Changed", "Revoked"} -> Refuse(c, status)
          [] status = "Unreadable"             -> Refuse(c, "Connect")
          [] OTHER                             -> UNCHANGED verdict
     /\ UNCHANGED <<callerVars, conns, phase, done, seen, name, newline, files, learned,
                    left>>

\* Mutant: the prompt is opened without asking whether the timer was faster.
ClaimAnyway(c) ==
  /\ Goes(c, "claim", "prompt")
  /\ phase' = [phase EXCEPT ![c] = "Prompting"]
  /\ UNCHANGED <<callerVars, conns, done, seen, name, key, verdict, newline, files, learned,
                 left>>

\* Unknown: compare and swap IDLE -> PROMPTING, then the user is asked.
Claim(c) ==
  /\ \/ /\ phase[c] = "Idle"
        /\ Goes(c, "claim", "prompt")
        /\ phase' = [phase EXCEPT ![c] = "Prompting"]
     \/ /\ phase[c] # "Idle"
        /\ Goes(c, "claim", "failed")
        /\ UNCHANGED phase
  /\ UNCHANGED <<callerVars, conns, done, seen, name, key, verdict, newline, files, learned,
                 left>>

\* The user answers.
Confirm(c) ==
  /\ Goes(c, "prompt", "learn")
  /\ UNCHANGED <<callerVars, conns, phase, done, seen, name, key, verdict, newline, files,
                 learned, left>>

Decline(c) ==
  /\ Goes(c, "prompt", "count")
  /\ Refuse(c, "Rejected")
  /\ UNCHANGED <<callerVars, conns, phase, done, seen, name, key, newline, files, learned,
                 left>>

Recorded(c) == {[name |-> name[c], key |-> k, by |-> c] : k \in key[c]}

\* learn reads the file: it may be unreadable, or hold the key by now.
LearnReads(c) ==
  /\ LET file == files[LearnTo]
     IN \/ /\ file.there /\ ~file.readable
           /\ Goes(c, "learn", "count")
           /\ Refuse(c, "Connect")
           /\ UNCHANGED <<newline, learned>>
        \/ /\ file.there /\ file.readable
           /\ \E k \in key[c] : scan(file.lines, name[c], k).known
           /\ Goes(c, "learn", "count")
           /\ learned' = learned \cup Recorded(c)
           /\ UNCHANGED <<newline, verdict>>
        \/ /\ ~file.there \/ file.readable
           /\ \A k \in key[c] : ~scan(file.lines, name[c], k).known
           /\ Goes(c, "learn", "append")
           /\ newline' = [newline EXCEPT ![c] = ~file.ended]
           /\ UNCHANGED <<verdict, learned>>
  /\ UNCHANGED <<callerVars, conns, phase, done, seen, name, key, files, left>>

\* learn appends the line, or cannot.
LearnAppends(c) ==
  /\ Goes(c, "append", "count")
  /\ \/ /\ \E k \in key[c] :
             files' = [files EXCEPT ![LearnTo] = Appended(@, Learned(name[c], k), newline[c])]
        /\ learned' = learned \cup Recorded(c)
        /\ UNCHANGED verdict
     \/ Refuse(c, "Connect") /\ UNCHANGED <<files, learned>>
  /\ UNCHANGED <<callerVars, conns, phase, done, seen, name, key, newline, left>>

\* The prompt is over: it is counted, then given back.
CountPrompt(c) ==
  /\ Goes(c, "count", "release")
  /\ done' = [done EXCEPT ![c] = @ + 1]
  /\ UNCHANGED <<callerVars, conns, phase, seen, name, key, verdict, newline, files, learned,
                 left>>

\* Mutant: the prompt is never given back.
ReleaseNever(c) ==
  /\ Goes(c, "release", IF verdict[c] = "none" THEN "accepted" ELSE "failed")
  /\ UNCHANGED <<callerVars, conns, phase, done, seen, name, key, verdict, newline, files,
                 learned, left>>

Release(c) ==
  /\ Goes(c, "release", IF verdict[c] = "none" THEN "accepted" ELSE "failed")
  /\ phase' = [phase EXCEPT ![c] = "Idle"]
  /\ UNCHANGED <<callerVars, conns, done, seen, name, key, verdict, newline, files, learned,
                 left>>

\* The network or the server ends it; a session whose handler runs does not
\* notice before the handler returns.
Breaks(c) ==
  /\ task[c] \in {"dial", "kex", "accepted"}
  /\ Goes(c, task[c], "failed")
  /\ UNCHANGED <<callerVars, conns, phase, done, seen, name, key, verdict, newline, files,
                 learned, left>>

-----------------------------------------------------------------------------
(* The callers: connect, connect_hop and what surrounds them.              *)

\* connect_hop(h) is called: a new connection with a HopState of its own.
Dials(w, h) ==
  LET c == conns + 1
  IN /\ c \in Conns
     /\ conns' = c
     /\ conn' = [conn EXCEPT ![w] = c]
     /\ hop' = [hop EXCEPT ![w] = h]
     /\ at' = [at EXCEPT ![w] = "hop"]
     /\ timer' = [timer EXCEPT ![w] = "sleep"]
     /\ task' = [task EXCEPT ![c] = "dial"]
     /\ name' = [name EXCEPT ![c] = Route[h]]

\* The attempt is over: the guard is dropped, and what was only a future of
\* the caller's with it.
Ends(w, q) ==
  /\ at' = [at EXCEPT ![w] = q]
  /\ gate' = gate \ {w}
  /\ task' = IF conn[w] \in Conns /\ task[conn[w]] = "dial"
               THEN [task EXCEPT ![conn[w]] = "ended"] ELSE task

\* ssh_open_error: retried, or the user is needed.
After(e) == IF e \in {"none", "Connect"} THEN "idle" ELSE "user"

\* open_ssh, open_ssh_terminals: the ssh config is read, the gate waited for.
Begin(w) ==
  /\ at[w] = "idle" /\ gate = {}
  /\ gate' = {w}
  /\ Dials(w, 1)
  /\ UNCHANGED <<phase, done, seen, key, verdict, newline, files, learned, left>>

BadConfig(w) ==
  /\ at[w] = "idle"
  /\ at' = [at EXCEPT ![w] = "user"]
  /\ UNCHANGED <<gate, hop, conn, timer, connVars, files, learned, left>>

\* The key exchange is done.
Connected(w) ==
  /\ at[w] = "hop" /\ timer[w] = "sleep" /\ task[conn[w]] = "accepted"
  /\ at' = [at EXCEPT ![w] = "auth"]
  /\ UNCHANGED <<gate, hop, conn, timer, connVars, files, learned, left>>

\* The connection failed; the verdict, if there is one, says why.
Refused(w) ==
  /\ at[w] = "hop" /\ timer[w] = "sleep" /\ task[conn[w]] = "failed"
  /\ Ends(w, After(verdict[conn[w]]))
  /\ UNCHANGED <<hop, conn, timer, conns, phase, done, seen, name, key, verdict, newline,
                 files, learned, left>>

\* The timer fires: if a prompt finished meanwhile it starts afresh.
TimerFires(w) ==
  LET c == conn[w]
  IN /\ at[w] = "hop" /\ timer[w] = "sleep"
     /\ IF done[c] # seen[c]
          THEN seen' = [seen EXCEPT ![c] = done[c]] /\ UNCHANGED timer
          ELSE timer' = [timer EXCEPT ![w] = "looked"] /\ UNCHANGED seen
     /\ UNCHANGED <<gate, at, hop, conn, conns, task, phase, done, name, key, verdict, newline,
                    files, learned, left>>

\* Mutant: the timer does not ask whether the user is being asked.
GiveUpAnyway(w) ==
  LET c == conn[w]
  IN /\ at[w] = "hop" /\ timer[w] = "looked"
     /\ timer' = [timer EXCEPT ![w] = "sleep"]
     /\ phase' = [phase EXCEPT ![c] = "Abandoned"]
     /\ left' = [left EXCEPT ![c] = "timed out"]
     /\ Ends(w, "idle")
     /\ UNCHANGED <<hop, conn, conns, done, seen, name, key, verdict, newline, files, learned>>

\* Compare and swap IDLE -> ABANDONED: the connection timed out.
GiveUp(w) ==
  LET c == conn[w]
  IN /\ at[w] = "hop" /\ timer[w] = "looked"
     /\ timer' = [timer EXCEPT ![w] = "sleep"]
     /\ \/ /\ phase[c] = "Idle"
           /\ phase' = [phase EXCEPT ![c] = "Abandoned"]
           /\ left' = [left EXCEPT ![c] = "timed out"]
           /\ Ends(w, "idle")
        \/ /\ phase[c] # "Idle"
           /\ UNCHANGED <<gate, at, task, phase, left>>
     /\ UNCHANGED <<hop, conn, conns, done, seen, name, key, verdict, newline, files, learned>>

\* authenticate succeeds: the next hop goes through this one.
NextHop(w) ==
  /\ at[w] = "auth" /\ hop[w] < Len(Route)
  /\ Dials(w, hop[w] + 1)
  /\ UNCHANGED <<gate, phase, done, seen, key, verdict, newline, files, learned, left>>

LastHop(w) ==
  /\ at[w] = "auth" /\ hop[w] = Len(Route)
  /\ at' = [at EXCEPT ![w] = "open"]
  /\ UNCHANGED <<gate, hop, conn, timer, connVars, files, learned, left>>

\* authenticate, or deploying and detecting after it, fails.
OpenFails(w) ==
  /\ at[w] \in {"auth", "open"}
  /\ \E q \in {"idle", "user"} : Ends(w, q)
  /\ UNCHANGED <<hop, conn, timer, conns, phase, done, seen, name, key, verdict, newline,
                 files, learned, left>>

Opened(w) ==
  /\ at[w] = "open"
  /\ Ends(w, "up")
  /\ UNCHANGED <<hop, conn, timer, conns, phase, done, seen, name, key, verdict, newline,
                 files, learned, left>>

\* The session is lost, or the user asks for another attempt.
Again(w) ==
  /\ at[w] \in {"up", "user"}
  /\ at' = [at EXCEPT ![w] = "idle"]
  /\ UNCHANGED <<gate, hop, conn, timer, connVars, files, learned, left>>

\* The host is removed: the caller is dropped wherever it is.
Removed(w) ==
  /\ at[w] # "gone"
  /\ Ends(w, "gone")
  /\ left' = IF at[w] = "hop" THEN [left EXCEPT ![conn[w]] = "dropped"] ELSE left
  /\ UNCHANGED <<hop, conn, timer, conns, phase, done, seen, name, key, verdict, newline,
                 files, learned>>

-----------------------------------------------------------------------------
Init ==
  /\ gate = {}
  /\ at = [w \in Callers |-> "idle"]
  /\ hop = [w \in Callers |-> 1]
  /\ conn = [w \in Callers |-> 0]
  /\ timer = [w \in Callers |-> "sleep"]
  /\ conns = 0
  /\ task = [c \in Conns |-> "none"]
  /\ phase = [c \in Conns |-> "Idle"]
  /\ done = [c \in Conns |-> 0] /\ seen = [c \in Conns |-> 0]
  /\ name = [c \in Conns |-> Route[1]]
  /\ key = [c \in Conns |-> {}]
  /\ verdict = [c \in Conns |-> "none"]
  /\ newline = [c \in Conns |-> FALSE]
  /\ files \in {fs \in [FileNames -> UNION {FirstFiles[n] : n \in FileNames}] :
                  \A n \in FileNames : fs[n] \in FirstFiles[n]}
  /\ learned = {}
  /\ left = [c \in Conns |-> "no"]

\* What the session task does by itself once it has the key, and what
\* depends on the network, the server and the user.
Handler(c) ==
  Claim(c) \/ LearnReads(c) \/ LearnAppends(c) \/ CountPrompt(c) \/ Release(c)

Environment(c) ==
  \/ Reached(c) \/ Breaks(c) \/ Certificate(c) \/ Confirm(c) \/ Decline(c)
  \/ \E k \in Key : CheckKey(c, k)

Waits(w) == Connected(w) \/ Refused(w) \/ TimerFires(w) \/ GiveUp(w)

Next ==
  \/ \E c \in Conns : Handler(c) \/ Environment(c)
  \/ \E w \in Callers :
       \/ Begin(w) \/ BadConfig(w) \/ Waits(w) \/ NextHop(w) \/ LastHop(w)
       \/ OpenFails(w) \/ Opened(w) \/ Again(w) \/ Removed(w)

Spec == Init /\ [][Next]_vars

\* The caller is polled and its timer fires; the handler runs.  Nothing is
\* assumed of the network, the server and the user.
FairSpec ==
  /\ Spec
  /\ \A c \in Conns : WF_vars(Handler(c))
  /\ \A w \in Callers : WF_vars(Waits(w))

-----------------------------------------------------------------------------
(* Properties.                                                             *)

\* HopState's promise: a connection that timed out neither asks the user nor
\* learns a key, and no prompt is cut short by the timer (client.rs, phase).
TimedOutIsSilent == \A c \in Conns : left[c] = "timed out" => task[c] \notin Asking

\* Prompts for one host do not overlap (SystemConnector::gate), also not with
\* the session task a timed-out attempt left behind; a caller dropped with
\* its host is the exception: it releases the gate and its prompt stays open.
PromptsApart ==
  \A c, d \in Conns :
    task[c] \in Asking /\ task[d] \in Asking => c = d \/ "dropped" \in {left[c], left[d]}

\* What the user confirmed is not asked again: check finds every key that
\* learn recorded (check_files, learn).
LearnedIsKnown == \A r \in learned : check(Contents, r.name, r.key) # "Unknown"

\* No two keys of one algorithm are learned for a host, which would refuse it
\* for good: the key was looked up before the user was asked, and is recorded
\* after (check_server_key).  Again a caller dropped in between is the
\* exception.
OneKeyEach ==
  \A r, s \in learned :
    r.name = s.name /\ r.key.alg = s.key.alg => r.key = s.key \/ "dropped" \in {left[r.by], left[s.by]}

\* Every hop's connection comes up or is given up, unless the user leaves a
\* prompt open (the timer of connect_hop).
HopsEnd ==
  \A w \in Callers :
    \/ []<>(at[w] # "hop")
    \/ <>[](at[w] = "hop" /\ task[conn[w]] = "prompt")
=============================================================================
