----------------------------- MODULE AuthProofs -----------------------------
(***************************************************************************)
(* Proofs about Auth, for any number of logins, key files and keys of the  *)
(* agent: the user is not asked in vain, the agent offers the rest of the  *)
(* keys, and a passphrase that works is not lost.                          *)
(*                                                                         *)
(* The inductive invariant is a predicate of each login's record (InOrder, *)
(* MayDelete, WillFind) beside one on the keychain (NoOldBesideBad).       *)
(***************************************************************************)
EXTENDS Auth, TLAPS

-----------------------------------------------------------------------------
(* The invariant.                                                          *)

FilePlaces == {"offer", "signed"} \cup Loading
AgentPlaces == {"agent", "agent offer"}

\* The agent's keys that came before number n.
Before(n) == {AgentKeys[i] : i \in {j \in DOMAIN AgentKeys : j < n}}

\* The cursor is on a key where one is in use; what had its turn is what was
\* tried and, once the agent is asked, the agent's keys so far.
InOrder(s) ==
  /\ s.next >= 1
  /\ s.at \in FilePlaces => s.next <= Len(Files)
  /\ s.at = "agent offer" => s.next <= Len(AgentKeys) /\ AgentKeys[s.next] \notin s.tried
  /\ s.at = "kbd prompt" => s.rounds < MaxRounds
  /\ s.at \in AgentPlaces => s.had = s.tried \cup Before(s.next)
  /\ s.at \notin AgentPlaces => s.had = s.tried

\* What a login is about to delete is not the only copy that works.
MayDelete(s) ==
  LET f == Files[s.next]
  IN /\ s.at = "move" => s.got = "good"
     /\ s.at = "stale" => legacy[f] # "good"
     /\ s.at = "clear" => legacy[f] # "good" \/ (s.got = "good" /\ current[f] = "good")

\* A login that is sure is on its way to a passphrase that is there.
WillFind(s) ==
  LET f == Files[s.next]
  IN /\ s.at \in {"migrate", "legacy", "move", "clear"} => ToFind(f, current, legacy)
     /\ s.at = "stored" => current[f] = "good"
     /\ s.at \notin {"stale", "passphrase"}

\* An old entry that works is not beside a current one that does not.
NoOldBesideBad == \A f \in FileSet : ~(current[f] = "bad" /\ legacy[f] = "good")

Inv ==
  /\ TypeOK
  /\ NoOldBesideBad
  /\ \A w \in Logins : InOrder(login[w]) /\ MayDelete(login[w])
  /\ \A w \in sure : WillFind(login[w])

-----------------------------------------------------------------------------
(* Steps of one login.                                                     *)

\* What the assumption says of the two lists.
LEMMA Lists ==
  /\ Len(Files) \in Nat /\ Len(AgentKeys) \in Nat
  /\ \A n \in Nat : n >= 1 /\ n <= Len(Files) => Files[n] \in FileSet
  /\ \A n \in Nat : n >= 1 /\ n <= Len(AgentKeys) => n \in DOMAIN AgentKeys /\ AgentKeys[n] \in AgentSet
  /\ DOMAIN AgentKeys = 1 .. Len(AgentKeys)
BY AuthAssumption DEF FileSet, AgentSet

\* A login that is at a key file has one.
LEMMA HasFile ==
  ASSUME Inv, NEW w \in Logins, At(w) \in FilePlaces
  PROVE  file(w) \in FileSet /\ KeyOf[file(w)] \in Keys
<1>1. login[w].next \in Nat /\ login[w].next >= 1 /\ login[w].next <= Len(Files)
  BY DEF Inv, TypeOK, Login, InOrder, At
<1> QED BY <1>1, Lists DEF file, Keys

\* A step that leaves the keychain alone keeps the invariant if it leaves the
\* login in order and, when sure, on its way.
LEMMA Alone ==
  ASSUME Inv, NEW w \in Logins, NEW s \in Login, To(w, s),
         UNCHANGED <<kind, current, legacy>>, password' \in Value,
         sure' \subseteq sure \cup {w},
         InOrder(s), MayDelete(s), w \in sure' => WillFind(s)
  PROVE  Inv'
<1>1. /\ login' \in [Logins -> Login] /\ login'[w] = s
      /\ \A v \in Logins \ {w} : login'[v] = login[v]
  BY DEF Inv, TypeOK, To
<1>2. TypeOK'
  BY <1>1 DEF Inv, TypeOK
<1>3. NoOldBesideBad'
  BY DEF Inv, NoOldBesideBad
<1>4. \A v \in Logins : InOrder(login'[v]) /\ MayDelete(login'[v])
  BY <1>1 DEF Inv
<1>5. \A v \in sure' : WillFind(login'[v])
  BY <1>1 DEF Inv, TypeOK
<1>6. (\A v \in Logins : InOrder(login[v]) /\ MayDelete(login[v]))'
  BY <1>4 DEF InOrder, MayDelete
<1>7. (\A v \in sure : WillFind(login[v]))'
  BY <1>5 DEF WillFind, ToFind
<1> QED BY <1>2, <1>3, <1>6, <1>7 DEF Inv

\* Outside load_key there is nothing to say of the keychain.
LEMMA Elsewhere ==
  ASSUME Inv, NEW w \in Logins, NEW s \in Login, To(w, s),
         UNCHANGED <<kind, current, legacy>>, password' \in Value, sure' \subseteq sure,
         InOrder(s), s.at \notin Loading \ {"load"}
  PROVE  Inv'
<1>1. MayDelete(s) /\ WillFind(s)
  BY DEF MayDelete, WillFind, Loading
<1> QED BY <1>1, Alone

\* The three ways in which a login changes the keychain.
LEMMA Shared ==
  ASSUME Inv, NEW w \in Logins, NEW s \in Login, To(w, s), UNCHANGED kind,
         file(w) \in FileSet, NEW cur, NEW old, Keychain(cur, old),
         \/ cur = [current EXCEPT ![file(w)] = "good"] /\ old = legacy
         \/ cur = current /\ old = [legacy EXCEPT ![file(w)] = "none"] /\ MayDelete(login[w])
            /\ At(w) = "clear"
         \/ cur = [current EXCEPT ![file(w)] = "none"] /\ old = legacy /\ legacy[file(w)] # "good",
         InOrder(s), MayDelete(s)', w \in sure' => WillFind(s)'
  PROVE  Inv'
<1>1. /\ login' \in [Logins -> Login] /\ login'[w] = s
      /\ \A v \in Logins \ {w} : login'[v] = login[v]
  BY DEF Inv, TypeOK, To
<1>2. /\ current' \in [FileSet -> Value] /\ legacy' \in [FileSet -> Value]
      /\ current' = cur /\ legacy' = old
  BY DEF Inv, TypeOK, Keychain, Value
<1>3. TypeOK'
  BY <1>1, <1>2 DEF Inv, TypeOK, Keychain
<1>4. NoOldBesideBad'
  BY <1>2 DEF Inv, TypeOK, NoOldBesideBad
<1>5. ASSUME NEW v \in Logins \ {w} PROVE (InOrder(login[v]) /\ MayDelete(login[v]))'
  <2>1. login'[v] = login[v] /\ InOrder(login[v]) /\ MayDelete(login[v])
    BY <1>1 DEF Inv
  <2>2. InOrder(login[v])'
    BY <2>1 DEF InOrder
  <2>3. ASSUME At(v) \in {"stale", "clear"} PROVE MayDelete(login[v])'
    <3>1. file(v) \in FileSet /\ file(v) = Files[login[v].next]
      BY <2>3, HasFile DEF FilePlaces, Loading, file
    <3> QED BY <1>2, <2>1, <3>1 DEF Inv, TypeOK, MayDelete
  <2>4. ASSUME At(v) \notin {"stale", "clear"} PROVE MayDelete(login[v])'
    BY <2>1, <2>4 DEF MayDelete, At
  <2> QED BY <2>2, <2>3, <2>4
<1>6. ASSUME NEW v \in sure', v # w PROVE WillFind(login[v])'
  <2>1. /\ v \in sure /\ v \in Logins /\ At(v) \in Loading /\ ToFind(file(v), cur, old)
        /\ login'[v] = login[v] /\ WillFind(login[v])
    BY <1>1, <1>6 DEF Keychain, Inv, TypeOK
  <2>2. file(v) \in FileSet /\ file(v) = Files[login[v].next]
    BY <2>1, HasFile DEF FilePlaces, file
  <2>3. login[v].at = "stored" => cur[file(v)] = "good"
    BY <2>1, <2>2 DEF WillFind, ToFind, Inv, TypeOK
  <2>4. ToFind(file(v), current, legacy)'
    BY <1>2, <2>1 DEF ToFind, file
  <2> QED BY <1>2, <2>1, <2>2, <2>3, <2>4 DEF WillFind, ToFind, file
<1>7. (\A v \in Logins : InOrder(login[v]) /\ MayDelete(login[v]))'
  <2>1. (InOrder(login[w]) /\ MayDelete(login[w]))'
    BY <1>1 DEF InOrder, MayDelete
  <2> QED BY <1>5, <2>1
<1>8. (\A v \in sure : WillFind(login[v]))'
  <2>1. w \in sure' => WillFind(login[w])'
    BY <1>1 DEF WillFind, ToFind
  <2> QED BY <1>6, <2>1
<1> QED BY <1>3, <1>4, <1>7, <1>8 DEF Inv

-----------------------------------------------------------------------------
(* The records a login may go on as.                                       *)

\* In order, and not inside load_key.
Fit(s) == s \in Login /\ InOrder(s) /\ s.at \notin Loading \ {"load"}

LEMMA FitKeeps ==
  ASSUME Inv, NEW w \in Logins, NEW s, Fit(s), To(w, s),
         UNCHANGED <<kind, current, legacy>>, password' \in Value, sure' \subseteq sure
  PROVE  Inv'
BY Elsewhere DEF Fit

\* The record a login begins with, and what the steps make of a record.
LEMMA StartTyped ==
  /\ Start \in Login /\ Start.next >= 1 /\ Start.rounds = 0 /\ Start.had = {} /\ Start.tried = {}
  /\ Start.at = "none"
<1>1. 0 \in 0 .. MaxRounds /\ "none" \in Value /\ "none" \in Places
  BY AuthAssumption DEF Value, Places, Server
<1> QED BY <1>1 DEF Login, Start

IsNext(t, s, x, y, p) ==
  /\ t \in Login /\ t.at = p /\ t.next = s.next + 1 /\ t.tried = s.tried \cup x
  /\ t.had = s.had \cup y /\ t.lost = s.lost

LEMMA Passed ==
  ASSUME NEW s \in Login, NEW p \in Places, NEW x \in SUBSET Keys, NEW y \in SUBSET Keys,
         NEW t, t = Passes(s, x, y, p)
  PROVE  IsNext(t, s, x, y, p)
<1> DEFINE n == s.next + 1
           i == s.tried \cup x
           j == s.had \cup y
<1>1. "none" \in Value
  BY DEF Value
<1>2. n \in Nat /\ i \in SUBSET Keys /\ j \in SUBSET Keys
  BY DEF Login
<1>3. t = [s EXCEPT !.at = p, !.next = n, !.tried = i, !.had = j, !.signed = FALSE, !.got = "none"]
  BY DEF Passes
<1> HIDE DEF n, i, j
<1>4. t \in Login /\ t.at = p /\ t.next = n /\ t.tried = i /\ t.had = j /\ t.lost = s.lost
  BY <1>1, <1>2, <1>3 DEF Login
<1> QED BY <1>4 DEF n, i, j, IsNext

\* Where nothing is in use, a record of the first keys is in order.
LEMMA StartFits ==
  ASSUME NEW s \in Login, s.next >= 1, s.had = s.tried,
         s.at \notin FilePlaces, s.at \notin AgentPlaces, s.at # "kbd prompt"
  PROVE  Fit(s)
<1>1. s.at # "agent offer"
  BY DEF AgentPlaces
<1>2. InOrder(s)
  BY <1>1, Zenon DEF InOrder
<1> QED BY <1>2 DEF Fit, FilePlaces

\* It is over, or at the methods behind the keys.
LEMMA EndedFits ==
  ASSUME NEW s, NEW how \in Over
  PROVE  Fit(Ended(s, how))
<1> DEFINE t == [Start EXCEPT !.at = how]
<1>1. t \in Login /\ t.at = how /\ t.next = Start.next /\ t.had = t.tried
  BY StartTyped DEF Login, Places
<1>2. t.at \notin FilePlaces /\ t.at \notin AgentPlaces /\ t.at # "kbd prompt"
  BY <1>1 DEF Over, FilePlaces, Loading, AgentPlaces
<1>3. Fit(t)
  BY <1>1, <1>2, StartFits, StartTyped
<1> QED BY <1>3 DEF Ended

LEMMA AfterPasswordFits ==
  ASSUME NEW s, s.lost \in BOOLEAN
  PROVE  Fit(AfterPassword(s))
<1>1. CASE "keyboard-interactive" \in s.methods
  <2> DEFINE t == [Start EXCEPT !.at = "kbd", !.lost = s.lost]
  <2>1. t \in Login /\ t.at = "kbd" /\ t.next = Start.next /\ t.had = t.tried
    BY StartTyped DEF Login, Places, Server
  <2>2. t.at \notin FilePlaces /\ t.at \notin AgentPlaces /\ t.at # "kbd prompt"
    BY <2>1 DEF FilePlaces, Loading, AgentPlaces
  <2>3. Fit(t)
    BY <2>1, <2>2, StartFits, StartTyped
  <2> QED BY <1>1, <2>3 DEF AfterPassword
<1>2. CASE "keyboard-interactive" \notin s.methods
  BY <1>2, EndedFits DEF AfterPassword, Over
<1> QED BY <1>1, <1>2

LEMMA AfterKeysFits ==
  ASSUME NEW s, s.lost \in BOOLEAN, s.methods \subseteq Methods
  PROVE  Fit(AfterKeys(s))
<1>1. CASE "password" \in s.methods
  <2> DEFINE t == [Start EXCEPT !.at = "get password", !.methods = s.methods, !.lost = s.lost]
  <2> HIDE DEF t
  <2>0. t = [Start EXCEPT !.at = "get password", !.methods = s.methods, !.lost = s.lost]
    BY DEF t
  <2>1. "get password" \in Places /\ s.methods \in SUBSET Methods
    BY DEF Places
  <2>2. t \in Login /\ t.at = "get password" /\ t.next = Start.next /\ t.had = t.tried
    BY <2>0, <2>1, StartTyped DEF Login
  <2>3. t.at \notin FilePlaces /\ t.at \notin AgentPlaces /\ t.at # "kbd prompt"
    BY <2>2 DEF FilePlaces, Loading, AgentPlaces
  <2>4. Fit(t)
    BY <2>2, <2>3, StartFits, StartTyped
  <2> QED BY <1>1, <2>4 DEF AfterKeys, t
<1>2. CASE "password" \notin s.methods
  BY <1>2, AfterPasswordFits DEF AfterKeys
<1> QED BY <1>1, <1>2

\* The next key file.
LEMMA NextFile ==
  ASSUME NEW s \in Login, s.had = s.tried, s.next >= 1, NEW k \in SUBSET Keys
  PROVE  Fit(Passes(s, k, k, "files"))
<1> DEFINE t == Passes(s, k, k, "files")
<1>1. "files" \in Places
  BY DEF Places
<1> HIDE DEF t
<1>0. t = Passes(s, k, k, "files")
  BY DEF t
<1>2. IsNext(t, s, k, k, "files")
  BY <1>0, <1>1, Passed
<1>3. s.next + 1 >= 1
  BY DEF Login
<1>4. InOrder(t)
  BY <1>2, <1>3 DEF IsNext, InOrder, FilePlaces, Loading, AgentPlaces
<1>5. Fit(t)
  BY <1>2, <1>4 DEF Fit, Loading, IsNext
<1> QED BY <1>5 DEF t

\* The next key of the agent.
LEMMA NextAgentKey ==
  ASSUME NEW s \in Login, s.at \in AgentPlaces, InOrder(s), s.next <= Len(AgentKeys),
         NEW turn \in SUBSET Keys,
         \/ turn = {AgentKeys[s.next]}
         \/ turn = {} /\ AgentKeys[s.next] \in s.tried
  PROVE  Fit(Passes(s, {}, turn, "agent"))
<1> DEFINE t == Passes(s, {}, turn, "agent")
<1>1. "agent" \in Places /\ {} \in SUBSET Keys
  BY DEF Places
<1> HIDE DEF t
<1>0. t = Passes(s, {}, turn, "agent")
  BY DEF t
<1>2. IsNext(t, s, {}, turn, "agent")
  BY <1>0, <1>1, Passed
<1>3. Before(s.next + 1) = Before(s.next) \cup {AgentKeys[s.next]}
  <2>1. s.next \in Nat /\ s.next \in DOMAIN AgentKeys
    BY Lists DEF Login, InOrder
  <2>2. {j \in DOMAIN AgentKeys : j < s.next + 1} = {j \in DOMAIN AgentKeys : j < s.next} \cup {s.next}
    BY <2>1, Lists
  <2> QED BY <2>2 DEF Before
<1>4. s.had = s.tried \cup Before(s.next)
  BY DEF InOrder
<1>5. t.had = t.tried \cup Before(t.next)
  BY <1>2, <1>3, <1>4 DEF IsNext
<1>6. s.next + 1 >= 1
  BY DEF Login
<1>7. InOrder(t)
  BY <1>2, <1>5, <1>6 DEF IsNext, InOrder, FilePlaces, Loading, AgentPlaces
<1>8. Fit(t)
  BY <1>2, <1>7 DEF Fit, Loading, IsNext
<1> QED BY <1>8 DEF t

\* Whether the connection is lost is nothing to the order.
LEMMA LostFits ==
  ASSUME NEW s, Fit(s), NEW b \in BOOLEAN
  PROVE  Fit([s EXCEPT !.lost = b])
<1> DEFINE t == [s EXCEPT !.lost = b]
<1>1. /\ t \in Login /\ t.at = s.at /\ t.next = s.next /\ t.tried = s.tried /\ t.had = s.had
      /\ t.rounds = s.rounds
  BY DEF Fit, Login
<1> HIDE DEF t
<1>2. Fit(t)
  BY <1>1 DEF Fit, InOrder
<1> QED BY <1>2 DEF t

\* What the server answers.
LEMMA AnswerTyped ==
  ASSUME NEW b \in BOOLEAN, NEW a \in Answers(b)
  PROVE  a.ok \in BOOLEAN /\ a.partial \in BOOLEAN /\ a.methods \subseteq Methods
<1>1. CASE a \in Failures(FALSE) \cup Failures(TRUE)
  BY <1>1, AuthAssumption DEF Failures
<1>2. CASE a = Success
  BY <1>2 DEF Success
<1> QED BY <1>1, <1>2 DEF Answers

\* A login that goes on with the fields t, elsewhere or with other methods.
Same(t, w, q) ==
  /\ t \in Login /\ t.at = q /\ t.next = login[w].next /\ t.tried = login[w].tried
  /\ t.had = login[w].had /\ t.next \in Nat /\ t.next >= 1 /\ t.lost \in BOOLEAN
  /\ t.methods \subseteq Methods /\ t.rounds = login[w].rounds

LEMMA LoginTyped ==
  ASSUME Inv, NEW w \in Logins
  PROVE  /\ login[w] \in Login /\ InOrder(login[w]) /\ Same(login[w], w, At(w))
         /\ login[w].next \in Nat /\ login[w].next >= 1 /\ login[w].lost \in BOOLEAN
         /\ login[w].methods \subseteq Methods
<1>1. login[w] \in Login /\ InOrder(login[w])
  BY DEF Inv, TypeOK
<1>2. /\ login[w].next \in Nat /\ login[w].next >= 1 /\ login[w].lost \in BOOLEAN
      /\ login[w].methods \subseteq Methods
  BY <1>1 DEF Login, InOrder
<1> QED BY <1>1, <1>2 DEF Same, At

LEMMA Recorded ==
  ASSUME Inv, NEW w \in Logins, NEW m \in SUBSET Methods, NEW t, t = [login[w] EXCEPT !.methods = m]
  PROVE  Same(t, w, At(w)) /\ t.methods = m
<1>1. login[w] \in Login
  BY LoginTyped
<1>2. /\ t \in Login /\ t.at = login[w].at /\ t.next = login[w].next /\ t.tried = login[w].tried
      /\ t.had = login[w].had /\ t.lost = login[w].lost /\ t.methods = m /\ t.rounds = login[w].rounds
  BY <1>1 DEF Login
<1> QED BY <1>2, LoginTyped DEF Same, At

LEMMA Moved ==
  ASSUME Inv, NEW w \in Logins, NEW q \in Places, NEW t, t = [login[w] EXCEPT !.at = q]
  PROVE  Same(t, w, q) /\ t.got = login[w].got
<1>1. login[w] \in Login
  BY LoginTyped
<1>2. /\ t \in Login /\ t.at = q /\ t.next = login[w].next /\ t.tried = login[w].tried
      /\ t.had = login[w].had /\ t.lost = login[w].lost /\ t.methods = login[w].methods
      /\ t.rounds = login[w].rounds /\ t.got = login[w].got
  BY <1>1 DEF Login
<1> QED BY <1>2, LoginTyped DEF Same

LEMMA Got ==
  ASSUME Inv, NEW w \in Logins, NEW q \in Places, NEW v \in Value,
         NEW t, t = [login[w] EXCEPT !.at = q, !.got = v]
  PROVE  Same(t, w, q) /\ t.got = v
<1>1. login[w] \in Login
  BY LoginTyped
<1>2. /\ t \in Login /\ t.at = q /\ t.next = login[w].next /\ t.tried = login[w].tried
      /\ t.had = login[w].had /\ t.lost = login[w].lost /\ t.methods = login[w].methods
      /\ t.rounds = login[w].rounds /\ t.got = v
  BY <1>1 DEF Login
<1> QED BY <1>2, LoginTyped DEF Same

\* Wherever a login is, it may end, or leave the keys or the password behind.
LEMMA Endings ==
  ASSUME NEW w, NEW q, NEW t, Same(t, w, q)
  PROVE  Fit(Ended(t, "done")) /\ Fit(AfterKeys(t)) /\ Fit(AfterPassword(t))
<1>1. "done" \in Over
  BY DEF Over
<1>2. t.lost \in BOOLEAN /\ t.methods \subseteq Methods
  BY DEF Same
<1> QED BY <1>1, <1>2, EndedFits, AfterKeysFits, AfterPasswordFits

\* Away from the agent the order is that of the key files.
LEMMA SameInOrder ==
  ASSUME Inv, NEW w \in Logins, NEW q, NEW t, Same(t, w, q), At(w) \notin AgentPlaces,
         q \notin AgentPlaces, q # "kbd prompt", q \in FilePlaces => login[w].next <= Len(Files)
  PROVE  InOrder(t)
<1>1. login[w].had = login[w].tried
  BY LoginTyped DEF InOrder, At
<1> QED BY <1>1 DEF Same, InOrder, AgentPlaces

\* A step that leaves everything but the login alone.
LEMMA FitMoves ==
  ASSUME Inv, NEW w \in Logins, NEW s, Fit(s), To(w, s), UNCHANGED <<kind, keychain, sure>>
  PROVE  Inv'
BY FitKeeps DEF keychain, Inv, TypeOK

\* load_key returns, to the signature or the next file.
LEMMA ReturnsFit ==
  ASSUME Inv, NEW w \in Logins, At(w) \in Loading, NEW loaded \in BOOLEAN, Returns(w, loaded)
  PROVE  \E s : Fit(s) /\ To(w, s)
<1>1. /\ login[w] \in Login /\ login[w].next <= Len(Files) /\ At(w) \notin AgentPlaces
      /\ login[w].had = login[w].tried /\ login[w].next >= 1
  BY LoginTyped DEF InOrder, FilePlaces, At, AgentPlaces, Loading
<1> DEFINE t == [login[w] EXCEPT !.at = "signed", !.signed = loaded, !.got = "none"]
<1>2. \/ To(w, t) \/ To(w, Passes(login[w], {}, {}, "files"))
  BY DEF Returns
<1>3. Same(t, w, "signed")
  <2>1. "signed" \in Places /\ "none" \in Value
    BY DEF Places, Server, Value
  <2>2. /\ t \in Login /\ t.at = "signed" /\ t.next = login[w].next /\ t.tried = login[w].tried
        /\ t.had = login[w].had /\ t.lost = login[w].lost /\ t.methods = login[w].methods
        /\ t.rounds = login[w].rounds
    BY <1>1, <2>1 DEF Login
  <2> HIDE DEF t
  <2> QED BY <2>2, LoginTyped DEF Same
<1> HIDE DEF t
<1>4. Fit(t)
  <2>1. InOrder(t)
    BY <1>1, <1>3, SameInOrder DEF AgentPlaces
  <2> QED BY <1>3, <2>1 DEF Same, Fit, Loading
<1>5. Fit(Passes(login[w], {}, {}, "files"))
  <2>1. {} \in SUBSET Keys
    OBVIOUS
  <2> QED BY <1>1, <2>1, NextFile
<1> QED BY <1>2, <1>4, <1>5

-----------------------------------------------------------------------------
(* Every step keeps the invariant: the keys.                               *)

LEMMA NoneAnsweredKeeps ==
  ASSUME Inv, NEW w \in Logins, NEW a, NoneAnswered(w, a)
  PROVE  Inv'
<1> DEFINE t == [login[w] EXCEPT !.methods = a.methods]
           u == [t EXCEPT !.at = "files"]
<1>1. a.ok \in BOOLEAN /\ a.partial \in BOOLEAN /\ a.methods \in SUBSET Methods
  BY AnswerTyped DEF NoneAnswered
<1>2. Same(t, w, At(w)) /\ At(w) = "none"
  BY <1>1, Recorded DEF NoneAnswered
<1>3. To(w, Ended(t, "done")) \/ To(w, u) \/ To(w, AfterKeys(t))
  BY <1>1 DEF NoneAnswered, step
<1> HIDE DEF t
<1>4. Same(u, w, "files")
  <2>1. "files" \in Places
    BY DEF Places
  <2>2. /\ u \in Login /\ u.at = "files" /\ u.next = t.next /\ u.tried = t.tried
        /\ u.had = t.had /\ u.lost = t.lost /\ u.methods = t.methods /\ u.rounds = t.rounds
    BY <1>2, <2>1 DEF Same, Login
  <2> QED BY <1>2, <2>2 DEF Same
<1> HIDE DEF u
<1>5. Fit(u)
  <2>1. InOrder(u)
    BY <1>2, <1>4, SameInOrder DEF AgentPlaces, FilePlaces, Loading
  <2> QED BY <1>4, <2>1 DEF Same, Fit, Loading
<1>6. Fit(Ended(t, "done")) /\ Fit(AfterKeys(t))
  BY <1>2, Endings
<1>7. PICK s : Fit(s) /\ To(w, s)
  BY <1>3, <1>5, <1>6
<1> QED BY <1>7, FitMoves DEF NoneAnswered

LEMMA LostKeeps ==
  ASSUME Inv, NEW w \in Logins, Lost(w)
  PROVE  Inv'
<1>1. Fit(Ended(login[w], "Connect")) /\ To(w, Ended(login[w], "Connect"))
  BY EndedFits DEF Lost, Over
<1>2. PICK s : Fit(s) /\ To(w, s)
  BY <1>1
<1> QED BY <1>2, FitMoves DEF Lost

\* A login that moves on to another place away from the agent and load_key.
LEMMA GoesFits ==
  ASSUME Inv, NEW w \in Logins, NEW q \in Places, To(w, [login[w] EXCEPT !.at = q]),
         At(w) \notin AgentPlaces, q \notin AgentPlaces, q # "kbd prompt",
         q \in FilePlaces => login[w].next <= Len(Files), q \notin Loading \ {"load"}
  PROVE  \E s : Fit(s) /\ To(w, s)
<1>1. PICK t : t = [login[w] EXCEPT !.at = q]
  OBVIOUS
<1>2. Same(t, w, q)
  BY <1>1, Moved
<1>3. InOrder(t)
  BY <1>2, SameInOrder
<1> QED BY <1>1, <1>2, <1>3 DEF Same, Fit

LEMMA TryFileKeeps ==
  ASSUME Inv, NEW w \in Logins, TryFile(w)
  PROVE  Inv'
<1>1. /\ At(w) = "files" /\ login[w].next <= Len(Files)
      /\ \E q \in {"offer", "load"} : To(w, [login[w] EXCEPT !.at = q])
  BY DEF TryFile, Goes
<1>2. PICK s : Fit(s) /\ To(w, s)
  BY <1>1, GoesFits DEF Places, Server, Loading, AgentPlaces
<1> QED BY <1>2, FitMoves DEF TryFile

LEMMA PkOkKeeps ==
  ASSUME Inv, NEW w \in Logins, PkOk(w)
  PROVE  Inv'
<1>1. At(w) = "offer" /\ To(w, [login[w] EXCEPT !.at = "load"])
  BY DEF PkOk, Goes
<1>2. login[w].next <= Len(Files)
  BY <1>1, LoginTyped DEF InOrder, At, FilePlaces
<1>3. "load" \in Places /\ "load" \notin AgentPlaces /\ "load" \notin Loading \ {"load"}
      /\ "load" # "kbd prompt" /\ At(w) \notin AgentPlaces
  BY <1>1 DEF Places, Loading, AgentPlaces
<1>4. PICK s : Fit(s) /\ To(w, s)
  BY <1>1, <1>2, <1>3, GoesFits
<1> QED BY <1>4, FitMoves DEF PkOk

LEMMA OfferRefusedKeeps ==
  ASSUME Inv, NEW w \in Logins, NEW a, OfferRefused(w, a)
  PROVE  Inv'
<1> DEFINE t == [login[w] EXCEPT !.methods = a.methods]
           k == {KeyOf[file(w)]}
<1>1. a.ok = FALSE /\ a.partial \in BOOLEAN /\ a.methods \in SUBSET Methods
  BY AuthAssumption DEF OfferRefused, Failures
<1>2. Same(t, w, At(w)) /\ At(w) = "offer"
  BY <1>1, Recorded DEF OfferRefused
<1>3. To(w, Passes(t, k, k, "files"))
  BY <1>1 DEF OfferRefused, step
<1>4. k \in SUBSET Keys
  BY <1>2, HasFile DEF FilePlaces
<1> HIDE DEF t, k
<1>5. t.had = t.tried
  BY <1>2, LoginTyped DEF Same, InOrder, AgentPlaces, At
<1>6. Fit(Passes(t, k, k, "files"))
  BY <1>2, <1>4, <1>5, NextFile DEF Same
<1>7. PICK s : Fit(s) /\ To(w, s)
  BY <1>3, <1>6
<1> QED BY <1>7, FitMoves DEF OfferRefused

LEMMA SignatureJudgedKeeps ==
  ASSUME Inv, NEW w \in Logins, NEW a, SignatureJudged(w, a)
  PROVE  Inv'
<1> DEFINE t == [login[w] EXCEPT !.methods = a.methods]
           k == Key(w)
<1>0. login[w].signed \in BOOLEAN
  BY LoginTyped DEF Login
<1>1. a.ok \in BOOLEAN /\ a.partial \in BOOLEAN /\ a.methods \in SUBSET Methods
  BY <1>0, AnswerTyped DEF SignatureJudged
<1>2. Same(t, w, At(w)) /\ At(w) = "signed"
  BY <1>1, Recorded DEF SignatureJudged
<1>3. To(w, Ended(t, "done")) \/ To(w, AfterKeys(t)) \/ To(w, Passes(t, k, k, "files"))
  BY <1>1 DEF SignatureJudged, step
<1>4. k \in SUBSET Keys
  BY <1>2, HasFile DEF FilePlaces, Key
<1> HIDE DEF t, k
<1>5. t.had = t.tried
  BY <1>2, LoginTyped DEF Same, InOrder, AgentPlaces, At
<1>6. Fit(Passes(t, k, k, "files"))
  BY <1>2, <1>4, <1>5, NextFile DEF Same
<1>7. Fit(Ended(t, "done")) /\ Fit(AfterKeys(t))
  BY <1>2, Endings
<1>8. PICK s : Fit(s) /\ To(w, s)
  BY <1>3, <1>6, <1>7
<1> QED BY <1>8, FitMoves DEF SignatureJudged

LEMMA FilesEndKeeps ==
  ASSUME Inv, NEW w \in Logins, FilesEnd(w)
  PROVE  Inv'
<1> DEFINE u == [login[w] EXCEPT !.at = "agent", !.next = 1]
<1>1. At(w) = "files" /\ (To(w, u) \/ To(w, AfterKeys(login[w])))
  BY DEF FilesEnd
<1>2. /\ u \in Login /\ u.at = "agent" /\ u.next = 1 /\ u.tried = login[w].tried
      /\ u.had = login[w].had
  BY LoginTyped DEF Login, Places
<1> HIDE DEF u
<1>3. Before(1) = {}
  BY Lists DEF Before
<1>4. u.had = u.tried \cup Before(u.next)
  BY <1>1, <1>2, <1>3, LoginTyped DEF InOrder, AgentPlaces, At
<1>5. Fit(u)
  <2>1. u.next >= 1
    BY <1>2
  <2>2. InOrder(u)
    BY <1>2, <1>4, <2>1 DEF InOrder, FilePlaces, Loading, AgentPlaces
  <2> QED BY <1>2, <2>2 DEF Fit, Loading
<1>6. Fit(AfterKeys(login[w]))
  BY LoginTyped, AfterKeysFits
<1>7. PICK s : Fit(s) /\ To(w, s)
  BY <1>1, <1>5, <1>6
<1> QED BY <1>7, FitMoves DEF FilesEnd

LEMMA TryAgentKeeps ==
  ASSUME Inv, NEW w \in Logins, TryAgent(w)
  PROVE  Inv'
<1>1. At(w) = "agent" /\ login[w].next <= Len(AgentKeys) /\ login[w].at \in AgentPlaces
  BY DEF TryAgent, AgentPlaces, At
<1>2. CASE agent_key(w) \in login[w].tried /\ To(w, Passes(login[w], {}, {}, "agent"))
  <2>1. {} \in SUBSET Keys
    OBVIOUS
  <2>2. Fit(Passes(login[w], {}, {}, "agent"))
    BY <1>1, <1>2, <2>1, LoginTyped, NextAgentKey DEF agent_key
  <2>3. PICK s : Fit(s) /\ To(w, s)
    BY <1>2, <2>2
  <2> QED BY <2>3, FitMoves DEF TryAgent
<1>3. CASE agent_key(w) \notin login[w].tried /\ Goes(w, "agent", "agent offer")
  <2>1. PICK t : t = [login[w] EXCEPT !.at = "agent offer"]
    OBVIOUS
  <2>2. Same(t, w, "agent offer")
    BY <2>1, Moved DEF Places, Server
  <2>3. login[w].had = login[w].tried \cup Before(login[w].next)
    BY <1>1, LoginTyped DEF InOrder
  <2>4. InOrder(t)
    BY <1>1, <1>3, <2>2, <2>3 DEF Same, InOrder, AgentPlaces, FilePlaces, Loading, agent_key
  <2>5. Fit(t) /\ To(w, t)
    BY <1>3, <2>1, <2>2, <2>4 DEF Same, Fit, Loading, Goes
  <2> QED BY <2>5, FitMoves DEF TryAgent
<1> QED BY <1>2, <1>3 DEF TryAgent

\* A key of the agent that is offered is one of the keys.
LEMMA OfferedKey ==
  ASSUME Inv, NEW w \in Logins, At(w) = "agent offer"
  PROVE  {agent_key(w)} \in SUBSET Keys /\ login[w].next <= Len(AgentKeys)
<1>1. login[w].next <= Len(AgentKeys)
  BY LoginTyped DEF InOrder, At
<1> QED BY <1>1, LoginTyped, Lists DEF agent_key, Keys

LEMMA AgentKeyJudgedKeeps ==
  ASSUME Inv, NEW w \in Logins, NEW a, AgentKeyJudged(w, a)
  PROVE  Inv'
<1> DEFINE t == [login[w] EXCEPT !.methods = a.methods]
           k == {agent_key(w)}
<1>1. a.ok \in BOOLEAN /\ a.partial \in BOOLEAN /\ a.methods \in SUBSET Methods
  BY AnswerTyped DEF AgentKeyJudged
<1>2. Same(t, w, At(w)) /\ At(w) = "agent offer"
  BY <1>1, Recorded DEF AgentKeyJudged
<1>3. To(w, Ended(t, "done")) \/ To(w, AfterKeys(t)) \/ To(w, Passes(t, {}, k, "agent"))
  BY <1>1 DEF AgentKeyJudged, step
<1> HIDE DEF t
<1>4. k \in SUBSET Keys /\ login[w].next <= Len(AgentKeys)
  BY <1>2, OfferedKey
<1>5. InOrder(t)
  BY <1>2, LoginTyped DEF Same, InOrder, At, AgentPlaces, FilePlaces, Loading
<1>6. Fit(Passes(t, {}, k, "agent"))
  <2>1. k = {AgentKeys[t.next]} /\ t \in Login /\ t.at \in AgentPlaces /\ t.next <= Len(AgentKeys)
    BY <1>2, <1>4 DEF Same, agent_key, AgentPlaces
  <2> HIDE DEF k
  <2> QED BY <1>4, <1>5, <2>1, NextAgentKey
<1>7. Fit(Ended(t, "done")) /\ Fit(AfterKeys(t))
  BY <1>2, Endings
<1>8. PICK s : Fit(s) /\ To(w, s)
  BY <1>3, <1>6, <1>7
<1> QED BY <1>8, FitMoves DEF AgentKeyJudged

LEMMA AgentFailsKeeps ==
  ASSUME Inv, NEW w \in Logins, AgentFails(w)
  PROVE  Inv'
<1> DEFINE k == {agent_key(w)}
<1>1. At(w) = "agent offer" /\ login[w].at \in AgentPlaces
  BY DEF AgentFails, At, AgentPlaces
<1>2. k \in SUBSET Keys /\ login[w].next <= Len(AgentKeys) /\ k = {AgentKeys[login[w].next]}
  BY <1>1, OfferedKey DEF agent_key
<1>3. PICK broke \in BOOLEAN : To(w, [Passes(login[w], {}, k, "agent") EXCEPT !.lost = broke])
  BY DEF AgentFails
<1> HIDE DEF k
<1>4. Fit(Passes(login[w], {}, k, "agent"))
  BY <1>1, <1>2, LoginTyped, NextAgentKey
<1>5. Fit([Passes(login[w], {}, k, "agent") EXCEPT !.lost = broke])
  BY <1>4, LostFits
<1>6. PICK s : Fit(s) /\ To(w, s)
  BY <1>3, <1>5
<1> QED BY <1>6, FitMoves DEF AgentFails

LEMMA AgentEndKeeps ==
  ASSUME Inv, NEW w \in Logins, AgentEnd(w)
  PROVE  Inv'
<1>1. Fit(AfterKeys(login[w])) /\ To(w, AfterKeys(login[w]))
  BY LoginTyped, AfterKeysFits DEF AgentEnd
<1>2. PICK s : Fit(s) /\ To(w, s)
  BY <1>1
<1> QED BY <1>2, FitMoves DEF AgentEnd

-----------------------------------------------------------------------------
(* Every step keeps the invariant: password and keyboard-interactive.      *)

\* A login that is at no key and not in load_key.
LEMMA SameFits ==
  ASSUME Inv, NEW w \in Logins, NEW q, NEW t, Same(t, w, q), At(w) \notin AgentPlaces,
         q \notin AgentPlaces, q \notin FilePlaces, q # "kbd prompt"
  PROVE  Fit(t)
<1>1. InOrder(t)
  BY SameInOrder
<1> QED BY <1>1 DEF Same, Fit, FilePlaces

LEMMA GetPasswordKeeps ==
  ASSUME Inv, NEW w \in Logins, GetPassword(w)
  PROVE  Inv'
<1>1. PICK v \in Value, q \in {"password", "stored password"} : Gets(w, v, q)
  BY DEF GetPassword, Inv, TypeOK, Value
<1>2. PICK t : t = [login[w] EXCEPT !.at = q, !.got = v]
  OBVIOUS
<1>3. q \in Places /\ q \notin AgentPlaces /\ q \notin FilePlaces /\ q # "kbd prompt"
  BY DEF Places, Server, User, AgentPlaces, FilePlaces, Loading
<1>4. At(w) \notin AgentPlaces
  BY DEF GetPassword, AgentPlaces
<1>5. Same(t, w, q)
  BY <1>2, <1>3, Got
<1>6. Fit(t)
  BY <1>3, <1>4, <1>5, SameFits
<1> QED BY <1>1, <1>2, <1>6, FitMoves DEF Gets, GetPassword

LEMMA StoredPasswordJudgedKeeps ==
  ASSUME Inv, NEW w \in Logins, NEW a, StoredPasswordJudged(w, a)
  PROVE  Inv'
<1> DEFINE t == [login[w] EXCEPT !.methods = a.methods]
           u == [t EXCEPT !.at = "password", !.got = "none"]
<1>1. a.ok \in BOOLEAN /\ a.partial \in BOOLEAN /\ a.methods \in SUBSET Methods
  BY AnswerTyped DEF StoredPasswordJudged
<1>2. Same(t, w, At(w)) /\ At(w) = "stored password"
  BY <1>1, Recorded DEF StoredPasswordJudged
<1>3. To(w, Ended(t, "done")) \/ To(w, AfterPassword(t)) \/ To(w, u)
  BY <1>1 DEF StoredPasswordJudged, step
<1> HIDE DEF t
<1>4. Same(u, w, "password")
  <2>1. "password" \in Places /\ "none" \in Value
    BY DEF Places, User, Value
  <2>2. /\ u \in Login /\ u.at = "password" /\ u.next = t.next /\ u.tried = t.tried
        /\ u.had = t.had /\ u.lost = t.lost /\ u.methods = t.methods /\ u.rounds = t.rounds
    BY <1>2, <2>1 DEF Same, Login
  <2> HIDE DEF u
  <2> QED BY <1>2, <2>2 DEF Same
<1> HIDE DEF u
<1>5. Fit(u)
  BY <1>2, <1>4, SameFits DEF AgentPlaces, FilePlaces, Loading
<1>6. Fit(Ended(t, "done")) /\ Fit(AfterPassword(t))
  BY <1>2, Endings
<1>7. PICK s : Fit(s) /\ To(w, s)
  BY <1>3, <1>5, <1>6
<1>8. password' \in Value
  BY DEF StoredPasswordJudged, Inv, TypeOK, Value
<1> QED BY <1>7, <1>8, FitKeeps DEF StoredPasswordJudged

LEMMA TypePasswordKeeps ==
  ASSUME Inv, NEW w \in Logins, TypePassword(w)
  PROVE  Inv'
<1>1. CASE \E v \in {"good", "bad"} : Gets(w, v, "typed password")
  <2>1. PICK v \in {"good", "bad"} : Gets(w, v, "typed password")
    BY <1>1
  <2>2. PICK t : t = [login[w] EXCEPT !.at = "typed password", !.got = v]
    OBVIOUS
  <2>3. "typed password" \in Places /\ v \in Value /\ At(w) \notin AgentPlaces
    BY DEF Places, Server, Value, TypePassword, AgentPlaces
  <2>4. Same(t, w, "typed password")
    BY <2>2, <2>3, Got
  <2>5. Fit(t)
    BY <2>3, <2>4, SameFits DEF AgentPlaces, FilePlaces, Loading
  <2> QED BY <2>1, <2>2, <2>5, FitMoves DEF Gets, TypePassword
<1>2. CASE To(w, AfterPassword(login[w]))
  <2>1. PICK s : Fit(s) /\ To(w, s)
    BY <1>2, LoginTyped, AfterPasswordFits
  <2> QED BY <2>1, FitMoves DEF TypePassword
<1> QED BY <1>1, <1>2 DEF TypePassword

LEMMA TypedPasswordJudgedKeeps ==
  ASSUME Inv, NEW w \in Logins, NEW a, TypedPasswordJudged(w, a)
  PROVE  Inv'
<1> DEFINE t == [login[w] EXCEPT !.methods = a.methods]
<1>1. a.ok \in BOOLEAN /\ a.partial \in BOOLEAN /\ a.methods \in SUBSET Methods
  BY AnswerTyped DEF TypedPasswordJudged
<1>2. Same(t, w, At(w))
  BY <1>1, Recorded DEF TypedPasswordJudged
<1>3. To(w, Ended(t, "done")) \/ To(w, AfterPassword(t))
  BY <1>1 DEF TypedPasswordJudged, step
<1> HIDE DEF t
<1>4. Fit(Ended(t, "done")) /\ Fit(AfterPassword(t))
  BY <1>2, Endings
<1>5. PICK s : Fit(s) /\ To(w, s)
  BY <1>3, <1>4
<1>6. password' \in Value
  <2>1. login[w].got \in Value /\ password \in Value
    BY LoginTyped DEF Login, Inv, TypeOK
  <2> QED BY <2>1 DEF TypedPasswordJudged
<1> QED BY <1>5, <1>6, FitKeeps DEF TypedPasswordJudged

LEMMA KbdAnsweredKeeps ==
  ASSUME Inv, NEW w \in Logins, NEW r \in {"Success", "Failure", "InfoRequest"}, KbdAnswered(w, r)
  PROVE  Inv'
<1>1. PICK t : t = [login[w] EXCEPT !.at = "kbd reply", !.reply = r]
  OBVIOUS
<1>2. /\ t \in Login /\ t.at = "kbd reply" /\ t.next = login[w].next /\ t.tried = login[w].tried
      /\ t.had = login[w].had /\ t.lost = login[w].lost /\ t.methods = login[w].methods
      /\ t.rounds = login[w].rounds
  BY <1>1, LoginTyped DEF Login, Places
<1>3. Same(t, w, "kbd reply")
  BY <1>2, LoginTyped DEF Same
<1>4. Fit(t)
  BY <1>3, SameFits DEF KbdAnswered, AgentPlaces, FilePlaces, Loading
<1> QED BY <1>1, <1>4, FitMoves DEF KbdAnswered

LEMMA RespondsFits ==
  ASSUME Inv, NEW w \in Logins, At(w) \notin AgentPlaces, login[w].rounds < MaxRounds, Responds(w)
  PROVE  \E s : Fit(s) /\ To(w, s)
<1> DEFINE n == login[w].rounds + 1
<1>1. n \in 0 .. MaxRounds
  BY LoginTyped, AuthAssumption DEF Login
<1>2. To(w, [login[w] EXCEPT !.at = "kbd", !.rounds = n, !.reply = "none"])
  BY DEF Responds
<1> HIDE DEF n
<1>3. PICK t : t = [login[w] EXCEPT !.at = "kbd", !.rounds = n, !.reply = "none"]
  OBVIOUS
<1>4. /\ t \in Login /\ t.at = "kbd" /\ t.next = login[w].next /\ t.tried = login[w].tried
      /\ t.had = login[w].had
  BY <1>1, <1>3, LoginTyped DEF Login, Places, Server
<1>5. login[w].had = login[w].tried /\ login[w].next >= 1
  BY LoginTyped DEF InOrder, At
<1>6. Fit(t)
  BY <1>4, <1>5, StartFits DEF AgentPlaces, FilePlaces, Loading
<1> QED BY <1>2, <1>3, <1>6

LEMMA KbdReplyKeeps ==
  ASSUME Inv, NEW w \in Logins, KbdReply(w)
  PROVE  Inv'
<1>1. At(w) = "kbd reply" /\ At(w) \notin AgentPlaces
  BY DEF KbdReply, AgentPlaces
<1>2. CASE To(w, Ended(login[w], "done")) \/ To(w, Ended(login[w], "Auth"))
  <2>1. PICK s : Fit(s) /\ To(w, s)
    BY <1>2, EndedFits DEF Over
  <2> QED BY <2>1, FitMoves DEF KbdReply
<1>3. CASE login[w].rounds < MaxRounds /\ Goes(w, "kbd reply", "kbd prompt")
  <2>1. PICK t : t = [login[w] EXCEPT !.at = "kbd prompt"]
    OBVIOUS
  <2>2. Same(t, w, "kbd prompt")
    BY <2>1, Moved DEF Places, User
  <2>3. login[w].had = login[w].tried
    BY <1>1, LoginTyped DEF InOrder, At
  <2>4. InOrder(t)
    BY <1>3, <2>2, <2>3 DEF Same, InOrder, AgentPlaces, FilePlaces, Loading
  <2>5. Fit(t) /\ To(w, t)
    BY <1>3, <2>1, <2>2, <2>4 DEF Same, Fit, Loading, Goes
  <2> QED BY <2>5, FitMoves DEF KbdReply
<1>4. CASE login[w].rounds < MaxRounds /\ Responds(w)
  <2>1. PICK s : Fit(s) /\ To(w, s)
    BY <1>1, <1>4, RespondsFits
  <2> QED BY <2>1, FitMoves DEF KbdReply
<1> QED BY <1>2, <1>3, <1>4 DEF KbdReply

LEMMA KbdPromptKeeps ==
  ASSUME Inv, NEW w \in Logins, KbdPrompt(w)
  PROVE  Inv'
<1>1. At(w) = "kbd prompt" /\ At(w) \notin AgentPlaces
  BY DEF KbdPrompt, AgentPlaces
<1>2. login[w].rounds < MaxRounds
  BY <1>1, LoginTyped DEF InOrder, At
<1>3. PICK s : Fit(s) /\ To(w, s)
  BY <1>1, <1>2, RespondsFits, EndedFits DEF KbdPrompt, Over
<1> QED BY <1>3, FitMoves DEF KbdPrompt

-----------------------------------------------------------------------------
(* Every step keeps the invariant: load_key.                               *)

\* A move inside load_key that leaves the keychain alone.
LEMMA Inside ==
  ASSUME Inv, NEW w \in Logins, At(w) \in Loading, NEW q \in Loading, NEW t, Same(t, w, q), To(w, t),
         UNCHANGED <<kind, keychain>>, sure' \subseteq sure \cup {w},
         MayDelete(t), w \in sure' => WillFind(t)
  PROVE  Inv'
<1>1. At(w) \notin AgentPlaces /\ q \notin AgentPlaces /\ q # "kbd prompt"
  BY DEF Loading, AgentPlaces
<1>2. login[w].next <= Len(Files)
  BY LoginTyped DEF InOrder, FilePlaces, At
<1>3. InOrder(t)
  BY <1>1, <1>2, SameInOrder
<1>4. password' \in Value
  BY DEF keychain, Inv, TypeOK
<1> QED BY <1>3, <1>4, Alone DEF Same, keychain

\* A move out of load_key.
LEMMA Outside ==
  ASSUME Inv, NEW w \in Logins, At(w) \in Loading, NEW loaded \in BOOLEAN, Returns(w, loaded),
         UNCHANGED <<kind, keychain>>, sure' \subseteq sure
  PROVE  Inv'
<1>1. PICK s : Fit(s) /\ To(w, s)
  BY ReturnsFit
<1> QED BY <1>1, FitKeeps DEF keychain, Inv, TypeOK

\* The file a login is at, and what the record of its next step is at.
LEMMA AtFile ==
  ASSUME Inv, NEW w \in Logins, At(w) \in Loading
  PROVE  /\ file(w) \in FileSet /\ current[file(w)] \in Value /\ legacy[file(w)] \in Value
         /\ file(w) = Files[login[w].next]
<1>1. file(w) \in FileSet
  BY HasFile DEF FilePlaces
<1> QED BY <1>1 DEF Inv, TypeOK, file

LEMMA LoadKeyKeeps ==
  ASSUME Inv, NEW w \in Logins, LoadKey(w)
  PROVE  Inv'
<1>1. At(w) = "load" /\ At(w) \in Loading
  BY DEF LoadKey, Loading
<1>2. CASE kind[file(w)].private = "encrypted"
  <2>1. PICK t : t = [login[w] EXCEPT !.at = "migrate"]
    OBVIOUS
  <2>2. "migrate" \in Places /\ "migrate" \in Loading
    BY DEF Places, Loading
  <2>3. Same(t, w, "migrate") /\ To(w, t)
    BY <1>2, <2>1, <2>2, Moved DEF LoadKey, Goes
  <2>4. MayDelete(t)
    BY <2>3 DEF Same, MayDelete
  <2>5. w \in sure' => WillFind(t)
    <3>1. w \in sure' => ToFind(file(w), current, legacy)
      BY <1>2 DEF LoadKey
    <3>2. file(w) = Files[t.next] /\ t.at = "migrate"
      BY <2>3 DEF Same, file
    <3> QED BY <3>1, <3>2 DEF WillFind
  <2>6. sure' \subseteq sure \cup {w}
    BY DEF LoadKey
  <2> QED BY <1>1, <2>2, <2>3, <2>4, <2>5, <2>6, Inside DEF LoadKey
<1>3. CASE kind[file(w)].private # "encrypted"
  <2>1. Returns(w, kind[file(w)].private = "plain") /\ sure' \subseteq sure
    BY <1>3 DEF LoadKey
  <2>2. PICK loaded \in BOOLEAN : Returns(w, loaded)
    BY <2>1
  <2> QED BY <1>1, <2>1, <2>2, Outside DEF LoadKey
<1> QED BY <1>2, <1>3

LEMMA MigrateKeeps ==
  ASSUME Inv, NEW w \in Logins, Migrate(w)
  PROVE  Inv'
<1>1. At(w) = "migrate" /\ At(w) \in Loading
  BY DEF Migrate, Loading
<1>2. PICK q \in {"legacy", "stored"} :
         /\ To(w, [login[w] EXCEPT !.at = q]) /\ sure' \subseteq sure
         /\ w \in sure' /\ q = "stored" => ~kind[file(w)].respelled \/ current[file(w)] # "none"
  <2>1. CASE kind[file(w)].respelled
    BY <2>1 DEF Migrate, Reads, Goes
  <2>2. CASE ~kind[file(w)].respelled
    BY <2>2 DEF Migrate, Goes
  <2> QED BY <2>1, <2>2
<1>3. PICK t : t = [login[w] EXCEPT !.at = q]
  OBVIOUS
<1>4. q \in Places /\ q \in Loading
  BY DEF Places, Loading
<1>5. Same(t, w, q) /\ To(w, t)
  BY <1>2, <1>3, <1>4, Moved
<1>6. MayDelete(t)
  BY <1>5 DEF Same, MayDelete
<1>7. ASSUME w \in sure' PROVE WillFind(t)
  <2>1. ToFind(file(w), current, legacy)
    BY <1>1, <1>2, <1>7 DEF Inv, WillFind, At, file
  <2>2. file(w) = Files[t.next] /\ t.at = q
    BY <1>5 DEF Same, file
  <2> QED BY <1>2, <1>7, <2>1, <2>2 DEF WillFind, ToFind
<1> QED BY <1>1, <1>2, <1>4, <1>5, <1>6, <1>7, Inside DEF Migrate

LEMMA ReadLegacyKeeps ==
  ASSUME Inv, NEW w \in Logins, ReadLegacy(w)
  PROVE  Inv'
<1>1. At(w) = "legacy" /\ At(w) \in Loading
  BY DEF ReadLegacy, Loading
<1>2. PICK v \in Value, q \in {"stored", "move", "clear"} :
         /\ To(w, [login[w] EXCEPT !.at = q, !.got = v]) /\ sure' \subseteq sure
         /\ w \in sure' => v = legacy[file(w)]
         /\ q = "stored" => v = "none"
         /\ q = "move" => v = "good"
         /\ q = "clear" => v = "bad" /\ v = legacy[file(w)]
  BY DEF ReadLegacy, Reads, Gets, Value
<1>3. PICK t : t = [login[w] EXCEPT !.at = q, !.got = v]
  OBVIOUS
<1>4. q \in Places /\ q \in Loading
  BY DEF Places, Loading
<1>5. Same(t, w, q) /\ t.got = v /\ To(w, t)
  <2>1. Same(t, w, q)
    BY <1>3, <1>4, Got
  <2>2. t.got = v
    BY <1>3, LoginTyped DEF Login
  <2> QED BY <1>2, <1>3, <2>1, <2>2
<1>6. MayDelete(t)
  BY <1>2, <1>5 DEF Same, MayDelete, file
<1>7. ASSUME w \in sure' PROVE WillFind(t)
  <2>1. ToFind(file(w), current, legacy)
    BY <1>1, <1>2, <1>7 DEF Inv, WillFind, At, file
  <2>2. file(w) = Files[t.next] /\ t.at = q
    BY <1>5 DEF Same, file
  <2> QED BY <1>2, <1>7, <2>1, <2>2 DEF WillFind, ToFind
<1> QED BY <1>1, <1>2, <1>4, <1>5, <1>6, <1>7, Inside DEF ReadLegacy

LEMMA ReadCurrentKeeps ==
  ASSUME Inv, NEW w \in Logins, ReadCurrent(w)
  PROVE  Inv'
<1>1. At(w) = "stored" /\ At(w) \in Loading
  BY DEF ReadCurrent, Loading
<1>2. CASE Returns(w, TRUE) /\ sure' \subseteq sure
  BY <1>1, <1>2, Outside DEF ReadCurrent
<1>3. ASSUME NEW q \in {"stale", "passphrase"}, To(w, [login[w] EXCEPT !.at = q]),
             sure' \subseteq sure, w \in sure' => current[file(w)] # "good",
             q = "stale" => current[file(w)] = "bad"
      PROVE  Inv'
  <2>1. PICK t : t = [login[w] EXCEPT !.at = q]
    OBVIOUS
  <2>2. q \in Places /\ q \in Loading
    BY DEF Places, Loading
  <2>3. Same(t, w, q) /\ To(w, t)
    BY <1>3, <2>1, <2>2, Moved
  <2>4. MayDelete(t)
    <3>1. file(w) = Files[t.next] /\ t.at = q
      BY <2>3 DEF Same, file
    <3> QED BY <1>1, <1>3, <3>1, AtFile DEF MayDelete, Inv, NoOldBesideBad
  <2>5. w \notin sure'
    BY <1>1, <1>3 DEF Inv, WillFind, At, file
  <2> QED BY <1>1, <1>3, <2>2, <2>3, <2>4, <2>5, Inside DEF ReadCurrent
<1>4. PICK v \in Value :
         /\ Reads(w, v, current[file(w)])
         /\ CASE v = "good" -> Returns(w, TRUE)
              [] v = "bad"  -> Goes(w, "stored", "stale")
              [] v = "none" -> Goes(w, "stored", "passphrase")
  BY DEF ReadCurrent
<1>5. sure' \subseteq sure /\ (w \in sure' => v = current[file(w)])
      /\ (v # "none" => v = current[file(w)])
  BY <1>4 DEF Reads
<1>6. CASE v = "good"
  BY <1>2, <1>4, <1>5, <1>6
<1>7. CASE v = "bad"
  <2>1. To(w, [login[w] EXCEPT !.at = "stale"])
    BY <1>4, <1>7 DEF Goes
  <2> QED BY <1>3, <1>5, <1>7, <2>1
<1>8. CASE v = "none"
  <2>1. To(w, [login[w] EXCEPT !.at = "passphrase"])
    BY <1>4, <1>8 DEF Goes
  <2> QED BY <1>3, <1>5, <1>8, <2>1
<1> QED BY <1>6, <1>7, <1>8 DEF Value

\* load_key returns after a change of the keychain.
LEMMA SharedReturn ==
  ASSUME Inv, NEW w \in Logins, At(w) \in Loading, Returns(w, TRUE), UNCHANGED kind,
         NEW cur, NEW old, Keychain(cur, old),
         \/ cur = [current EXCEPT ![file(w)] = "good"] /\ old = legacy
         \/ cur = current /\ old = [legacy EXCEPT ![file(w)] = "none"] /\ MayDelete(login[w])
            /\ At(w) = "clear"
  PROVE  Inv'
<1>1. PICK s : Fit(s) /\ To(w, s)
  BY ReturnsFit
<1>2. MayDelete(s)' /\ WillFind(s)'
  BY <1>1 DEF MayDelete, WillFind, Fit, Loading
<1> QED BY <1>1, <1>2, AtFile, Shared DEF Fit

LEMMA SaveCurrentKeeps ==
  ASSUME Inv, NEW w \in Logins, SaveCurrent(w)
  PROVE  Inv'
<1>1. At(w) = "move" /\ At(w) \in Loading /\ UNCHANGED kind
  BY DEF SaveCurrent, Loading
<1>2. CASE UNCHANGED <<keychain, sure>> /\ Returns(w, TRUE)
  BY <1>1, <1>2, Outside DEF keychain
<1>3. CASE Keychain([current EXCEPT ![file(w)] = "good"], legacy) /\ Goes(w, "move", "clear")
  <2>1. PICK t : t = [login[w] EXCEPT !.at = "clear"]
    OBVIOUS
  <2>2. "clear" \in Places /\ "clear" \in Loading
    BY DEF Places, Loading
  <2>3. Same(t, w, "clear") /\ t.got = login[w].got /\ To(w, t)
    BY <1>3, <2>1, <2>2, Moved DEF Goes
  <2>4. InOrder(t)
    <3>1. login[w].next <= Len(Files)
      BY <1>1, LoginTyped DEF InOrder, FilePlaces, At
    <3> QED BY <1>1, <2>3, <3>1, SameInOrder DEF AgentPlaces
  <2>5. current' = [current EXCEPT ![file(w)] = "good"] /\ legacy' = legacy
    BY <1>3 DEF Keychain
  <2>6. current'[Files[t.next]] = "good" /\ t.at = "clear" /\ t.got = "good"
    <3>1. Files[t.next] = file(w) /\ t.at = "clear"
      BY <2>3 DEF Same, file
    <3>2. login[w].got = "good"
      BY <1>1 DEF Inv, MayDelete, At
    <3> QED BY <1>1, <2>3, <2>5, <3>1, <3>2, AtFile DEF Inv, TypeOK
  <2>7. MayDelete(t)' /\ WillFind(t)'
    BY <2>6 DEF MayDelete, WillFind, ToFind
  <2> QED BY <1>1, <1>3, <2>3, <2>4, <2>7, AtFile, Shared DEF Same
<1> QED BY <1>2, <1>3 DEF SaveCurrent

LEMMA ClearLegacyKeeps ==
  ASSUME Inv, NEW w \in Logins, ClearLegacy(w)
  PROVE  Inv'
<1> DEFINE old == [legacy EXCEPT ![file(w)] = "none"]
<1>1. At(w) = "clear" /\ At(w) \in Loading /\ UNCHANGED kind /\ MayDelete(login[w])
  BY DEF ClearLegacy, Loading, Inv
<1>2. CASE login[w].got = "good"
  <2>1. Returns(w, TRUE)
    BY <1>2 DEF ClearLegacy
  <2>2. CASE Keychain(current, old)
    BY <1>1, <2>1, <2>2, SharedReturn
  <2>3. CASE UNCHANGED <<keychain, sure>>
    BY <1>1, <2>1, <2>3, Outside
  <2> QED BY <2>2, <2>3 DEF ClearLegacy
<1>3. CASE login[w].got # "good"
  <2>1. PICK t : t = [login[w] EXCEPT !.at = "stored", !.got = "none"]
    OBVIOUS
  <2>2. "stored" \in Places /\ "stored" \in Loading /\ "none" \in Value
    BY DEF Places, Loading, Value
  <2>3. Same(t, w, "stored") /\ To(w, t)
    <3>1. Same(t, w, "stored")
      BY <2>1, <2>2, Got
    <3>2. To(w, t)
      BY <1>3, <2>1 DEF ClearLegacy, Gets
    <3> QED BY <3>1, <3>2
  <2>4. file(w) = Files[t.next] /\ t.at = "stored"
    BY <2>3 DEF Same, file
  <2>5. legacy[file(w)] # "good"
    BY <1>1, <1>3 DEF MayDelete, At, file
  <2>6. w \in sure => current[file(w)] = "good"
    BY <1>1, <2>5 DEF Inv, WillFind, ToFind, At, file
  <2>7. CASE Keychain(current, old)
    <3>1. InOrder(t)
      <4>1. login[w].next <= Len(Files)
        BY <1>1, LoginTyped DEF InOrder, FilePlaces, At
      <4> QED BY <1>1, <2>3, <4>1, SameInOrder DEF AgentPlaces
    <3>2. current' = current /\ sure' \subseteq sure
      BY <2>7 DEF Keychain
    <3>3. MayDelete(t)'
      BY <2>4 DEF MayDelete
    <3>4. w \in sure' => WillFind(t)'
      BY <2>4, <2>6, <3>2 DEF WillFind
    <3> QED BY <1>1, <2>3, <2>7, <3>1, <3>3, <3>4, AtFile, Shared DEF Same
  <2>8. CASE UNCHANGED <<keychain, sure>>
    <3>1. MayDelete(t) /\ (w \in sure' => WillFind(t))
      BY <2>4, <2>6, <2>8 DEF MayDelete, WillFind
    <3> QED BY <1>1, <2>2, <2>3, <2>8, <3>1, Inside
  <2> QED BY <2>7, <2>8 DEF ClearLegacy
<1> QED BY <1>2, <1>3

LEMMA ClearStaleKeeps ==
  ASSUME Inv, NEW w \in Logins, ClearStale(w)
  PROVE  Inv'
<1> DEFINE cur == [current EXCEPT ![file(w)] = "none"]
<1>1. At(w) = "stale" /\ At(w) \in Loading /\ UNCHANGED kind
  BY DEF ClearStale, Goes, Loading
<1>2. PICK t : t = [login[w] EXCEPT !.at = "passphrase"]
  OBVIOUS
<1>3. "passphrase" \in Places /\ "passphrase" \in Loading
  BY DEF Places, Loading
<1>4. Same(t, w, "passphrase") /\ To(w, t)
  BY <1>2, <1>3, Moved DEF ClearStale, Goes
<1>5. t.at = "passphrase"
  BY <1>4 DEF Same
<1>6. w \notin sure
  BY <1>1 DEF Inv, WillFind, At
<1>7. legacy[file(w)] # "good"
  BY <1>1 DEF Inv, MayDelete, At, file
<1>8. CASE Keychain(cur, legacy)
  <2>1. InOrder(t)
    <3>1. login[w].next <= Len(Files)
      BY <1>1, LoginTyped DEF InOrder, FilePlaces, At
    <3> QED BY <1>1, <1>4, <3>1, SameInOrder DEF AgentPlaces
  <2>2. w \notin sure'
    BY <1>6, <1>8 DEF Keychain
  <2>3. MayDelete(t)'
    BY <1>5 DEF MayDelete
  <2> QED BY <1>1, <1>4, <1>7, <1>8, <2>1, <2>2, <2>3, AtFile, Shared DEF Same
<1>9. CASE UNCHANGED <<keychain, sure>>
  <2>1. MayDelete(t) /\ w \notin sure'
    BY <1>5, <1>6, <1>9 DEF MayDelete
  <2> QED BY <1>1, <1>3, <1>4, <1>9, <2>1, Inside
<1> QED BY <1>8, <1>9 DEF ClearStale

LEMMA PassphraseTypedKeeps ==
  ASSUME Inv, NEW w \in Logins, PassphraseTyped(w)
  PROVE  Inv'
<1>1. At(w) = "passphrase" /\ At(w) \in Loading /\ UNCHANGED kind
  BY DEF PassphraseTyped, Loading
<1>2. CASE \E right \in BOOLEAN : Returns(w, right) /\ UNCHANGED <<keychain, sure>>
  BY <1>1, <1>2, Outside
<1>3. CASE Returns(w, TRUE) /\ Keychain([current EXCEPT ![file(w)] = "good"], legacy)
  BY <1>1, <1>3, SharedReturn
<1> QED BY <1>2, <1>3 DEF PassphraseTyped

-----------------------------------------------------------------------------
(* The theorems.                                                           *)

LEMMA InitInv == Init => Inv
<1> SUFFICES ASSUME Init PROVE Inv
  OBVIOUS
<1>1. login = [w \in Logins |-> Start] /\ sure = {}
  BY DEF Init
<1>2. TypeOK
  <2>1. kind \in [FileSet -> FileKind] /\ current \in [FileSet -> Value]
        /\ legacy \in [FileSet -> Value] /\ password \in Value
    BY DEF Init
  <2> QED BY <1>1, <2>1, StartTyped DEF TypeOK
<1>3. NoOldBesideBad
  BY DEF Init, NoOldBesideBad
<1>4. InOrder(Start) /\ MayDelete(Start)
  BY StartTyped DEF InOrder, MayDelete, FilePlaces, Loading, AgentPlaces
<1> QED BY <1>1, <1>2, <1>3, <1>4 DEF Inv

LEMMA StepInv ==
  ASSUME Inv, [Next]_vars
  PROVE  Inv'
<1>1. CASE Next
  <2>1. PICK w \in Logins : Runs(w) \/ Answered(w) \/ Typed(w)
    BY <1>1 DEF Next
  <2>2. CASE Runs(w)
    BY <2>2, TryFileKeeps, LoadKeyKeeps, MigrateKeeps, ReadLegacyKeeps, SaveCurrentKeeps,
       ClearLegacyKeeps, ReadCurrentKeeps, ClearStaleKeeps, FilesEndKeeps, TryAgentKeeps,
       AgentEndKeeps, GetPasswordKeeps, KbdReplyKeeps DEF Runs
  <2>3. CASE Answered(w)
    BY <2>3, NoneAnsweredKeeps, OfferRefusedKeeps, SignatureJudgedKeeps, AgentKeyJudgedKeeps,
       StoredPasswordJudgedKeeps, TypedPasswordJudgedKeeps, KbdAnsweredKeeps, PkOkKeeps,
       AgentFailsKeeps, LostKeeps DEF Answered
  <2>4. CASE Typed(w)
    BY <2>4, PassphraseTypedKeeps, TypePasswordKeeps, KbdPromptKeeps DEF Typed
  <2> QED BY <2>1, <2>2, <2>3, <2>4
<1>2. CASE UNCHANGED vars
  BY <1>2 DEF vars, Inv, TypeOK, NoOldBesideBad, InOrder, MayDelete, WillFind, ToFind
<1> QED BY <1>1, <1>2

\* Whatever the logins, the server, the user and the keychain do, every login
\* is in order, deletes no last copy that works, and finds what is there.
THEOREM Invariant == Spec => []Inv
<1>1. Init => Inv
  BY InitInv
<1>2. Inv /\ [Next]_vars => Inv'
  BY StepInv
<1> QED BY <1>1, <1>2, PTL DEF Spec

\* load_key does not ask for a passphrase that was in the keychain all the
\* while, for any number of logins, files and failing calls.
THEOREM NotAsked == Spec => []NotAskedInVain
<1>1. Inv => NotAskedInVain
  BY DEF Inv, WillFind, NotAskedInVain, At
<1> QED BY <1>1, Invariant, PTL

\* The agent offers exactly the keys that no file has offered (tried,
\* FileSigner::declined), for any files and any keys of the agent.
THEOREM AgentOffers == Spec => []AgentOffersRest
<1>1. ASSUME Inv, NEW w \in Logins, At(w) = "agent offer"
      PROVE  agent_key(w) \notin login[w].had
  <2> DEFINE n == login[w].next
  <2>1. /\ n \in Nat /\ n >= 1 /\ n <= Len(AgentKeys) /\ AgentKeys[n] \notin login[w].tried
        /\ login[w].had = login[w].tried \cup Before(n)
    BY <1>1, LoginTyped DEF InOrder, At, AgentPlaces
  <2>2. AgentKeys[n] \notin Before(n)
    <3>1. \A i \in DOMAIN AgentKeys : i < n => AgentKeys[i] # AgentKeys[n]
      BY <2>1, Lists, AuthAssumption
    <3> QED BY <3>1 DEF Before
  <2> QED BY <2>1, <2>2 DEF agent_key
<1>2. ASSUME Inv, NEW w \in Logins, At(w) = "agent", login[w].next > Len(AgentKeys)
      PROVE  AgentSet \subseteq login[w].had
  <2> DEFINE n == login[w].next
  <2>1. n \in Nat /\ login[w].had = login[w].tried \cup Before(n)
    BY <1>2, LoginTyped DEF InOrder, At, AgentPlaces
  <2>2. AgentSet \subseteq Before(n)
    BY <1>2, <2>1, Lists DEF AgentSet, Before
  <2> QED BY <2>1, <2>2
<1>3. Inv => AgentOffersRest
  BY <1>1, <1>2 DEF AgentOffersRest
<1> QED BY <1>3, Invariant, PTL

\* The logins and the keychain stay well typed: only keys of the files and of
\* the agent are tried, and a login answers no more keyboard rounds than
\* MaxRounds (MAX_KBD_ROUNDS).
THEOREM TypeCorrect == Spec => []TypeOK
<1>1. Inv => TypeOK
  BY DEF Inv
<1> QED BY <1>1, Invariant, PTL

\* No step takes the last copy of a passphrase that works, except the one
\* that deletes a stale entry.
LEMMA StepKeeps ==
  ASSUME Inv, Next, NEW f \in FileSet, Stored(f), ~Stored(f)'
  PROVE  \E w \in Logins : At(w) = "stale" /\ At(w)' # "stale"
<1>1. PICK w \in Logins : Runs(w) \/ Answered(w) \/ Typed(w)
  BY DEF Next
<1>2. ~UNCHANGED <<current, legacy>>
  BY DEF Stored
<1>3. ClearStale(w) \/ ClearLegacy(w) \/ SaveCurrent(w) \/ PassphraseTyped(w)
  <2>1. CASE Runs(w)
    BY <1>2, <2>1 DEF Runs, TryFile, LoadKey, Migrate, ReadLegacy, ReadCurrent, FilesEnd, TryAgent,
       AgentEnd, GetPassword, KbdReply, keychain
  <2>2. CASE Answered(w)
    BY <1>2, <2>2 DEF Answered, NoneAnswered, OfferRefused, SignatureJudged, AgentKeyJudged,
       StoredPasswordJudged, TypedPasswordJudged, KbdAnswered, PkOk, AgentFails, Lost, keychain
  <2>3. CASE Typed(w)
    BY <1>2, <2>3 DEF Typed, TypePassword, KbdPrompt, keychain
  <2> QED BY <1>1, <2>1, <2>2, <2>3
<1>4. CASE SaveCurrent(w) \/ PassphraseTyped(w)
  <2>1. current' = [current EXCEPT ![file(w)] = "good"] /\ legacy' = legacy
    BY <1>2, <1>4 DEF SaveCurrent, PassphraseTyped, Keychain, keychain
  <2> QED BY <2>1 DEF Stored, Inv, TypeOK
<1>5. CASE ClearLegacy(w)
  <2>1. current' = current /\ legacy' = [legacy EXCEPT ![file(w)] = "none"]
    BY <1>2, <1>5 DEF ClearLegacy, Keychain, keychain
  <2>2. legacy[file(w)] # "good" \/ current[file(w)] = "good"
    BY <1>5 DEF ClearLegacy, Inv, MayDelete, At, file
  <2> QED BY <2>1, <2>2 DEF Stored, Inv, TypeOK
<1>6. CASE ClearStale(w)
  <2>1. At(w) = "stale" /\ login' = [login EXCEPT ![w] = [login[w] EXCEPT !.at = "passphrase"]]
    BY <1>6 DEF ClearStale, Goes, To
  <2>2. At(w)' = "passphrase"
    BY <2>1, LoginTyped DEF At, Inv, TypeOK, Login
  <2> QED BY <2>1, <2>2
<1> QED BY <1>3, <1>4, <1>5, <1>6

\* A passphrase that works is not lost by migrating it (migrate_passphrase),
\* for any number of logins, whichever call on the keychain fails.
THEOREM PassphraseKept == Spec => KeepsPassphrase
<1>1. ASSUME Inv, [Next]_vars
      PROVE  [\A f \in FileSet : Stored(f) /\ ~Stored(f)' =>
                \E w \in Logins : At(w) = "stale" /\ At(w)' # "stale"]_vars
  <2>1. CASE Next
    BY <1>1, <2>1, StepKeeps
  <2>2. CASE UNCHANGED vars
    BY <2>2
  <2> QED BY <1>1, <2>1, <2>2
<1> QED BY <1>1, Invariant, PTL DEF Spec, KeepsPassphrase
=============================================================================
