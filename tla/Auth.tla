-------------------------------- MODULE Auth --------------------------------
(***************************************************************************)
(* Logging in to one hop: authenticate and what it calls                   *)
(* (mai-core/src/ssh/client.rs, signer.rs), with the keychain that all     *)
(* logins of the app share (auth.rs).  Two logins run at the same time     *)
(* when two hosts are reached through one jump host, or use one key file:  *)
(* each host has a gate of its own.                                        *)
(*                                                                         *)
(* A secret is "good" if it is the right one (it decrypts the file, or is  *)
(* the password), "bad" if not.  Each call on the keychain is a step that  *)
(* may fail; a call that follows an answer of the server or the user with  *)
(* nothing shared in between is part of that answer's step.  The server    *)
(* answers as it likes, but accepts neither a bad password nor a signature *)
(* that cannot verify.  Notes and messages are left out; a local variable  *)
(* that goes out of scope falls back to its first value.                   *)
(***************************************************************************)
EXTENDS Naturals, Sequences

CONSTANTS
  Logins,
  Files,          \* identity files that exist, in order
  KeyOf,          \* file -> its public key
  Kinds,          \* file -> how it may be stored, of FileKind
  AgentKeys,      \* keys the agent holds, in order
  Remaining,      \* sets of methods the server may name
  MaxRounds       \* MAX_KBD_ROUNDS

Methods == {"publickey", "password", "keyboard-interactive"}

\* public: public_key_of finds the public key without decrypting;
\* private: what load_secret_key says without a passphrase;
\* respelled: legacy_passphrase_key is not passphrase_key.
FileKind ==
  [public : BOOLEAN, private : {"plain", "encrypted", "broken"}, respelled : BOOLEAN]

FileSet == {Files[i] : i \in DOMAIN Files}
AgentSet == {AgentKeys[i] : i \in DOMAIN AgentKeys}
Keys == {KeyOf[f] : f \in FileSet} \cup AgentSet
Value == {"none", "good", "bad"}

\* An agent lists a key once.
ASSUME AuthAssumption ==
  /\ Files \in Seq(FileSet) /\ AgentKeys \in Seq(AgentSet)
  /\ \A i, j \in DOMAIN AgentKeys : AgentKeys[i] = AgentKeys[j] => i = j
  /\ Kinds \in [FileSet -> SUBSET FileKind]
  /\ Remaining \subseteq SUBSET Methods
  /\ MaxRounds \in Nat \ {0}

\* Where a login waits for the server and for the user.
Server == {"none", "offer", "signed", "agent offer", "stored password", "typed password", "kbd"}
User == {"passphrase", "password", "kbd prompt"}
Loading == {"load", "migrate", "legacy", "move", "clear", "stored", "stale", "passphrase"}
Over == {"done", "Auth", "Connect"}
Places == Server \cup User \cup Loading \cup Over \cup {"files", "agent", "get password", "kbd reply"}

VARIABLES
  login,     \* what each login knows
  kind,      \* file -> how it is stored
  current, legacy, password,   \* the keychain
  sure       \* logins for which there was a passphrase to find since load_key began

keychain == <<current, legacy, password>>
vars == <<login, kind, current, legacy, password, sure>>

Login ==
  [at      : Places,
   methods : SUBSET Methods,   \* what the last answer offers
   next    : Nat,              \* the key file, later the agent key, it is at
   tried   : SUBSET Keys,
   had     : SUBSET Keys,      \* keys that had their turn
   signed  : BOOLEAN,          \* the signature sent is the key's, or declined
   got     : Value,            \* secret last read from the keychain or typed
   lost    : BOOLEAN,          \* the connection broke on an agent's key
   rounds  : 0 .. MaxRounds,   \* keyboard-interactive rounds answered
   reply   : {"none", "Success", "Failure", "InfoRequest"}]

Start == [at |-> "none", methods |-> {}, next |-> 1, tried |-> {}, had |-> {},
          signed |-> FALSE, got |-> "none", lost |-> FALSE, rounds |-> 0, reply |-> "none"]

\* Every part of the state has its type.
TypeOK ==
  /\ login \in [Logins -> Login] /\ sure \subseteq Logins
  /\ kind \in [FileSet -> FileKind]
  /\ current \in [FileSet -> Value] /\ legacy \in [FileSet -> Value] /\ password \in Value

At(w) == login[w].at
file(w) == Files[login[w].next]
agent_key(w) == AgentKeys[login[w].next]

\* The login goes on as s.
To(w, s) == login' = [login EXCEPT ![w] = s]
Goes(w, p, q) == At(w) = p /\ To(w, [login[w] EXCEPT !.at = q])

\* The next key: what this try adds to `tried`, and which key had its turn
\* (the server judged it, or the agent would not sign with it).
Passes(s, tried, turn, q) ==
  [s EXCEPT !.at = q, !.next = @ + 1, !.tried = @ \cup tried, !.had = @ \cup turn,
            !.signed = FALSE, !.got = "none"]

\* It is over; behind the password; behind the keys.
Ended(s, how) == [Start EXCEPT !.at = how]
AfterPassword(s) ==
  IF "keyboard-interactive" \in s.methods
    THEN [Start EXCEPT !.at = "kbd", !.lost = s.lost] ELSE Ended(s, "Auth")
AfterKeys(s) ==
  IF "password" \in s.methods
    THEN [Start EXCEPT !.at = "get password", !.methods = s.methods, !.lost = s.lost]
    ELSE AfterPassword(s)

-----------------------------------------------------------------------------
(* The server's answers.                                                   *)

Success == [ok |-> TRUE, partial |-> FALSE, methods |-> {}]
Failures(partial) == [ok : {FALSE}, partial : {partial}, methods : Remaining]

\* Something worthless is refused; anything else may be.
Answers(worthy) ==
  Failures(FALSE) \cup (IF worthy THEN Failures(TRUE) \cup {Success} ELSE {})

\* step(): the methods are recorded, and it is Done, Partial or Failed.
step(w, a, Partial(_), Failed(_)) ==
  LET s == [login[w] EXCEPT !.methods = a.methods]
  IN To(w, CASE a.ok -> Ended(s, "done") [] a.partial -> Partial(s) [] OTHER -> Failed(s))

\* authenticate_none.
NoneAnswered(w, a) ==
  LET Begins(s) == IF "publickey" \in a.methods THEN [s EXCEPT !.at = "files"] ELSE AfterKeys(s)
  IN /\ At(w) = "none" /\ a \in Answers(TRUE)
     /\ step(w, a, Begins, Begins)
     /\ UNCHANGED <<kind, keychain, sure>>

\* The connection is gone: every call that needs it fails.
Lost(w) ==
  /\ \/ At(w) \in Server \ {"agent offer"}
     \/ At(w) = "files" /\ login[w].next <= Len(Files)
     \/ At(w) = "agent" /\ login[w].next <= Len(AgentKeys) /\ agent_key(w) \notin login[w].tried
  /\ To(w, Ended(login[w], "Connect"))
  /\ UNCHANGED <<kind, keychain, sure>>

-----------------------------------------------------------------------------
(* Key files.                                                              *)

\* The public key is offered if it can be read, else the file decrypted first.
TryFile(w) ==
  /\ login[w].next <= Len(Files)
  /\ Goes(w, "files", IF kind[file(w)].public THEN "offer" ELSE "load")
  /\ UNCHANGED <<kind, keychain, sure>>

\* The server has no use for the key, or wants the signature.
OfferRefused(w, a) ==
  LET key == {KeyOf[file(w)]}
      Tried(s) == Passes(s, key, key, "files")
  IN /\ At(w) = "offer" /\ a \in Failures(FALSE)
     /\ step(w, a, Tried, Tried)
     /\ UNCHANGED <<kind, keychain, sure>>

PkOk(w) ==
  /\ Goes(w, "offer", "load")
  /\ UNCHANGED <<kind, keychain, sure>>

Key(w) == IF login[w].signed THEN {KeyOf[file(w)]} ELSE {}

\* Mutant: a key whose passphrase was refused counts as tried.
SignatureJudgedAll(w, a) ==
  LET Tried(s) == Passes(s, {KeyOf[file(w)]}, Key(w), "files")
  IN /\ At(w) = "signed" /\ a \in Answers(login[w].signed)
     /\ step(w, a, AfterKeys, Tried)
     /\ UNCHANGED <<kind, keychain, sure>>

\* A key that was declined is left to the agent.
SignatureJudged(w, a) ==
  LET Tried(s) == Passes(s, Key(w), Key(w), "files")
  IN /\ At(w) = "signed" /\ a \in Answers(login[w].signed)
     /\ step(w, a, AfterKeys, Tried)
     /\ UNCHANGED <<kind, keychain, sure>>

-----------------------------------------------------------------------------
(* load_key and migrate_passphrase.                                        *)

\* A passphrase load_key finds: the current entry, or, if there is none, the
\* one to migrate.
ToFind(f, cur, old) ==
  cur[f] = "good" \/ (cur[f] = "none" /\ kind[f].respelled /\ old[f] = "good")

\* The keychain changes; a login is sure as long as there is one to find.
Keychain(cur, old) ==
  /\ current' = cur /\ legacy' = old
  /\ sure' = {w \in sure : At(w) \in Loading /\ ToFind(file(w), cur, old)}
  /\ UNCHANGED password

\* load_key returns: with the key a signature is sent, without it one that
\* cannot verify, or, if the public key is not known either, nothing.
Returns(w, loaded) ==
  To(w, IF loaded \/ kind[file(w)].public
          THEN [login[w] EXCEPT !.at = "signed", !.signed = loaded, !.got = "none"]
          ELSE Passes(login[w], {}, {}, "files"))

Gets(w, v, q) == To(w, [login[w] EXCEPT !.at = q, !.got = v])

LoadKey(w) ==
  LET private == kind[file(w)].private
  IN /\ At(w) = "load"
     /\ IF private = "encrypted" THEN Goes(w, "load", "migrate") ELSE Returns(w, private = "plain")
     /\ sure' = IF private = "encrypted" /\ ToFind(file(w), current, legacy)
                  THEN sure \cup {w} ELSE sure \ {w}
     /\ UNCHANGED <<kind, keychain>>

\* secrets.get: None also if the keychain cannot be read.
Reads(w, v, entry) ==
  \/ v = entry /\ UNCHANGED sure
  \/ v = "none" /\ sure' = sure \ {w}

\* migrate_passphrase: only if nothing is under the current key.
Migrate(w) ==
  /\ At(w) = "migrate"
  /\ IF kind[file(w)].respelled
       THEN \E v \in Value :
              /\ Reads(w, v, current[file(w)])
              /\ Goes(w, "migrate", IF v = "none" THEN "legacy" ELSE "stored")
       ELSE Goes(w, "migrate", "stored") /\ UNCHANGED sure
  /\ UNCHANGED <<kind, keychain>>

\* Mutant: nothing under either key means that the user must be asked.
ReadLegacyLast(w) ==
  /\ At(w) = "legacy"
  /\ \E v \in Value :
       /\ Reads(w, v, legacy[file(w)])
       /\ Gets(w, v, CASE v = "none" -> "passphrase" [] v = "good" -> "move" [] v = "bad" -> "clear")
  /\ UNCHANGED <<kind, keychain>>

ReadLegacy(w) ==
  /\ At(w) = "legacy"
  /\ \E v \in Value :
       /\ Reads(w, v, legacy[file(w)])
       /\ Gets(w, v, CASE v = "none" -> "stored" [] v = "good" -> "move" [] v = "bad" -> "clear")
  /\ UNCHANGED <<kind, keychain>>

\* Mutant: the old entry is removed although the new one could not be saved.
SaveCurrentOrNot(w) ==
  /\ Goes(w, "move", "clear")
  /\ \/ Keychain([current EXCEPT ![file(w)] = "good"], legacy)
     \/ UNCHANGED <<keychain, sure>>
  /\ UNCHANGED kind

\* It decrypts the file: saved under the current key, the old entry is kept
\* if that fails.
SaveCurrent(w) ==
  /\ At(w) = "move"
  /\ \/ Keychain([current EXCEPT ![file(w)] = "good"], legacy) /\ Goes(w, "move", "clear")
     \/ UNCHANGED <<keychain, sure>> /\ Returns(w, TRUE)
  /\ UNCHANGED kind

ClearLegacy(w) ==
  /\ At(w) = "clear"
  /\ \/ Keychain(current, [legacy EXCEPT ![file(w)] = "none"])
     \/ UNCHANGED <<keychain, sure>>
  /\ IF login[w].got = "good" THEN Returns(w, TRUE) ELSE Gets(w, "none", "stored")
  /\ UNCHANGED kind

ReadCurrent(w) ==
  /\ At(w) = "stored"
  /\ \E v \in Value :
       /\ Reads(w, v, current[file(w)])
       /\ CASE v = "good" -> Returns(w, TRUE)
            [] v = "bad"  -> Goes(w, "stored", "stale")
            [] v = "none" -> Goes(w, "stored", "passphrase")
  /\ UNCHANGED <<kind, keychain>>

ClearStale(w) ==
  /\ Goes(w, "stale", "passphrase")
  /\ \/ Keychain([current EXCEPT ![file(w)] = "none"], legacy)
     \/ UNCHANGED <<keychain, sure>>
  /\ UNCHANGED kind

\* The user cancels or mistypes, or types it, and it may be remembered.
PassphraseTyped(w) ==
  /\ At(w) = "passphrase"
  /\ \/ \E right \in BOOLEAN : Returns(w, right) /\ UNCHANGED <<keychain, sure>>
     \/ Returns(w, TRUE) /\ Keychain([current EXCEPT ![file(w)] = "good"], legacy)
  /\ UNCHANGED kind

-----------------------------------------------------------------------------
(* The agent.                                                              *)

\* No key file is left: there is an agent, or not.
FilesEnd(w) ==
  /\ At(w) = "files" /\ login[w].next > Len(Files)
  /\ \/ To(w, [login[w] EXCEPT !.at = "agent", !.next = 1])
     \/ To(w, AfterKeys(login[w]))
  /\ UNCHANGED <<kind, keychain, sure>>

TryAgent(w) ==
  /\ At(w) = "agent" /\ login[w].next <= Len(AgentKeys)
  /\ \/ agent_key(w) \in login[w].tried /\ To(w, Passes(login[w], {}, {}, "agent"))
     \/ agent_key(w) \notin login[w].tried /\ ~login[w].lost /\ Goes(w, "agent", "agent offer")
  /\ UNCHANGED <<kind, keychain, sure>>

AgentKeyJudged(w, a) ==
  LET Fails(s) == Passes(s, {}, {agent_key(w)}, "agent")
  IN /\ At(w) = "agent offer" /\ a \in Answers(TRUE)
     /\ step(w, a, AfterKeys, Fails)
     /\ UNCHANGED <<kind, keychain, sure>>

\* An error is passed over: the agent does not sign, or the connection broke.
AgentFails(w) ==
  /\ At(w) = "agent offer"
  /\ \E broke \in BOOLEAN : To(w, [Passes(login[w], {}, {agent_key(w)}, "agent") EXCEPT !.lost = broke])
  /\ UNCHANGED <<kind, keychain, sure>>

AgentEnd(w) ==
  /\ At(w) = "agent" /\ login[w].next > Len(AgentKeys)
  /\ To(w, AfterKeys(login[w]))
  /\ UNCHANGED <<kind, keychain, sure>>

-----------------------------------------------------------------------------
(* Password and keyboard-interactive.                                      *)

GetPassword(w) ==
  /\ At(w) = "get password"
  /\ \E v \in {password, "none"} :
       Gets(w, v, IF v = "none" THEN "password" ELSE "stored password")
  /\ UNCHANGED <<kind, keychain, sure>>

\* A stored password that is refused is deleted, or cannot be, and the user
\* is asked if passwords are still offered.
StoredPasswordJudged(w, a) ==
  LET Asks(s) == IF "password" \in s.methods THEN [s EXCEPT !.at = "password", !.got = "none"]
                                             ELSE AfterPassword(s)
  IN /\ At(w) = "stored password" /\ ~login[w].lost /\ a \in Answers(login[w].got = "good")
     /\ step(w, a, AfterPassword, Asks)
     /\ IF a \in Failures(FALSE) THEN password' \in {"none", password} ELSE UNCHANGED password
     /\ UNCHANGED <<kind, current, legacy, sure>>

\* The user types a password or cancels.
TypePassword(w) ==
  /\ At(w) = "password"
  /\ \/ \E v \in {"good", "bad"} : Gets(w, v, "typed password")
     \/ To(w, AfterPassword(login[w]))
  /\ UNCHANGED <<kind, keychain, sure>>

\* One that is accepted is remembered if the user said so.
TypedPasswordJudged(w, a) ==
  /\ At(w) = "typed password" /\ ~login[w].lost /\ a \in Answers(login[w].got = "good")
  /\ step(w, a, AfterPassword, AfterPassword)
  /\ IF a \in Failures(FALSE) THEN UNCHANGED password ELSE password' \in {login[w].got, password}
  /\ UNCHANGED <<kind, current, legacy, sure>>

KbdAnswered(w, r) ==
  /\ At(w) = "kbd" /\ ~login[w].lost
  /\ To(w, [login[w] EXCEPT !.at = "kbd reply", !.reply = r])
  /\ UNCHANGED <<kind, keychain, sure>>

\* The answers are sent.
Responds(w) == To(w, [login[w] EXCEPT !.at = "kbd", !.rounds = @ + 1, !.reply = "none"])

\* Mutant: a round without questions is not counted.
KbdReplyAsked(w) ==
  LET r == login[w].reply
  IN /\ At(w) = "kbd reply"
     /\ \/ r = "Success" /\ To(w, Ended(login[w], "done"))
        \/ r = "Failure" /\ To(w, Ended(login[w], "Auth"))
        \/ r = "InfoRequest" /\ login[w].rounds < MaxRounds /\ Goes(w, "kbd reply", "kbd prompt")
        \/ r = "InfoRequest" /\ To(w, [login[w] EXCEPT !.at = "kbd", !.reply = "none"])
     /\ UNCHANGED <<kind, keychain, sure>>

\* Questions are put to the user; a round without any is answered at once.
KbdReply(w) ==
  LET r == login[w].reply
      more == r = "InfoRequest" /\ login[w].rounds < MaxRounds
  IN /\ At(w) = "kbd reply"
     /\ \/ r = "Success" /\ To(w, Ended(login[w], "done"))
        \/ r # "Success" /\ ~more /\ To(w, Ended(login[w], "Auth"))
        \/ more /\ Goes(w, "kbd reply", "kbd prompt")
        \/ more /\ Responds(w)
     /\ UNCHANGED <<kind, keychain, sure>>

KbdPrompt(w) ==
  /\ At(w) = "kbd prompt"
  /\ Responds(w) \/ To(w, Ended(login[w], "Auth"))
  /\ UNCHANGED <<kind, keychain, sure>>

-----------------------------------------------------------------------------
\* The keychain holds what an earlier login, or an earlier version, left:
\* nothing, the right secret, or one that has been changed since.  An old
\* entry that works beside a current one that does not is left out: for that
\* a passphrase would have to be changed and changed back.
Init ==
  /\ login = [w \in Logins |-> Start]
  /\ sure = {}
  /\ kind \in {k \in [FileSet -> FileKind] : \A f \in FileSet : k[f] \in Kinds[f]}
  /\ current \in [FileSet -> Value]
  /\ legacy \in {l \in [FileSet -> Value] :
                   \A f \in FileSet : /\ kind[f].respelled \/ l[f] = "none"
                                      /\ ~(current[f] = "bad" /\ l[f] = "good")}
  /\ password \in Value

\* What a login does by itself.
Runs(w) ==
  \/ TryFile(w) \/ LoadKey(w) \/ Migrate(w) \/ ReadLegacy(w) \/ SaveCurrent(w)
  \/ ClearLegacy(w) \/ ReadCurrent(w) \/ ClearStale(w) \/ FilesEnd(w) \/ TryAgent(w)
  \/ AgentEnd(w) \/ GetPassword(w) \/ KbdReply(w)

Answered(w) ==
  \/ \E a \in Answers(TRUE) :
       \/ NoneAnswered(w, a) \/ OfferRefused(w, a) \/ SignatureJudged(w, a)
       \/ AgentKeyJudged(w, a) \/ StoredPasswordJudged(w, a) \/ TypedPasswordJudged(w, a)
  \/ \E r \in {"Success", "Failure", "InfoRequest"} : KbdAnswered(w, r)
  \/ PkOk(w) \/ AgentFails(w) \/ Lost(w)

Typed(w) == PassphraseTyped(w) \/ TypePassword(w) \/ KbdPrompt(w)

Next == \E w \in Logins : Runs(w) \/ Answered(w) \/ Typed(w)

Spec == Init /\ [][Next]_vars

\* Nothing is assumed of the server and the user; a call on a connection that
\* is known to be gone fails at once.
FairSpec == Spec /\ \A w \in Logins : WF_vars(Runs(w) \/ (login[w].lost /\ Lost(w)))

-----------------------------------------------------------------------------
(* Properties.                                                             *)

Stored(f) == current[f] = "good" \/ legacy[f] = "good"

\* However many logins migrate it at once and whichever call on the keychain
\* fails, a passphrase that works is not lost (migrate_passphrase); except
\* that load_key deletes a stale entry without looking whether another login
\* has replaced it meanwhile.
KeepsPassphrase ==
  [][\A f \in FileSet :
       Stored(f) /\ ~Stored(f)' => \E w \in Logins : At(w) = "stale" /\ At(w)' # "stale"]_vars

\* The user is not asked for a passphrase that was to be found in the
\* keychain all the while, whoever moves it meanwhile (load_key).
NotAskedInVain == \A w \in sure : At(w) # "passphrase"

\* The agent offers no key that a key file has already offered, and leaves
\* none out that no file could sign with (tried, FileSigner::declined).
AgentOffersRest ==
  \A w \in Logins :
    /\ At(w) = "agent offer" => agent_key(w) \notin login[w].had
    /\ At(w) = "agent" /\ login[w].next > Len(AgentKeys) => AgentSet \subseteq login[w].had

\* A login ends, unless the server or the user leaves it waiting: a server
\* that keeps asking does not keep it (MAX_KBD_ROUNDS).
LoginEnds ==
  \A w \in Logins :
    <>(At(w) \in Over) \/ \E p \in Server \cup User : <>[](At(w) = p)
=============================================================================
