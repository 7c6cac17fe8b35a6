------------------------------- MODULE Tracker -------------------------------
(***************************************************************************)
(* What the app knows of one agent and how an event changes it             *)
(* (crates/mai-core/src/tracker.rs).  Hook events are authoritative, scrape *)
(* events fill in; entering NeedsInput or Done alerts the user.            *)
(*                                                                         *)
(* Timestamps come from the clocks of the hosts and of the app: they are   *)
(* numbers without any order between events.  Names and messages are left  *)
(* out.                                                                    *)
(***************************************************************************)
EXTENDS Naturals

CONSTANTS
  HookAuthority,  \* hook_authority_ms
  AlertDedupe,    \* alert_dedupe_ms
  None            \* Rust's None

ASSUME TrackerAssumption ==
  /\ HookAuthority \in Nat
  /\ AlertDedupe \in Nat \ {0}

AgentState == {"Unknown", "Working", "NeedsInput", "Done", "Exited"}
Alerting == {"NeedsInput", "Done"}

\* An Alert, as far as last_alert keeps it.
Alert == [state : Alerting, ts : Nat]

AgentRecord ==
  [state : AgentState, acknowledged : BOOLEAN, since : Nat,
   hookTs : Nat \cup {None}, hookOff : Nat \cup {None},
   alert : Alert \cup {None}]

ASSUME NoneAssumption == None \notin Nat /\ None \notin Alert /\ None \notin AgentRecord

AgentEvent ==
  [source : {"Hook", "Scrape"}, state : AgentState, ts : Nat, off : Nat \cup {None}]

saturating_sub(a, b) == IF a > b THEN a - b ELSE 0

NewRecord(ts) ==
  [state |-> "Unknown", acknowledged |-> TRUE, since |-> ts,
   hookTs |-> None, hookOff |-> None, alert |-> None]

scrape_may_override(from, to) == from \in Alerting /\ to = "Working"

\* A hook event that came before: by its place in the spool, or by its time
\* if it has none.
Stale(rec, ev) ==
  /\ ev.source = "Hook"
  /\ IF ev.off # None THEN rec.hookOff # None /\ ev.off <= rec.hookOff
                      ELSE rec.hookTs # None /\ ev.ts < rec.hookTs

\* A scrape event that a recent hook event overrules.
Overruled(rec, ev) ==
  /\ ev.source = "Scrape"
  /\ rec.hookTs # None /\ saturating_sub(ev.ts, rec.hookTs) < HookAuthority
  /\ ~scrape_may_override(rec.state, ev.state)

\* Mutant: a hook event that confirms the state is not remembered.
NotedLate(rec, ev) ==
  IF ev.source = "Scrape" \/ rec.state = ev.state THEN rec
  ELSE [rec EXCEPT !.hookTs = ev.ts, !.hookOff = IF ev.off = None THEN @ ELSE ev.off]

\* What is remembered of a hook event, whatever it says.
Noted(rec, ev) ==
  IF ev.source = "Scrape" THEN rec
  ELSE [rec EXCEPT !.hookTs = ev.ts, !.hookOff = IF ev.off = None THEN @ ELSE ev.off]

\* The same alert was raised less than alert_dedupe_ms before.
Repeats(rec, ev) ==
  /\ rec.alert # None
  /\ rec.alert.state = ev.state
  /\ saturating_sub(ev.ts, rec.alert.ts) < AlertDedupe

\* Mutant: a silent repetition starts the dedupe window again.
EnteredSliding(rec, ev) ==
  [rec EXCEPT !.state = ev.state, !.since = ev.ts,
              !.acknowledged = ev.state \notin Alerting,
              !.alert = IF ev.state \in Alerting THEN [state |-> ev.state, ts |-> ev.ts] ELSE @]

\* Mutant: last_alert is forgotten when the agent goes back to work.
EnteredForgets(rec, ev) ==
  [rec EXCEPT !.state = ev.state, !.since = ev.ts,
              !.acknowledged = ev.state \notin Alerting,
              !.alert = CASE ev.state \notin Alerting -> None
                          [] Repeats(rec, ev)         -> @
                          [] OTHER                    -> [state |-> ev.state, ts |-> ev.ts]]

\* The agent enters another state.
Entered(rec, ev) ==
  [rec EXCEPT !.state = ev.state, !.since = ev.ts,
              !.acknowledged = ev.state \notin Alerting,
              !.alert = IF ev.state \in Alerting /\ ~Repeats(rec, ev)
                          THEN [state |-> ev.state, ts |-> ev.ts] ELSE @]

Ignored(rec, ev) == Stale(rec, ev) \/ Overruled(rec, ev)

\* Tracker::apply, for the agent's record.
apply(rec, ev) ==
  IF Ignored(rec, ev) THEN rec
  ELSE IF rec.state = ev.state THEN Noted(rec, ev)
  ELSE Entered(Noted(rec, ev), ev)

\* Tracker::apply returns an alert.
Alerts(rec, ev) ==
  ~Ignored(rec, ev) /\ rec.state # ev.state /\ ev.state \in Alerting /\ ~Repeats(rec, ev)

pane_gone(rec, ts) ==
  [rec EXCEPT !.state = "Exited", !.since = ts, !.acknowledged = TRUE]

acknowledge(rec) == [rec EXCEPT !.acknowledged = TRUE]
=============================================================================
