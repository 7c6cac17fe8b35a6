------------------------------- MODULE Monitor -------------------------------
(***************************************************************************)
(* The monitor of all hosts (crates/mai-core/src/monitor.rs), as far as    *)
(* agents are concerned: it applies the messages of every host's probe to  *)
(* the tracker and tells the UI what changed.  Messages arrive in any      *)
(* order the hosts produce them, with any timestamps; hook events may be   *)
(* replayed.                                                               *)
(***************************************************************************)
EXTENDS Tracker

CONSTANTS
  Hosts, Sessions, Panes,
  MaxTime,        \* bound: timestamps
  MaxOff          \* bound: places in the spool

ASSUME MonitorAssumption == MaxTime \in Nat /\ MaxOff \in Nat

VARIABLES
  agents,   \* Tracker::agents: key -> record, None where the map has no entry
  shown,    \* the last Update::Agent: [state, acknowledged]
  alerted,  \* when Update::Alert was last sent, for each state
  hooked    \* the time of the newest hook event the host's probe sent

vars == <<agents, shown, alerted, hooked>>

\* (host_id, session, pane_id)
AgentKey == [host : Hosts, session : Sessions, pane : Panes]
Times == 0 .. MaxTime
Offsets == 1 .. MaxOff

\* Records, what the UI was told and the alerts sent have their types; in
\* particular only NeedsInput and Done are remembered as alerts (apply).
TypeOK ==
  /\ agents \in [AgentKey -> AgentRecord \cup {None}]
  /\ shown \in [AgentKey -> [state : AgentState, acknowledged : BOOLEAN] \cup {None}]
  /\ alerted \in [AgentKey -> [Alerting -> Nat \cup {None}]]
  /\ hooked \in [AgentKey -> Nat \cup {None}]

Summary(rec) == [state |-> rec.state, acknowledged |-> rec.acknowledged]

Known(k, ts) == IF agents[k] = None THEN NewRecord(ts) ELSE agents[k]

\* Mutant: the UI is told of new states only.
ToldStates(new) ==
  [k \in AgentKey |->
     IF new[k] # None /\ (agents[k] = None \/ new[k].state # agents[k].state)
       THEN Summary(new[k]) ELSE shown[k]]

\* The UI is told of a record that is new or whose summary changed.
Told(new) ==
  [k \in AgentKey |->
     IF new[k] # None /\ (agents[k] = None \/ Summary(new[k]) # Summary(agents[k]))
       THEN Summary(new[k]) ELSE shown[k]]

\* ProbeMsg::AgentEvent.
Event(k, ev) ==
  LET rec == Known(k, ev.ts) IN
  /\ agents' = [agents EXCEPT ![k] = apply(rec, ev)]
  /\ shown' = Told(agents')
  /\ alerted' = IF Alerts(rec, ev) THEN [alerted EXCEPT ![k][ev.state] = ev.ts] ELSE alerted

\* A hook event; the probe sends a place in the spool with each.
Hook(k, s, ts, off) ==
  LET ev == [source |-> "Hook", state |-> s, ts |-> ts, off |-> off] IN
  /\ Event(k, ev)
  /\ hooked' = IF Stale(Known(k, ts), ev) THEN hooked ELSE [hooked EXCEPT ![k] = ts]

Scrape(k, s, ts) ==
  /\ Event(k, [source |-> "Scrape", state |-> s, ts |-> ts, off |-> None])
  /\ UNCHANGED hooked

\* agents_gone: the agents G that are not known to have exited exit.
AgentsGone(G, ts) ==
  LET gone == {k \in G : agents[k] # None /\ agents[k].state # "Exited"} IN
  /\ agents' = [k \in AgentKey |-> IF k \in gone THEN pane_gone(agents[k], ts) ELSE agents[k]]
  /\ shown' = [k \in AgentKey |-> IF k \in gone THEN Summary(agents'[k]) ELSE shown[k]]
  /\ UNCHANGED <<alerted, hooked>>

\* ProbeMsg::Sessions of host h: `live` are the sessions that have not exited.
SessionList(h, live, ts) ==
  AgentsGone({k \in AgentKey : k.host = h /\ k.session \notin live}, ts)

\* ProbeMsg::Panes of a session: `live` are the panes that have not exited.
PaneList(h, s, live, ts) ==
  AgentsGone({k \in AgentKey : k.host = h /\ k.session = s /\ k.pane \notin live}, ts)

\* The user opens the agent's pane.
Acknowledge(k) ==
  /\ agents[k] # None
  /\ agents' = [agents EXCEPT ![k] = acknowledge(@)]
  /\ shown' = Told(agents')
  /\ UNCHANGED <<alerted, hooked>>

Init ==
  /\ agents = [k \in AgentKey |-> None]
  /\ shown = [k \in AgentKey |-> None]
  /\ alerted = [k \in AgentKey |-> [s \in Alerting |-> None]]
  /\ hooked = [k \in AgentKey |-> None]

Next ==
  \/ \E k \in AgentKey, s \in AgentState, ts \in Times :
       (\E off \in Offsets \cup {None} : Hook(k, s, ts, off)) \/ Scrape(k, s, ts)
  \/ \E h \in Hosts, live \in SUBSET Sessions, ts \in Times : SessionList(h, live, ts)
  \/ \E h \in Hosts, s \in Sessions, live \in SUBSET Panes, ts \in Times :
       PaneList(h, s, live, ts)
  \/ \E k \in AgentKey : Acknowledge(k)

Spec == Init /\ [][Next]_vars

-----------------------------------------------------------------------------
(* Properties.                                                             *)

\* The UI shows what the tracker holds: apply_msg, agents_gone and
\* acknowledge leave out no Update::Agent that would change the picture.
ShownIsTracked ==
  \A k \in AgentKey :
    shown[k] = IF agents[k] = None THEN None ELSE Summary(agents[k])

\* An agent the user has not seen to was alerted about: an Update::Alert for
\* the state it is in was sent when it entered that state, or so shortly
\* before that this one was held back as a repetition.  Silence never lasts.
UnseenWasAlerted ==
  \A k \in AgentKey :
    agents[k] # None /\ ~agents[k].acknowledged =>
      /\ agents[k].state \in Alerting
      /\ alerted[k][agents[k].state] # None
      /\ saturating_sub(agents[k].since, alerted[k][agents[k].state]) < AlertDedupe

\* The user is alerted about the same state of an agent once within the
\* dedupe window, unless an alert about the other state came in between: the
\* tracker remembers the last alert only (apply, last_alert).
AlertsApart ==
  [][\A k \in AgentKey, s \in Alerting :
       /\ alerted[k][s] # None /\ alerted'[k][s] # alerted[k][s]
       /\ saturating_sub(alerted'[k][s], alerted[k][s]) < AlertDedupe
       => agents[k].alert # None /\ agents[k].alert.state # s]_vars

\* What a scrape says counts for nothing while a hook event of the pane is
\* recent, whatever that event said, except that an idle agent works again.
ScrapeAuthority ==
  [][\A k \in AgentKey, s \in AgentState, ts \in Times :
       /\ Scrape(k, s, ts)
       /\ agents'[k] # agents[k]
       /\ hooked[k] # None /\ saturating_sub(ts, hooked[k]) < HookAuthority
       => agents[k].state \in Alerting /\ s = "Working"]_vars

-----------------------------------------------------------------------------
\* The inductive strengthening: last_alert is the newest of the alerts sent,
\* an unacknowledged agent is in the state of that alert, and last_hook_ms is
\* the time of the newest hook event.
Memory ==
  \A k \in AgentKey :
    IF agents[k] = None THEN hooked[k] = None
    ELSE /\ hooked[k] = agents[k].hookTs
         /\ agents[k].alert # None
              => alerted[k][agents[k].alert.state] = agents[k].alert.ts
         /\ ~agents[k].acknowledged
              => /\ agents[k].alert # None
                 /\ agents[k].alert.state = agents[k].state
                 /\ saturating_sub(agents[k].since, agents[k].alert.ts) < AlertDedupe

IInv == TypeOK /\ ShownIsTracked /\ Memory
=============================================================================
