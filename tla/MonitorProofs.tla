---------------------------- MODULE MonitorProofs ----------------------------
(***************************************************************************)
(* Proofs about the tracker and the monitor, for any number of hosts,      *)
(* sessions and panes, any timestamps and any windows; and about how serve *)
(* watches a pane (Watch), for any screens, rules and hook events: once    *)
(* the app knows that an agent ended and only its title or last screen is  *)
(* left, its record stays Exited, and so does that of a pane that ended.   *)
(* That end is the pane's last hook event.  If serve has read it, serve    *)
(* holds the pane, and every scrape still on its way comes before the end; *)
(* if not, the app cannot know it.                                         *)
(***************************************************************************)
EXTENDS Monitor, Watch, WellFoundedInduction, TLAPS

-----------------------------------------------------------------------------
(* The tracker's operators.                                                *)

\* What is noted of an event concerns hooks only.
LEMMA NotedFields ==
  ASSUME NEW rec \in AgentRecord, NEW ev \in AgentEvent
  PROVE  /\ Noted(rec, ev) \in AgentRecord
         /\ Noted(rec, ev).state = rec.state /\ Noted(rec, ev).since = rec.since
         /\ Noted(rec, ev).acknowledged = rec.acknowledged
         /\ Noted(rec, ev).alert = rec.alert
         /\ Noted(rec, ev).hookTs = IF ev.source = "Hook" THEN ev.ts ELSE rec.hookTs
  BY DEF Noted, AgentRecord, AgentEvent

\* Entering a state sets the record's state, time and alert.
LEMMA EnteredFields ==
  ASSUME NEW rec \in AgentRecord, NEW ev \in AgentEvent
  PROVE  /\ Entered(rec, ev) \in AgentRecord
         /\ Entered(rec, ev).state = ev.state /\ Entered(rec, ev).since = ev.ts
         /\ Entered(rec, ev).acknowledged = (ev.state \notin Alerting)
         /\ Entered(rec, ev).hookTs = rec.hookTs
         /\ Entered(rec, ev).alert = IF ev.state \in Alerting /\ ~Repeats(rec, ev)
                                       THEN [state |-> ev.state, ts |-> ev.ts] ELSE rec.alert
  <1>1. ev.state \in Alerting => [state |-> ev.state, ts |-> ev.ts] \in Alert
    BY DEF Alert, AgentEvent
  <1> QED
    BY <1>1 DEF Entered, AgentRecord, AgentEvent

\* What apply does to a record.
LEMMA ApplyFields ==
  ASSUME NEW rec \in AgentRecord, NEW ev \in AgentEvent
  PROVE  /\ apply(rec, ev) \in AgentRecord
         /\ apply(rec, ev).hookTs = IF ev.source = "Hook" /\ ~Stale(rec, ev) THEN ev.ts
                                                                            ELSE rec.hookTs
         /\ apply(rec, ev).alert = IF Alerts(rec, ev) THEN [state |-> ev.state, ts |-> ev.ts]
                                                      ELSE rec.alert
         /\ \/ /\ apply(rec, ev).state = rec.state /\ apply(rec, ev).since = rec.since
               /\ apply(rec, ev).acknowledged = rec.acknowledged
               /\ ~Alerts(rec, ev)
            \/ /\ apply(rec, ev).state = ev.state /\ apply(rec, ev).since = ev.ts
               /\ apply(rec, ev).acknowledged = (ev.state \notin Alerting)
               /\ ev.state \in Alerting => Alerts(rec, ev) \/ Repeats(rec, ev)
  <1>1. CASE Ignored(rec, ev)
    <2>1. ~(ev.source = "Hook" /\ ~Stale(rec, ev))
      BY <1>1 DEF Ignored, Overruled
    <2> QED
      BY <1>1, <2>1 DEF apply, Alerts
  <1>2. CASE ~Ignored(rec, ev) /\ rec.state = ev.state
    <2>1. ~Stale(rec, ev) /\ ~Alerts(rec, ev)
      BY <1>2 DEF Ignored, Alerts
    <2>2. apply(rec, ev) = Noted(rec, ev)
      BY <1>2 DEF apply
    <2> QED
      BY <2>1, <2>2, NotedFields
  <1>3. CASE ~Ignored(rec, ev) /\ rec.state # ev.state
    <2> DEFINE mid == Noted(rec, ev)
    <2>1. ~Stale(rec, ev) /\ apply(rec, ev) = Entered(mid, ev)
      BY <1>3 DEF Ignored, apply
    <2>2. Repeats(mid, ev) <=> Repeats(rec, ev)
      BY NotedFields DEF Repeats
    <2>3. Alerts(rec, ev) <=> ev.state \in Alerting /\ ~Repeats(rec, ev)
      BY <1>3 DEF Alerts
    <2>4. mid \in AgentRecord /\ mid.alert = rec.alert
          /\ mid.hookTs = IF ev.source = "Hook" THEN ev.ts ELSE rec.hookTs
      BY NotedFields
    <2> HIDE DEF mid
    <2> QED
      BY <2>1, <2>2, <2>3, <2>4, EnteredFields
  <1> QED
    BY <1>1, <1>2, <1>3

-----------------------------------------------------------------------------
(* The invariant.                                                          *)

\* At first no agent is known.
LEMMA InitInv == Init => IInv
  BY DEF Init, IInv, TypeOK, ShownIsTracked, Memory

\* A message that replaces records by records is told to the UI.
LEMMA ToldShows ==
  ASSUME ShownIsTracked, shown' = Told(agents'),
         \A k \in AgentKey : agents'[k] = None => agents[k] = None
  PROVE  ShownIsTracked'
  BY DEF ShownIsTracked, Told, Summary

\* The summary of a record is what the UI may be shown.
LEMMA SummaryType ==
  \A rec \in AgentRecord : Summary(rec) \in [state : AgentState, acknowledged : BOOLEAN]
  BY DEF Summary, AgentRecord

\* What the UI is told is well-typed.
LEMMA ToldType ==
  ASSUME TypeOK, agents' \in [AgentKey -> AgentRecord \cup {None}], shown' = Told(agents')
  PROVE  shown' \in [AgentKey -> [state : AgentState, acknowledged : BOOLEAN] \cup {None}]
  <1>1. \A k \in AgentKey : agents'[k] # None => agents'[k] \in AgentRecord
    OBVIOUS
  <1> QED
    BY <1>1, SummaryType DEF Told, TypeOK

\* An event of either source preserves the invariant.
LEMMA EventInv ==
  ASSUME IInv, NEW k \in AgentKey, NEW ev \in AgentEvent, Event(k, ev),
         hooked' = IF ev.source = "Hook" /\ ~Stale(Known(k, ev.ts), ev)
                     THEN [hooked EXCEPT ![k] = ev.ts] ELSE hooked
  PROVE  IInv'
  <1> USE DEF IInv
  <1> DEFINE rec == Known(k, ev.ts)
             new == apply(rec, ev)
  <1>1. /\ agents' = [agents EXCEPT ![k] = new]
        /\ shown' = Told(agents')
        /\ alerted' = IF Alerts(rec, ev) THEN [alerted EXCEPT ![k][ev.state] = ev.ts]
                                         ELSE alerted
    BY Zenon DEF Event
  <1>2. rec \in AgentRecord
    BY NoneAssumption DEF Known, NewRecord, AgentRecord, AgentState, TypeOK, AgentEvent
  <1>3. /\ hooked[k] = rec.hookTs
        /\ rec.alert # None => alerted[k][rec.alert.state] = rec.alert.ts
        /\ ~rec.acknowledged
             => /\ rec.alert # None
                /\ rec.alert.state = rec.state
                /\ saturating_sub(rec.since, rec.alert.ts) < AlertDedupe
    BY DEF Memory, Known, NewRecord
  <1>4. ev.state \in AgentState /\ ev.ts \in Nat /\ ev.source \in {"Hook", "Scrape"}
    BY DEF AgentEvent
  <1> HIDE DEF rec
  <1>5. /\ new \in AgentRecord /\ new # None
        /\ new.hookTs = IF ev.source = "Hook" /\ ~Stale(rec, ev) THEN ev.ts ELSE rec.hookTs
        /\ new.alert = IF Alerts(rec, ev) THEN [state |-> ev.state, ts |-> ev.ts] ELSE rec.alert
        /\ \/ /\ new.state = rec.state /\ new.since = rec.since
              /\ new.acknowledged = rec.acknowledged
              /\ ~Alerts(rec, ev)
           \/ /\ new.state = ev.state /\ new.since = ev.ts
              /\ new.acknowledged = (ev.state \notin Alerting)
              /\ ev.state \in Alerting => Alerts(rec, ev) \/ Repeats(rec, ev)
    BY <1>2, ApplyFields, NoneAssumption
  <1> HIDE DEF new
  <1>6. Alerts(rec, ev) => ev.state \in Alerting
    BY DEF Alerts
  <1>7. hooked' = IF ev.source = "Hook" /\ ~Stale(rec, ev)
                    THEN [hooked EXCEPT ![k] = ev.ts] ELSE hooked
    BY DEF rec
  <1>8. TypeOK'
    <2>1. agents' \in [AgentKey -> AgentRecord \cup {None}]
      BY <1>1, <1>5 DEF TypeOK
    <2>2. alerted' \in [AgentKey -> [Alerting -> Nat \cup {None}]]
      BY <1>1, <1>4, <1>6 DEF TypeOK
    <2>3. hooked' \in [AgentKey -> Nat \cup {None}]
      BY <1>4, <1>7 DEF TypeOK
    <2> QED
      BY <1>1, <2>1, <2>2, <2>3, ToldType DEF TypeOK
  <1>9. ShownIsTracked'
    BY <1>1, <1>5, ToldShows DEF TypeOK
  <1>10. ASSUME NEW j \in AgentKey, j # k
         PROVE  /\ agents'[j] = agents[j] /\ alerted'[j] = alerted[j]
                /\ hooked'[j] = hooked[j]
    BY <1>1, <1>7, <1>10 DEF TypeOK
  <1>11. agents'[k] = new /\ hooked'[k] = new.hookTs
    BY <1>1, <1>3, <1>5, <1>7 DEF TypeOK
  <1>12. new.alert # None => alerted'[k][new.alert.state] = new.alert.ts
    <2>1. CASE Alerts(rec, ev)
      BY <1>1, <1>5, <1>6, <2>1 DEF TypeOK
    <2>2. CASE ~Alerts(rec, ev)
      BY <1>1, <1>3, <1>5, <2>2
    <2> QED
      BY <2>1, <2>2
  <1>13. ASSUME ~new.acknowledged
         PROVE  /\ new.alert # None
                /\ new.alert.state = new.state
                /\ saturating_sub(new.since, new.alert.ts) < AlertDedupe
    <2>1. CASE new.state = rec.state /\ new.since = rec.since
               /\ new.acknowledged = rec.acknowledged /\ ~Alerts(rec, ev)
      BY <1>3, <1>5, <1>13, <2>1
    <2>2. CASE Alerts(rec, ev)
      <3>1. new.state = ev.state /\ new.since = ev.ts
            /\ new.alert = [state |-> ev.state, ts |-> ev.ts]
        BY <1>5, <2>2
      <3>2. new.alert # None
        BY <1>4, <1>6, <2>2, <3>1, NoneAssumption DEF Alert
      <3> QED
        BY <1>4, <3>1, <3>2, TrackerAssumption DEF saturating_sub
    <2>3. CASE /\ ~Alerts(rec, ev) /\ Repeats(rec, ev)
               /\ new.state = ev.state /\ new.since = ev.ts
      BY <1>5, <2>3 DEF Repeats
    <2> QED
      BY <1>5, <1>13, <2>1, <2>2, <2>3
  <1>14. Memory'
    BY <1>5, <1>10, <1>11, <1>12, <1>13 DEF Memory
  <1> QED
    BY <1>8, <1>9, <1>14

\* A list of sessions or panes preserves the invariant.
LEMMA GoneInv ==
  ASSUME IInv, NEW G, NEW ts \in Nat, AgentsGone(G, ts)
  PROVE  IInv'
  <1> USE DEF IInv
  <1> DEFINE gone == {k \in G : agents[k] # None /\ agents[k].state # "Exited"}
  <1>1. /\ agents' = [k \in AgentKey |-> IF k \in gone THEN pane_gone(agents[k], ts)
                                                      ELSE agents[k]]
        /\ shown' = [k \in AgentKey |-> IF k \in gone THEN Summary(agents'[k]) ELSE shown[k]]
        /\ alerted' = alerted /\ hooked' = hooked
    BY DEF AgentsGone
  <1>2. ASSUME NEW k \in AgentKey, agents[k] # None
        PROVE  /\ agents[k] \in AgentRecord
               /\ pane_gone(agents[k], ts) \in AgentRecord
               /\ pane_gone(agents[k], ts).acknowledged
               /\ pane_gone(agents[k], ts).hookTs = agents[k].hookTs
               /\ pane_gone(agents[k], ts).alert = agents[k].alert
    <2>1. agents[k] \in AgentRecord
      BY <1>2 DEF TypeOK
    <2> QED
      BY <2>1 DEF pane_gone, AgentRecord, AgentState
  <1>3. \A k \in gone : agents[k] # None
    OBVIOUS
  <1> HIDE DEF gone
  <1>4. TypeOK'
    <2>1. agents' \in [AgentKey -> AgentRecord \cup {None}]
      BY <1>1, <1>2, <1>3 DEF TypeOK
    <2>2. \A k \in AgentKey : k \in gone => agents'[k] \in AgentRecord
      BY <1>1, <1>2, <1>3
    <2>3. shown' \in [AgentKey -> [state : AgentState, acknowledged : BOOLEAN] \cup {None}]
      BY <1>1, <2>2, SummaryType DEF TypeOK
    <2> QED
      BY <1>1, <2>1, <2>3 DEF TypeOK
  <1>5. \A k \in AgentKey : agents'[k] = None <=> agents[k] = None
    BY <1>1, <1>2, <1>3, NoneAssumption
  <1>6. ShownIsTracked'
    BY <1>1, <1>3, <1>5 DEF ShownIsTracked
  <1>7. Memory'
    BY <1>1, <1>2, <1>3, <1>5 DEF Memory
  <1> QED
    BY <1>4, <1>6, <1>7

\* An acknowledged agent owes the user no alert.
LEMMA AcknowledgeInv == ASSUME IInv, NEW k \in AgentKey, Acknowledge(k) PROVE IInv'
  <1> USE DEF IInv
  <1>1. agents[k] \in AgentRecord /\ agents[k] # None
    BY DEF Acknowledge, TypeOK
  <1>2. /\ acknowledge(agents[k]) \in AgentRecord /\ acknowledge(agents[k]).acknowledged
        /\ acknowledge(agents[k]).hookTs = agents[k].hookTs
        /\ acknowledge(agents[k]).alert = agents[k].alert
    BY <1>1 DEF acknowledge, AgentRecord
  <1>3. /\ agents' = [agents EXCEPT ![k] = acknowledge(agents[k])]
        /\ shown' = Told(agents') /\ alerted' = alerted /\ hooked' = hooked
    BY DEF Acknowledge
  <1>4. TypeOK'
    <2>1. agents' \in [AgentKey -> AgentRecord \cup {None}]
      BY <1>2, <1>3 DEF TypeOK
    <2> QED
      BY <1>3, <2>1, ToldType DEF TypeOK
  <1>5. \A j \in AgentKey : agents'[j] = None <=> agents[j] = None
    BY <1>1, <1>2, <1>3, NoneAssumption DEF TypeOK
  <1>6. ShownIsTracked'
    BY <1>3, <1>5, ToldShows
  <1>7. Memory'
    BY <1>1, <1>2, <1>3, <1>5 DEF Memory, TypeOK
  <1> QED
    BY <1>4, <1>6, <1>7

\* Every input is an event of the kind EventInv is about.
LEMMA Inputs ==
  ASSUME NEW s \in AgentState, NEW ts \in Times
  PROVE  /\ ts \in Nat
         /\ \A off \in Offsets \cup {None} :
              [source |-> "Hook", state |-> s, ts |-> ts, off |-> off] \in AgentEvent
         /\ [source |-> "Scrape", state |-> s, ts |-> ts, off |-> None] \in AgentEvent
  BY MonitorAssumption DEF Times, Offsets, AgentEvent

\* The invariant is inductive.
LEMMA NextInv == IInv /\ [Next]_vars => IInv'
  <1> SUFFICES ASSUME IInv, [Next]_vars PROVE IInv'
    OBVIOUS
  <1>1. ASSUME NEW k \in AgentKey, NEW s \in AgentState, NEW ts \in Times,
               NEW off \in Offsets \cup {None}, Hook(k, s, ts, off)
        PROVE  IInv'
    <2> DEFINE ev == [source |-> "Hook", state |-> s, ts |-> ts, off |-> off]
    <2>1. ev \in AgentEvent /\ ev.source = "Hook" /\ ev.ts = ts
      BY Inputs
    <2>2. Event(k, ev) /\ hooked' = IF Stale(Known(k, ts), ev) THEN hooked
                                                            ELSE [hooked EXCEPT ![k] = ts]
      BY <1>1 DEF Hook
    <2> HIDE DEF ev
    <2>3. hooked' = IF ev.source = "Hook" /\ ~Stale(Known(k, ev.ts), ev)
                      THEN [hooked EXCEPT ![k] = ev.ts] ELSE hooked
      BY <2>1, <2>2
    <2> QED
      BY <2>1, <2>2, <2>3, EventInv
  <1>2. ASSUME NEW k \in AgentKey, NEW s \in AgentState, NEW ts \in Times, Scrape(k, s, ts)
        PROVE  IInv'
    <2> DEFINE ev == [source |-> "Scrape", state |-> s, ts |-> ts, off |-> None]
    <2>1. ev \in AgentEvent /\ ev.source # "Hook"
      BY Inputs
    <2>2. Event(k, ev) /\ hooked' = hooked
      BY <1>2 DEF Scrape
    <2> HIDE DEF ev
    <2> QED
      BY <2>1, <2>2, EventInv
  <1>3. ASSUME NEW h \in Hosts, NEW live, NEW ts \in Times, SessionList(h, live, ts)
        PROVE  IInv'
    BY <1>3, GoneInv, MonitorAssumption DEF SessionList, Times
  <1>4. ASSUME NEW h \in Hosts, NEW s \in Sessions, NEW live, NEW ts \in Times,
               PaneList(h, s, live, ts)
        PROVE  IInv'
    BY <1>4, GoneInv, MonitorAssumption DEF PaneList, Times
  <1>5. ASSUME UNCHANGED vars PROVE IInv'
    BY <1>5 DEF vars, IInv, TypeOK, ShownIsTracked, Memory
  <1> QED
    BY <1>1, <1>2, <1>3, <1>4, <1>5, AcknowledgeInv DEF Next

\* The inductive invariant of the monitor: the UI shows what the tracker holds,
\* and the tracker's last_alert and last_hook_ms are what was last sent and
\* received.
THEOREM Invariance == Spec => []IInv
  BY InitInv, NextInv, PTL DEF Spec

\* Every state of the monitor is well typed.
THEOREM TypeCorrect == Spec => []TypeOK
  <1>1. IInv => TypeOK
    BY DEF IInv
  <1> QED
    BY <1>1, Invariance, PTL

\* The UI shows what the tracker holds, for any number of hosts and agents.
THEOREM ShownCorrect == Spec => []ShownIsTracked
  <1>1. IInv => ShownIsTracked
    BY DEF IInv
  <1> QED
    BY <1>1, Invariance, PTL

\* No agent waits for the user without an alert, whatever the timestamps are.
THEOREM NoSilentWait == Spec => []UnseenWasAlerted
  <1>1. IInv => UnseenWasAlerted
    <2> SUFFICES ASSUME IInv, NEW k \in AgentKey, agents[k] # None, ~agents[k].acknowledged
                 PROVE  /\ agents[k].state \in Alerting
                        /\ alerted[k][agents[k].state] # None
                        /\ saturating_sub(agents[k].since, alerted[k][agents[k].state])
                             < AlertDedupe
      BY DEF UnseenWasAlerted
    <2>1. agents[k] \in AgentRecord
      BY DEF IInv, TypeOK
    <2>2. /\ agents[k].alert # None /\ agents[k].alert.state = agents[k].state
          /\ alerted[k][agents[k].alert.state] = agents[k].alert.ts
          /\ saturating_sub(agents[k].since, agents[k].alert.ts) < AlertDedupe
      BY DEF IInv, Memory
    <2>3. agents[k].alert.state \in Alerting /\ agents[k].alert.ts \in Nat
      BY <2>1, <2>2 DEF AgentRecord, Alert
    <2> QED
      BY <2>2, <2>3, NoneAssumption
  <1> QED
    BY <1>1, Invariance, PTL

\* A scrape changes nothing within hook_authority_ms of the newest hook event,
\* except that an agent that waits for the user works again.
THEOREM ScrapeYields == Spec => ScrapeAuthority
  <1>1. ASSUME IInv, NEW k \in AgentKey, NEW s \in AgentState, NEW ts \in Times,
               Scrape(k, s, ts), agents'[k] # agents[k],
               hooked[k] # None, saturating_sub(ts, hooked[k]) < HookAuthority
        PROVE  agents[k].state \in Alerting /\ s = "Working"
    <2> DEFINE ev == [source |-> "Scrape", state |-> s, ts |-> ts, off |-> None]
    <2>1. agents[k] # None /\ hooked[k] = agents[k].hookTs
      BY <1>1 DEF IInv, Memory
    <2>2. Known(k, ts) = agents[k] /\ agents'[k] = apply(agents[k], ev)
      BY <1>1, <2>1 DEF Scrape, Event, Known, IInv, TypeOK
    <2>3. ~Overruled(agents[k], ev)
      BY <1>1, <2>2 DEF apply, Ignored
    <2> QED
      BY <1>1, <2>1, <2>3 DEF Overruled, scrape_may_override
  <1>2. IInv => (\A k \in AgentKey, s \in AgentState, ts \in Times :
                   /\ Scrape(k, s, ts)
                   /\ agents'[k] # agents[k]
                   /\ hooked[k] # None /\ saturating_sub(ts, hooked[k]) < HookAuthority
                   => agents[k].state \in Alerting /\ s = "Working")
    BY <1>1
  <1> QED
    BY <1>2, Invariance, PTL DEF ScrapeAuthority

-----------------------------------------------------------------------------
(* Alerts.                                                                 *)

\* Where last_alert is empty no alert was ever sent: neither an agent that
\* exits nor one that goes back to work makes the tracker forget.
NeverAlerted ==
  \A k \in AgentKey :
    agents[k] = None \/ agents[k].alert = None => \A s \in Alerting : alerted[k][s] = None

\* A step that alerts again about a state within the window follows an alert
\* about the other one.
Apart ==
  \A k \in AgentKey, s \in Alerting :
    /\ alerted[k][s] # None /\ alerted'[k][s] # alerted[k][s]
    /\ saturating_sub(alerted'[k][s], alerted[k][s]) < AlertDedupe
    => agents[k].alert # None /\ agents[k].alert.state # s

\* An event alerts if it does not repeat the last alert.
LEMMA EventAlerts ==
  ASSUME IInv, NeverAlerted, NEW k \in AgentKey, NEW ev \in AgentEvent, Event(k, ev)
  PROVE  NeverAlerted' /\ Apart
  <1> DEFINE rec == Known(k, ev.ts)
             new == apply(rec, ev)
  <1>1. /\ agents' = [agents EXCEPT ![k] = new]
        /\ alerted' = IF Alerts(rec, ev) THEN [alerted EXCEPT ![k][ev.state] = ev.ts]
                                         ELSE alerted
    BY Zenon DEF Event
  <1>2. rec \in AgentRecord
    BY NoneAssumption DEF Known, NewRecord, AgentRecord, AgentState, IInv, TypeOK, AgentEvent
  <1>3. /\ rec.alert = None => \A s \in Alerting : alerted[k][s] = None
        /\ rec.alert # None => agents[k] # None /\ rec = agents[k]
                               /\ alerted[k][rec.alert.state] = rec.alert.ts
    BY DEF NeverAlerted, IInv, Memory, Known, NewRecord
  <1> HIDE DEF rec
  <1>4. /\ new \in AgentRecord /\ new # None
        /\ new.alert = IF Alerts(rec, ev) THEN [state |-> ev.state, ts |-> ev.ts] ELSE rec.alert
    BY <1>2, ApplyFields, NoneAssumption
  <1>5. Alerts(rec, ev) => /\ [state |-> ev.state, ts |-> ev.ts] # None
                           /\ ev.state \in Alerting /\ ~Repeats(rec, ev)
    BY NoneAssumption DEF Alerts, Alert, AgentEvent
  <1> HIDE DEF new
  <1>6. ASSUME NEW j \in AgentKey, j # k
        PROVE  agents'[j] = agents[j] /\ alerted'[j] = alerted[j]
    BY <1>1, <1>6 DEF IInv, TypeOK
  <1>7. agents'[k] = new
    BY <1>1 DEF IInv, TypeOK
  <1>8. NeverAlerted'
    <2>1. new.alert = None => \A s \in Alerting : alerted'[k][s] = None
      BY <1>1, <1>3, <1>4, <1>5
    <2> QED
      BY <1>4, <1>6, <1>7, <2>1 DEF NeverAlerted
  <1>9. ASSUME NEW s \in Alerting, alerted[k][s] # None, alerted'[k][s] # alerted[k][s],
               saturating_sub(alerted'[k][s], alerted[k][s]) < AlertDedupe
        PROVE  agents[k].alert # None /\ agents[k].alert.state # s
    <2>1. Alerts(rec, ev) /\ alerted' = [alerted EXCEPT ![k][ev.state] = ev.ts]
      BY <1>1, <1>9
    <2>2. s = ev.state /\ alerted'[k][s] = ev.ts
      BY <1>5, <1>9, <2>1 DEF IInv, TypeOK
    <2>3. rec.alert # None /\ rec = agents[k] /\ alerted[k][rec.alert.state] = rec.alert.ts
      BY <1>3, <1>9
    <2>4. rec.alert.state # s
      BY <1>5, <1>9, <2>1, <2>2, <2>3 DEF Repeats
    <2> QED
      BY <2>3, <2>4
  <1>10. Apart
    BY <1>6, <1>9 DEF Apart
  <1> QED
    BY <1>8, <1>10

\* A list of sessions or panes alerts nobody and forgets no alert.
LEMMA GoneAlerts ==
  ASSUME IInv, NeverAlerted, NEW G, NEW ts \in Nat, AgentsGone(G, ts)
  PROVE  NeverAlerted' /\ Apart
  <1>1. alerted' = alerted
    BY DEF AgentsGone
  <1>2. ASSUME NEW k \in AgentKey, agents'[k] = None \/ agents'[k].alert = None
        PROVE  agents[k] = None \/ agents[k].alert = None
    <2>1. CASE agents'[k] = agents[k]
      BY <1>2, <2>1
    <2>2. CASE agents'[k] = pane_gone(agents[k], ts) /\ agents[k] # None
      <3>1. agents[k] \in AgentRecord
        BY <2>2 DEF IInv, TypeOK
      <3>2. agents'[k].alert = agents[k].alert
        BY <2>2, <3>1 DEF pane_gone, AgentRecord
      <3>3. agents'[k] \in AgentRecord
        BY <2>2, <3>1 DEF pane_gone, AgentRecord, AgentState
      <3> QED
        BY <1>2, <3>2, <3>3, NoneAssumption
    <2> QED
      BY <2>1, <2>2 DEF AgentsGone
  <1> QED
    BY <1>1, <1>2 DEF NeverAlerted, Apart

\* An acknowledgement alerts nobody and forgets no alert.
LEMMA AcknowledgeAlerts ==
  ASSUME IInv, NeverAlerted, NEW k \in AgentKey, Acknowledge(k)
  PROVE  NeverAlerted' /\ Apart
  <1>1. alerted' = alerted /\ agents' = [agents EXCEPT ![k] = acknowledge(agents[k])]
    BY DEF Acknowledge
  <1>2. agents[k] # None /\ agents[k] \in AgentRecord
    BY DEF Acknowledge, IInv, TypeOK
  <1>3. acknowledge(agents[k]) \in AgentRecord /\ acknowledge(agents[k]).alert = agents[k].alert
    BY <1>2 DEF acknowledge, AgentRecord
  <1> QED
    BY <1>1, <1>2, <1>3, NoneAssumption DEF NeverAlerted, Apart, IInv, TypeOK

\* Every step keeps the alerts apart.
LEMMA NextAlerts == IInv /\ NeverAlerted /\ [Next]_vars => NeverAlerted' /\ Apart
  <1> SUFFICES ASSUME IInv, NeverAlerted, [Next]_vars PROVE NeverAlerted' /\ Apart
    OBVIOUS
  <1>1. ASSUME NEW k \in AgentKey, NEW s \in AgentState, NEW ts \in Times,
               (\E off \in Offsets \cup {None} : Hook(k, s, ts, off)) \/ Scrape(k, s, ts)
        PROVE  NeverAlerted' /\ Apart
    <2>1. \E ev \in AgentEvent : Event(k, ev)
      BY <1>1, Inputs DEF Hook, Scrape
    <2> QED
      BY <2>1, EventAlerts
  <1>2. ASSUME NEW G, NEW ts \in Times, AgentsGone(G, ts) PROVE NeverAlerted' /\ Apart
    BY <1>2, GoneAlerts, MonitorAssumption DEF Times
  <1>3. ASSUME UNCHANGED vars PROVE NeverAlerted' /\ Apart
    BY <1>3 DEF vars, NeverAlerted, Apart
  <1> QED
    BY <1>1, <1>2, <1>3, AcknowledgeAlerts DEF Next, SessionList, PaneList

\* The user is not alerted twice about a state of an agent within
\* alert_dedupe_ms, unless about the other one in between, whatever the
\* clocks of the hosts say (apply, last_alert).
THEOREM AlertsStayApart == Spec => AlertsApart
  <1>1. Init => NeverAlerted
    BY DEF Init, NeverAlerted
  <1>2. Spec => []NeverAlerted
    BY <1>1, NextAlerts, Invariance, PTL DEF Spec
  <1>3. IInv /\ NeverAlerted /\ [Next]_vars => Apart
    BY NextAlerts
  <1>4. Spec => [][Apart]_vars
    BY <1>2, <1>3, Invariance, PTL DEF Spec
  <1> QED
    BY <1>4 DEF AlertsApart, Apart

-----------------------------------------------------------------------------
(* Watch: induction.                                                       *)

\* Induction on the natural numbers, over a set: the library's principle, in
\* the form that takes no operator.
LEMMA SetInduction ==
  ASSUME NEW S, 0 \in S, \A n \in Nat : n \in S => n + 1 \in S
  PROVE  Nat \subseteq S
<1> DEFINE T == Nat \ S
           R == OpToRel(<, Nat)
<1> SUFFICES ASSUME T # {} PROVE FALSE
  OBVIOUS
<1>1. IsWellFoundedOn(R, Nat)
  BY NatLessThanWellFounded, Zenon
<1>2. PICK x \in T : \A y \in T : ~(<<y, x>> \in R)
  <2> HIDE DEF R, T
  <2>1. T \subseteq Nat BY DEF T
  <2> QED BY <1>1, <2>1, WFMin
<1>3. x \in Nat /\ x # 0 /\ x - 1 \in Nat /\ x - 1 < x /\ x - 1 + 1 = x
  OBVIOUS
<1>4. x - 1 \in T
  BY <1>3
<1>5. <<x - 1, x>> \in R
  BY <1>3 DEF OpToRel
<1> QED BY <1>2, <1>4, <1>5, Zenon

-----------------------------------------------------------------------------
(* Watch: what the app makes of a message.                                 *)

\* The last hook event a record has seen, and whether it came before the k-th.
OffOf(r) == IF r = None THEN None ELSE r.hookOff
Before(r, k) == OffOf(r) = None \/ OffOf(r) < k

\* None is no number and no record.
LEMMA NoneApart == None \notin Nat /\ None \notin AgentRecord
BY NoneAssumption

\* A new record has seen no hook event.
LEMMA NewRecordFields ==
  ASSUME NEW ts \in Nat
  PROVE  NewRecord(ts) \in AgentRecord /\ NewRecord(ts).hookOff = None
BY DEF NewRecord, AgentRecord, AgentState

\* What apply does to the place in the spool.
LEMMA OffNoted ==
  ASSUME NEW r \in AgentRecord, NEW ev \in AgentEvent
  PROVE  Noted(r, ev).hookOff = IF ev.source = "Hook" /\ ev.off # None THEN ev.off ELSE r.hookOff
BY DEF Noted, AgentRecord, AgentEvent

\* Entering a state leaves the place in the spool.
LEMMA OffEntered ==
  ASSUME NEW r \in AgentRecord, NEW ev \in AgentEvent
  PROVE  Entered(r, ev).hookOff = r.hookOff
BY DEF Entered, AgentRecord

\* A scrape leaves the place in the spool; a hook event that is not stale sets
\* it, and the state.
LEMMA OffApply ==
  ASSUME NEW r \in AgentRecord, NEW ev \in AgentEvent
  PROVE  /\ ev.source = "Scrape" => apply(r, ev).hookOff = r.hookOff
         /\ ev.source = "Hook" /\ ev.off # None /\ ~Stale(r, ev)
              => apply(r, ev).hookOff = ev.off /\ apply(r, ev).state = ev.state
         /\ ev.off # None => apply(r, ev).hookOff \in {r.hookOff, ev.off}
<1>0. Noted(r, ev) \in AgentRecord /\ Noted(r, ev).state = r.state
  BY NotedFields
<1>1. CASE Ignored(r, ev)
  <2>1. apply(r, ev) = r /\ (ev.source = "Hook" => Stale(r, ev))
    BY <1>1 DEF apply, Ignored, Overruled
  <2> QED BY <2>1
<1>2. CASE ~Ignored(r, ev) /\ r.state = ev.state
  <2>1. apply(r, ev) = Noted(r, ev)
    BY <1>2 DEF apply
  <2> QED BY <1>0, <1>2, <2>1, OffNoted
<1>3. CASE ~Ignored(r, ev) /\ r.state # ev.state
  <2>1. apply(r, ev) = Entered(Noted(r, ev), ev)
    BY <1>3 DEF apply
  <2>2. Entered(Noted(r, ev), ev).state = ev.state
    BY <1>0, EnteredFields
  <2>3. Entered(Noted(r, ev), ev).hookOff = Noted(r, ev).hookOff
    BY <1>0, OffEntered
  <2> QED BY <2>1, <2>2, <2>3, OffNoted
<1> QED BY <1>1, <1>2, <1>3

\* Only a hook event changes which hook event was seen last, and one that is
\* new to the record sets the state; a list of panes sets Exited or nothing.
AppliedFacts(r, m, q) ==
  /\ q \in AgentRecord \cup {None}
  /\ m.source # "Hook" => OffOf(q) = OffOf(r)
  /\ m.source = "Panes" /\ r # None => q.state \in {r.state, "Exited"}
  /\ m.source = "Hook" /\ m.off \in Nat => OffOf(q) \in {OffOf(r), m.off}
  /\ m.source = "Hook" /\ m.off \in Nat /\ Before(r, m.off) => OffOf(q) = m.off /\ q.state = m.state

\* Applied does that.
LEMMA AppliedOK ==
  ASSUME NEW r \in AgentRecord \cup {None}, NEW m \in Message, now \in Nat
  PROVE  AppliedFacts(r, m, Applied(r, m))
<1>1. CASE m.source = "Panes"
  <2>1. CASE m.live \/ r = None \/ r.state = "Exited"
    <3>1. Applied(r, m) = r
      BY <1>1, <2>1 DEF Applied
    <3> QED BY <1>1, <3>1 DEF AppliedFacts
  <2>2. CASE ~(m.live \/ r = None \/ r.state = "Exited")
    <3> DEFINE q == pane_gone(r, now)
    <3>1. Applied(r, m) = q
      BY <1>1, <2>2 DEF Applied
    <3>2. q \in AgentRecord /\ q.state = "Exited" /\ q.hookOff = r.hookOff
      BY <2>2 DEF pane_gone, AgentRecord, AgentState
    <3> HIDE DEF q
    <3> QED BY <1>1, <2>2, <3>1, <3>2, NoneApart DEF AppliedFacts, OffOf
  <2> QED BY <2>1, <2>2
<1>2. CASE m.source # "Panes"
  <2> DEFINE p == IF r = None THEN NewRecord(m.ts) ELSE r
             q == apply(p, m)
  <2>1. m \in AgentEvent
    BY <1>2 DEF Message
  <2>2. p \in AgentRecord /\ p.hookOff = OffOf(r)
    BY <2>1, NewRecordFields DEF OffOf, AgentEvent
  <2>3. Applied(r, m) = q
    BY <1>2 DEF Applied
  <2> HIDE DEF p
  <2>4. q \in AgentRecord /\ q # None
    BY <2>1, <2>2, ApplyFields, NoneApart
  <2>5. ASSUME m.source # "Hook" PROVE OffOf(q) = OffOf(r)
    <3>1. m.source = "Scrape"
      BY <2>1, <2>5 DEF AgentEvent
    <3> QED BY <2>1, <2>2, <2>4, <3>1, OffApply DEF OffOf
  <2>6. ASSUME m.source = "Hook", m.off \in Nat, Before(r, m.off)
        PROVE  OffOf(q) = m.off /\ q.state = m.state
    <3>1. m.off # None /\ p.hookOff \in Nat \cup {None}
      BY <2>2, <2>6, NoneApart DEF AgentRecord
    <3>2. p.hookOff = None \/ p.hookOff < m.off
      BY <2>2, <2>6 DEF Before
    <3>3. ~Stale(p, m)
      BY <2>6, <3>1, <3>2 DEF Stale
    <3>4. q.hookOff = m.off /\ q.state = m.state
      BY <2>1, <2>2, <2>6, <3>1, <3>3, OffApply
    <3> QED BY <2>4, <3>4 DEF OffOf
  <2>7. ASSUME m.source = "Hook", m.off \in Nat PROVE OffOf(q) \in {OffOf(r), m.off}
    BY <2>1, <2>2, <2>4, <2>7, OffApply, NoneApart DEF OffOf
  <2> HIDE DEF q
  <2> QED BY <1>2, <2>3, <2>4, <2>5, <2>6, <2>7 DEF AppliedFacts
<1> QED BY <1>1, <1>2

-----------------------------------------------------------------------------
(* Watch: the messages on their way.                                       *)

\* The hook events in q are events of the spool sp up to the k-th, in order,
\* and new to the record r.
Fed(q, k, r, sp) ==
  \A i \in 1 .. Len(q) : q[i].source = "Hook" =>
    /\ q[i].off \in 1 .. k /\ q[i].state = sp[q[i].off].state
    /\ Before(r, q[i].off)
    /\ \A j \in 1 .. i - 1 : q[j].source = "Hook" => q[j].off < q[i].off

\* Behind every scrape in q comes the n-th hook event.
Covered(q, n) ==
  \A j \in 1 .. Len(q) : q[j].source = "Scrape" =>
    \E i \in 1 .. Len(q) : j < i /\ q[i].source = "Hook" /\ q[i].off = n

\* q is p with messages added that are no hook events.
Longer(p, q) ==
  /\ Len(p) <= Len(q)
  /\ \A i \in 1 .. Len(q) : IF i <= Len(p) THEN q[i] = p[i] ELSE q[i].source # "Hook"

\* Such messages leave the hook events in order.
LEMMA FedLonger ==
  ASSUME NEW p \in Seq(Message), NEW q \in Seq(Message), Longer(p, q),
         NEW k \in Nat, NEW r, NEW sp, Fed(p, k, r, sp)
  PROVE  Fed(q, k, r, sp)
<1> SUFFICES ASSUME NEW i \in 1 .. Len(q), q[i].source = "Hook"
             PROVE  /\ q[i].off \in 1 .. k /\ q[i].state = sp[q[i].off].state
                    /\ Before(r, q[i].off)
                    /\ \A j \in 1 .. i - 1 : q[j].source = "Hook" => q[j].off < q[i].off
  BY DEF Fed
<1>1. i \in 1 .. Len(p) /\ q[i] = p[i]
  BY DEF Longer
<1>2. \A j \in 1 .. i - 1 : q[j] = p[j]
  BY <1>1 DEF Longer
<1> QED BY <1>1, <1>2 DEF Fed

\* One added message that is no hook event.
LEMMA LongerAppend ==
  ASSUME NEW p \in Seq(Message), NEW m \in Message, m.source # "Hook"
  PROVE  Append(p, m) \in Seq(Message) /\ Longer(p, Append(p, m))
BY DEF Longer

\* The next hook event of the spool added.
LEMMA FedAppend ==
  ASSUME NEW p \in Seq(Message), NEW m \in Message, NEW k \in Nat, k > 0,
         m.source = "Hook", m.off = k, NEW sp, m.state = sp[k].state,
         NEW r, Before(r, k), Fed(p, k - 1, r, sp)
  PROVE  Fed(Append(p, m), k, r, sp)
<1> DEFINE q == Append(p, m)
<1>1. Len(q) = Len(p) + 1 /\ q[Len(p) + 1] = m /\ \A i \in 1 .. Len(p) : q[i] = p[i]
  OBVIOUS
<1> HIDE DEF q
<1> SUFFICES ASSUME NEW i \in 1 .. Len(q), q[i].source = "Hook"
             PROVE  /\ q[i].off \in 1 .. k /\ q[i].state = sp[q[i].off].state
                    /\ Before(r, q[i].off)
                    /\ \A j \in 1 .. i - 1 : q[j].source = "Hook" => q[j].off < q[i].off
  BY DEF Fed, q
<1>2. CASE i \in 1 .. Len(p)
  <2>1. q[i] = p[i] /\ \A j \in 1 .. i - 1 : q[j] = p[j]
    BY <1>1, <1>2
  <2> QED BY <1>2, <2>1 DEF Fed
<1>3. CASE i = Len(p) + 1
  <2>1. \A j \in 1 .. i - 1 : q[j] = p[j] /\ j \in 1 .. Len(p)
    BY <1>1, <1>3
  <2>2. \A j \in 1 .. i - 1 : q[j].source = "Hook" => q[j].off \in 1 .. k - 1
    BY <2>1 DEF Fed
  <2> QED BY <1>1, <1>3, <2>2
<1> QED BY <1>1, <1>2, <1>3

\* Further events of the spool may have been read.
LEMMA FedMore ==
  ASSUME NEW q, NEW j \in Nat, NEW k \in Nat, j <= k, NEW r, NEW sp, Fed(q, j, r, sp)
  PROVE  Fed(q, k, r, sp)
BY DEF Fed

\* A new event in the spool.
LEMMA FedSpool ==
  ASSUME NEW q, NEW k \in Nat, NEW r, NEW sp \in Seq(HookEvent), NEW h \in HookEvent,
         k <= Len(sp), Fed(q, k, r, sp)
  PROVE  Fed(q, k, r, Append(sp, h))
<1>1. \A i \in 1 .. k : Append(sp, h)[i] = sp[i]
  OBVIOUS
<1> QED BY <1>1 DEF Fed

\* The first message was taken by the record.
LEMMA FedTail ==
  ASSUME NEW q \in Seq(Message), q # <<>>, NEW k \in Nat, NEW r, NEW sp, Fed(q, k, r, sp),
         NEW s, AppliedFacts(r, Head(q), s)
  PROVE  Fed(Tail(q), k, s, sp)
<1> DEFINE t == Tail(q)
<1>1. Len(q) \in Nat /\ Len(q) > 0 /\ Len(t) = Len(q) - 1 /\ Head(q) = q[1]
      /\ \A i \in 1 .. Len(t) : t[i] = q[i + 1]
  OBVIOUS
<1> HIDE DEF t
<1> SUFFICES ASSUME NEW i \in 1 .. Len(t), t[i].source = "Hook"
             PROVE  /\ t[i].off \in 1 .. k /\ t[i].state = sp[t[i].off].state
                    /\ Before(s, t[i].off)
                    /\ \A j \in 1 .. i - 1 : t[j].source = "Hook" => t[j].off < t[i].off
  BY DEF Fed, t
<1> DEFINE n == i + 1
<1>2. n \in 1 .. Len(q) /\ 1 \in 1 .. n - 1 /\ 1 \in 1 .. Len(q) /\ t[i] = q[n] /\ q[n].source = "Hook"
  BY <1>1
<1>3. \A j \in 1 .. i - 1 : t[j] = q[j + 1] /\ j + 1 \in 1 .. n - 1
  BY <1>1
<1> HIDE DEF n
<1>4. /\ q[n].off \in 1 .. k /\ q[n].state = sp[q[n].off].state
      /\ Before(r, q[n].off)
      /\ \A j \in 1 .. n - 1 : q[j].source = "Hook" => q[j].off < q[n].off
  BY <1>2 DEF Fed
<1>5. Before(s, q[n].off)
  <2>1. CASE q[1].source = "Hook"
    <3>1. q[1].off \in 1 .. k /\ Before(r, q[1].off) /\ q[1].off < q[n].off
      BY <1>2, <1>4, <2>1 DEF Fed
    <3>2. OffOf(s) = q[1].off
      BY <1>1, <2>1, <3>1 DEF AppliedFacts
    <3> QED BY <3>1, <3>2 DEF Before
  <2>2. CASE q[1].source # "Hook"
    <3>1. OffOf(s) = OffOf(r)
      BY <1>1, <2>2 DEF AppliedFacts
    <3> QED BY <1>4, <3>1 DEF Before
  <2> QED BY <2>1, <2>2
<1> QED BY <1>2, <1>3, <1>4, <1>5

\* The same, whatever the record: all are new to none.
LEMMA FedNoneTail ==
  ASSUME NEW q \in Seq(Message), q # <<>>, NEW k \in Nat, NEW sp, Fed(q, k, None, sp)
  PROVE  Fed(Tail(q), k, None, sp)
<1> DEFINE t == Tail(q)
<1>1. Len(q) \in Nat /\ Len(t) = Len(q) - 1 /\ \A i \in 1 .. Len(t) : t[i] = q[i + 1]
  OBVIOUS
<1> HIDE DEF t
<1> SUFFICES ASSUME NEW i \in 1 .. Len(t), t[i].source = "Hook"
             PROVE  /\ t[i].off \in 1 .. k /\ t[i].state = sp[t[i].off].state
                    /\ Before(None, t[i].off)
                    /\ \A j \in 1 .. i - 1 : t[j].source = "Hook" => t[j].off < t[i].off
  BY DEF Fed, t
<1>2. i + 1 \in 1 .. Len(q) /\ t[i] = q[i + 1]
      /\ \A j \in 1 .. i - 1 : t[j] = q[j + 1] /\ j + 1 \in 1 .. (i + 1) - 1
  BY <1>1
<1> QED BY <1>2 DEF Fed

\* The first message was taken: what is left is covered.
LEMMA CoveredTail ==
  ASSUME NEW q \in Seq(Message), q # <<>>, NEW n, Covered(q, n)
  PROVE  Covered(Tail(q), n)
<1> DEFINE t == Tail(q)
<1>1. Len(q) \in Nat /\ Len(t) = Len(q) - 1 /\ \A i \in 1 .. Len(t) : t[i] = q[i + 1]
  OBVIOUS
<1> HIDE DEF t
<1> SUFFICES ASSUME NEW j \in 1 .. Len(t), t[j].source = "Scrape"
             PROVE  \E i \in 1 .. Len(t) : j < i /\ t[i].source = "Hook" /\ t[i].off = n
  BY DEF Covered, t
<1>2. j + 1 \in 1 .. Len(q) /\ q[j + 1].source = "Scrape"
  BY <1>1
<1>3. PICK i \in 1 .. Len(q) : j + 1 < i /\ q[i].source = "Hook" /\ q[i].off = n
  BY <1>2 DEF Covered
<1>4. i - 1 \in 1 .. Len(t) /\ j < i - 1 /\ i - 1 + 1 = i
  BY <1>1, <1>3
<1>5. t[i - 1] = q[i]
  BY <1>1, <1>4
<1> QED BY <1>3, <1>4, <1>5

\* A list of panes added leaves the scrapes covered.
LEMMA CoveredAppend ==
  ASSUME NEW q \in Seq(Message), NEW m \in Message, m.source # "Scrape", NEW n, Covered(q, n)
  PROVE  Covered(Append(q, m), n)
<1> DEFINE t == Append(q, m)
<1>1. Len(q) \in Nat /\ Len(t) = Len(q) + 1 /\ t[Len(q) + 1] = m /\ \A i \in 1 .. Len(q) : t[i] = q[i]
  OBVIOUS
<1> HIDE DEF t
<1> SUFFICES ASSUME NEW j \in 1 .. Len(t), t[j].source = "Scrape"
             PROVE  \E i \in 1 .. Len(t) : j < i /\ t[i].source = "Hook" /\ t[i].off = n
  BY DEF Covered, t
<1>2. j \in 1 .. Len(q) /\ q[j].source = "Scrape"
  BY <1>1
<1>3. PICK i \in 1 .. Len(q) : j < i /\ q[i].source = "Hook" /\ q[i].off = n
  BY <1>2 DEF Covered
<1> QED BY <1>1, <1>3

\* What ends with the n-th hook event is covered.
LEMMA CoveredEnd ==
  ASSUME NEW q \in Seq(Message), NEW m \in Message, m.source = "Hook", NEW n, m.off = n
  PROVE  Covered(Append(q, m), n)
<1> DEFINE t == Append(q, m)
<1>1. Len(q) \in Nat /\ Len(t) = Len(q) + 1 /\ t[Len(q) + 1] = m
  OBVIOUS
<1> HIDE DEF t
<1>2. \A j \in 1 .. Len(t) : t[j].source = "Scrape" => j < Len(q) + 1
  BY <1>1
<1>3. Covered(t, n)
  BY <1>1, <1>2 DEF Covered
<1> QED BY <1>3 DEF t

-----------------------------------------------------------------------------
(* Watch: what serve's operations do to the server and the messages.       *)

Hist == [scr : Screens \cup {None}, since : Nat, emitted : AgentState \cup {None}]
PaneLists == {"none", "unlisted", "new", "live", "exited", "gone"}
Pair == [s : Server, out : Seq(Message)]
Fine(x) == x \in Pair /\ x.s.misses < MissesToExit

\* No history is a history.
LEMMA UnseenIsHist == Unseen \in Hist
BY DEF Unseen, Hist

\* The parts of a server.
LEMMA ServerParts ==
  ASSUME NEW s \in Server
  PROVE  /\ s.read \in Nat /\ s.misses \in Nat /\ s.hold \in BOOLEAN
         /\ s.bound \in {"none", "hook", "scrape"} /\ s.hist \in Hist
         /\ s.panes \in PaneLists /\ s.title \in Screens \cup {None}
BY DEF Server, Hist, PaneLists

\* A server with some parts changed.
LEMMA ServerMade ==
  ASSUME NEW rd \in Nat, NEW ps \in PaneLists, NEW ti \in Screens \cup {None},
         NEW bd \in {"none", "hook", "scrape"}, NEW ms \in Nat, NEW hd \in BOOLEAN, NEW hi \in Hist,
         NEW t, t = [read |-> rd, panes |-> ps, title |-> ti, bound |-> bd, misses |-> ms,
                     hold |-> hd, hist |-> hi]
  PROVE  /\ t \in Server /\ t.read = rd /\ t.panes = ps /\ t.title = ti /\ t.bound = bd
         /\ t.misses = ms /\ t.hold = hd /\ t.hist = hi
BY DEF Server, Hist, PaneLists

\* A server that begins.
LEMMA NewServerOK ==
  ASSUME NEW ack \in Nat
  PROVE  /\ NewServer(ack) \in Server /\ NewServer(ack).read = ack /\ NewServer(ack).misses = 0
         /\ NewServer(ack).title = None /\ NewServer(ack).panes = "none"
BY DEF NewServer, Unseen, Server, AgentState

\* A server and messages make a pair,
LEMMA PairMade ==
  ASSUME NEW s \in Server, NEW o \in Seq(Message), NEW x, x = [s |-> s, out |-> o]
  PROVE  x \in Pair /\ x.s = s /\ x.out = o
BY DEF Pair

\* and a pair is made of them.
LEMMA PairParts ==
  ASSUME NEW x \in Pair
  PROVE  x.s \in Server /\ x.out \in Seq(Message) /\ x = [s |-> x.s, out |-> x.out]
BY DEF Pair

\* A binding without misses stays.
LEMMA ZeroMisses == 0 < MissesToExit
BY WatchAssumption

\* What serve says of an agent is a message.
LEMMA SaysIsMessage ==
  ASSUME NEW source \in {"Hook", "Scrape"}, NEW state \in AgentState, NEW ts \in Nat,
         NEW off \in Nat \cup {None}
  PROVE  /\ Says(source, state, ts, off) \in Message
         /\ Says(source, state, ts, off).source = source
         /\ Says(source, state, ts, off).state = state
         /\ Says(source, state, ts, off).off = off
BY DEF Says, Message, AgentEvent

\* A hook event earlier than the j-th is earlier than those after it.
LEMMA BeforeMore ==
  ASSUME NEW r \in AgentRecord \cup {None}, NEW j \in Nat, NEW k \in Nat, j <= k, Before(r, j)
  PROVE  Before(r, k)
<1>1. OffOf(r) \in Nat \cup {None}
  BY DEF OffOf, AgentRecord
<1> QED BY <1>1 DEF Before

\* One event of the spool.
OneDrained(x, k, y) ==
  /\ Fine(y) /\ y.s.read = x.s.read /\ y.s.title = x.s.title /\ y.s.panes = x.s.panes /\ Len(x.out) <= Len(y.out)
  /\ spool[k].state = "Exited" => y.s.bound = "none" /\ y.s.hold = TRUE /\ Covered(y.out, k)
  /\ \A r : Before(r, k) /\ Fed(x.out, k - 1, r, spool) => Fed(y.out, k, r, spool)

\* DrainOne does that.
LEMMA DrainOneOK ==
  ASSUME NEW x, Fine(x), spool \in Seq(HookEvent), NEW k \in 1 .. Len(spool)
  PROVE  OneDrained(x, k, DrainOne(x, k))
<1> DEFINE y == DrainOne(x, k)
           a == [x.s EXCEPT !.bound = "none", !.misses = 0, !.hist = Unseen, !.hold = TRUE]
           b == [x.s EXCEPT !.bound = "hook", !.misses = 0, !.hold = FALSE]
           m == Says("Hook", spool[k].state, spool[k].ts, k)
           o == IF spool[k].state = None THEN x.out ELSE Append(x.out, m)
<1>1. spool[k] \in HookEvent
  OBVIOUS
<1>2. spool[k].state \in AgentState \cup {None} /\ spool[k].ts \in Nat /\ k \in Nat /\ k > 0
  BY <1>1 DEF HookEvent
<1>3. x.s \in Server /\ x.out \in Seq(Message)
  BY PairParts DEF Fine
<1>4. /\ a \in Server /\ a.read = x.s.read /\ a.title = x.s.title /\ a.panes = x.s.panes /\ a.bound = "none"
      /\ a.misses = 0 /\ a.hold = TRUE
  BY <1>3, UnseenIsHist DEF Server, Hist
<1>5. b \in Server /\ b.read = x.s.read /\ b.title = x.s.title /\ b.panes = x.s.panes /\ b.misses = 0
  BY <1>3 DEF Server
<1>6. ASSUME spool[k].state # None
      PROVE  m \in Message /\ m.source = "Hook" /\ m.state = spool[k].state /\ m.off = k
  <2> DEFINE st == spool[k].state
             ts == spool[k].ts
  <2>1. st \in AgentState /\ ts \in Nat /\ k \in Nat \cup {None} /\ m = Says("Hook", st, ts, k)
    BY <1>2, <1>6
  <2> HIDE DEF st, ts, m
  <2>2. m \in Message /\ m.source = "Hook" /\ m.state = st /\ m.off = k
    BY <2>1, SaysIsMessage
  <2> QED BY <2>2 DEF st
<1>7. y = [s |-> IF spool[k].state = "Exited" THEN a ELSE b, out |-> o]
  BY Zenon DEF DrainOne
<1> HIDE DEF a, b, m, y
<1>8. /\ o \in Seq(Message) /\ Len(x.out) <= Len(o)
      /\ spool[k].state = "Exited" => Covered(o, k)
      /\ \A r : Before(r, k) /\ Fed(x.out, k - 1, r, spool) => Fed(o, k, r, spool)
  <2>1. CASE spool[k].state = None
    <3>1. o = x.out /\ spool[k].state # "Exited"
      BY <2>1, WatchAssumption DEF AgentState
    <3>2. k - 1 \in Nat /\ k - 1 <= k
      BY <1>2
    <3> HIDE DEF o
    <3> QED BY <1>2, <1>3, <3>1, <3>2, FedMore
  <2>2. CASE spool[k].state # None
    <3>1. o = Append(x.out, m)
      BY <2>2
    <3> HIDE DEF o
    <3>2. \A r : Before(r, k) /\ Fed(x.out, k - 1, r, spool) => Fed(o, k, r, spool)
      BY <1>2, <1>3, <1>6, <2>2, <3>1, FedAppend
    <3>3. Covered(o, k)
      BY <1>3, <1>6, <2>2, <3>1, CoveredEnd
    <3> QED BY <1>3, <1>6, <2>2, <3>1, <3>2, <3>3
  <2> QED BY <2>1, <2>2
<1> HIDE DEF o
<1>9. ASSUME spool[k].state = "Exited" PROVE OneDrained(x, k, y)
  <2>1. y = [s |-> a, out |-> o]
    BY <1>7, <1>9
  <2>2. y \in Pair /\ y.s = a /\ y.out = o
    BY <1>4, <1>8, <2>1, PairMade
  <2> QED BY <1>4, <1>8, <2>2, ZeroMisses DEF Fine, OneDrained
<1>10. ASSUME spool[k].state # "Exited" PROVE OneDrained(x, k, y)
  <2>1. y = [s |-> b, out |-> o]
    BY <1>7, <1>10
  <2>2. y \in Pair /\ y.s = b /\ y.out = o
    BY <1>5, <1>8, <2>1, PairMade
  <2> QED BY <1>5, <1>8, <1>10, <2>2, ZeroMisses DEF Fine, OneDrained
<1>11. OneDrained(x, k, y)
  BY <1>9, <1>10
<1> QED BY <1>11 DEF y

\* The function by which Drain is defined, up to the n-th event; there is one.
Runs(g, x, n) ==
  g = [k \in x.s.read .. n |-> IF k = x.s.read THEN x ELSE DrainOne(g[k - 1], k)]

\* By induction on the number of events.
LEMMA RunExists ==
  ASSUME NEW x, x.s.read \in Nat, NEW n \in Nat, x.s.read <= n
  PROVE  \E g : Runs(g, x, n)
<1> DEFINE b == x.s.read
           N == {j \in Nat : \E g : Runs(g, x, b + j)}
<1>1. 0 \in N
  <2> DEFINE g == [k \in b .. b + 0 |-> x]
  <2>1. \A k \in b .. b + 0 : k = b
    OBVIOUS
  <2>2. g = [k \in b .. b + 0 |-> IF k = b THEN x ELSE DrainOne(g[k - 1], k)]
    <3> DEFINE h == [k \in b .. b + 0 |-> IF k = b THEN x ELSE DrainOne(g[k - 1], k)]
    <3>1. \A k \in b .. b + 0 : h[k] = x
      BY <2>1
    <3> QED BY <3>1
  <2>3. Runs(g, x, b + 0)
    <3> HIDE DEF g
    <3> QED BY <2>2 DEF Runs
  <2> HIDE DEF g
  <2> QED BY <2>3
<1>2. ASSUME NEW j \in Nat, j \in N PROVE j + 1 \in N
  <2> DEFINE m == b + j
             p == b + (j + 1)
  <2>0. m \in Nat /\ p = m + 1 /\ b <= m /\ b \in Nat
    OBVIOUS
  <2>1. PICK g : Runs(g, x, m)
    BY <1>2
  <2> HIDE DEF m, p, b
  <2> DEFINE h == [k \in b .. p |-> IF k = p THEN DrainOne(g[k - 1], k) ELSE g[k]]
             e == [k \in b .. p |-> IF k = b THEN x ELSE DrainOne(h[k - 1], k)]
  <2>2. ASSUME NEW k \in b .. p PROVE h[k] = e[k]
    <3>1. CASE k = p
      <4>1. k # b /\ k - 1 \in b .. p /\ k - 1 # p
        BY <2>0, <3>1
      <4>2. h[k - 1] = g[k - 1]
        BY <4>1
      <4>3. e[k] = DrainOne(h[k - 1], k)
        <5> HIDE DEF h
        <5> QED BY <4>1
      <4>4. h[k] = DrainOne(g[k - 1], k)
        BY <3>1
      <4> QED BY <4>2, <4>3, <4>4, Zenon
    <3>2. CASE k # p
      <4>1. k \in b .. m /\ (k # b => k - 1 \in b .. p /\ k - 1 # p)
        BY <2>0, <3>2
      <4>2. h[k] = g[k] /\ (k # b => h[k - 1] = g[k - 1])
        BY <3>2, <4>1
      <4>3. g[k] = IF k = b THEN x ELSE DrainOne(g[k - 1], k)
        <5> HIDE DEF h, e
        <5> QED BY <2>1, <4>1 DEF Runs, b
      <4>4. e[k] = IF k = b THEN x ELSE DrainOne(h[k - 1], k)
        <5> HIDE DEF h
        <5> QED OBVIOUS
      <4> QED BY <4>2, <4>3, <4>4, Zenon
    <3> QED BY <3>1, <3>2
  <2>3. h = [k \in b .. p |-> h[k]] /\ e = [k \in b .. p |-> e[k]]
    <3>1. h = [k \in b .. p |-> h[k]]
      OBVIOUS
    <3>2. e = [k \in b .. p |-> e[k]]
      <4> HIDE DEF h
      <4> QED OBVIOUS
    <3> QED BY <3>1, <3>2
  <2>4. h = e
    <3> HIDE DEF h, e
    <3> QED BY <2>2, <2>3
  <2>5. Runs(h, x, p)
    <3> HIDE DEF h
    <3> QED BY <2>4 DEF Runs, b
  <2>6. \E f : Runs(f, x, p)
    <3> HIDE DEF h
    <3> QED BY <2>5
  <2> QED BY <2>6 DEF p
<1>3. Nat \subseteq N
  <2> HIDE DEF N
  <2> QED BY <1>1, <1>2, SetInduction
<1>4. n - b \in Nat /\ b + (n - b) = n
  OBVIOUS
<1>5. \E g : Runs(g, x, b + (n - b))
  BY <1>3, <1>4
<1> QED BY <1>4, <1>5

\* What every step of the run keeps.
Along(x, y, k) ==
  /\ Fine(y) /\ y.s.read = x.s.read /\ y.s.title = x.s.title /\ y.s.panes = x.s.panes /\ Len(x.out) <= Len(y.out)
  /\ \A r \in AgentRecord \cup {None} :
       Before(r, x.s.read + 1) /\ Fed(x.out, x.s.read, r, spool) => Fed(y.out, k, r, spool)

\* By induction on k, an event at a time.
LEMMA RunKeeps ==
  ASSUME NEW x, Fine(x), spool \in Seq(HookEvent), x.s.read <= Len(spool),
         NEW g, Runs(g, x, Len(spool)), NEW k \in x.s.read .. Len(spool)
  PROVE  Along(x, g[k], k)
<1> DEFINE b == x.s.read
           N == {j \in Nat : b + j <= Len(spool) => Along(x, g[b + j], b + j)}
<1>0. b \in Nat /\ Len(spool) \in Nat /\ Len(x.out) \in Nat
  BY PairParts, ServerParts DEF Fine
<1>1. \A i \in b .. Len(spool) : g[i] = IF i = b THEN x ELSE DrainOne(g[i - 1], i)
  BY DEF Runs
<1>2. 0 \in N
  <2>1. b + 0 = b /\ b \in b .. Len(spool)
    BY <1>0
  <2>2. g[b] = x
    BY <1>1, <2>1
  <2>3. Along(x, x, b)
    BY <1>0 DEF Along
  <2> QED BY <2>1, <2>2, <2>3
<1>3. ASSUME NEW j \in Nat, j \in N PROVE j + 1 \in N
  <2> SUFFICES ASSUME b + (j + 1) <= Len(spool) PROVE Along(x, g[b + (j + 1)], b + (j + 1))
    OBVIOUS
  <2> DEFINE i == b + (j + 1)
  <2>1. /\ i \in b .. Len(spool) /\ i # b /\ i - 1 = b + j /\ b + j <= Len(spool)
        /\ i \in 1 .. Len(spool) /\ i \in Nat /\ b + 1 \in Nat /\ b + 1 <= i
    BY <1>0
  <2>2. Along(x, g[i - 1], i - 1)
    BY <1>3, <2>1
  <2> HIDE DEF i
  <2> DEFINE u == g[i - 1]
  <2>3. g[i] = DrainOne(u, i) /\ Fine(u)
    BY <1>1, <2>1, <2>2 DEF Along
  <2>4. Along(x, u, i - 1)
    BY <2>2
  <2> HIDE DEF u, b
  <2>5. OneDrained(u, i, g[i])
    BY <2>1, <2>3, DrainOneOK
  <2>6. ASSUME NEW r \in AgentRecord \cup {None}, Before(r, x.s.read + 1), Fed(x.out, x.s.read, r, spool)
        PROVE  Fed(g[i].out, i, r, spool)
    <3>1. Before(r, i)
      BY <2>1, <2>6, BeforeMore DEF b
    <3>2. Fed(u.out, i - 1, r, spool)
      BY <2>4, <2>6 DEF Along
    <3> QED BY <2>5, <3>1, <3>2 DEF OneDrained
  <2>7. Len(u.out) \in Nat /\ Len(g[i].out) \in Nat
    BY <2>4, <2>5, PairParts DEF Along, OneDrained, Fine
  <2>8. Along(x, g[i], i)
    BY <1>0, <2>4, <2>5, <2>6, <2>7 DEF Along, OneDrained
  <2> QED BY <2>8 DEF i, b
<1>4. Nat \subseteq N
  <2> HIDE DEF N
  <2> QED BY <1>2, <1>3, SetInduction
<1>5. k - b \in Nat /\ b + (k - b) = k /\ k <= Len(spool)
  BY <1>0
<1> QED BY <1>4, <1>5

\* drain_spool: all is read and queued in order, and an end that comes last is
\* the last word and holds the pane.
Drained(x, y) ==
  /\ Fine(y) /\ y.s.read = Len(spool) /\ y.s.title = x.s.title /\ y.s.panes = x.s.panes /\ Len(x.out) <= Len(y.out)
  /\ x.s.read = Len(spool) => y = x
  /\ \A r \in AgentRecord \cup {None} :
       Before(r, x.s.read + 1) /\ Fed(x.out, x.s.read, r, spool) => Fed(y.out, Len(spool), r, spool)
  /\ x.s.read < Len(spool) /\ spool[Len(spool)].state = "Exited" =>
       y.s.bound = "none" /\ y.s.hold = TRUE /\ Covered(y.out, Len(spool))

\* Drain is the end of its run, with read moved.
LEMMA DrainOK ==
  ASSUME NEW x, Fine(x), spool \in Seq(HookEvent), x.s.read <= Len(spool)
  PROVE  Drained(x, Drain(x))
<1> DEFINE n == Len(spool)
           g == CHOOSE f : Runs(f, x, n)
           z == g[n]
           y == Drain(x)
<1>0. x.s.read \in Nat /\ n \in Nat /\ n \in x.s.read .. n
  BY PairParts, ServerParts DEF Fine
<1>1. Runs(g, x, n)
  BY <1>0, RunExists
<1>2. y = [g[n] EXCEPT !.s.read = n]
  BY Zenon DEF Drain, Runs
<1> HIDE DEF g
<1>3. Along(x, z, n)
  BY <1>0, <1>1, RunKeeps
<1>4. n = x.s.read => z = x
  BY <1>0, <1>1 DEF Runs
<1>5. ASSUME x.s.read < n, spool[n].state = "Exited"
      PROVE  z.s.bound = "none" /\ z.s.hold = TRUE /\ Covered(z.out, n)
  <2>1. n - 1 \in x.s.read .. n /\ n \in 1 .. n /\ n # x.s.read
    BY <1>0, <1>5
  <2>2. Along(x, g[n - 1], n - 1)
    <3> HIDE DEF n
    <3> QED BY <1>1, <2>1, RunKeeps DEF n
  <2>3. z = DrainOne(g[n - 1], n)
    BY <1>0, <1>1, <2>1 DEF Runs
  <2> DEFINE u == g[n - 1]
  <2>4. z = DrainOne(u, n) /\ Fine(u)
    BY <2>2, <2>3 DEF Along
  <2> HIDE DEF u, z
  <2>5. OneDrained(u, n, z)
    BY <2>1, <2>4, DrainOneOK
  <2> QED BY <1>5, <2>5 DEF OneDrained
<1>6. z \in Pair /\ z.s \in Server /\ z.out \in Seq(Message) /\ z = [s |-> z.s, out |-> z.out]
  BY <1>3, PairParts DEF Along, Fine
<1> HIDE DEF z
<1>7. y = [z EXCEPT !.s.read = n]
  BY <1>2 DEF z
<1>8. /\ y.out = z.out /\ y.s = [z.s EXCEPT !.read = n] /\ y \in Pair
  <2>1. [z.s EXCEPT !.read = n] \in Server
    BY <1>0, <1>6 DEF Server
  <2>2. y = [z EXCEPT !.s = [z.s EXCEPT !.read = n]]
    BY <1>7
  <2> DEFINE t == [z.s EXCEPT !.read = n]
  <2> HIDE DEF t, n, y
  <2> QED BY <1>6, <2>1, <2>2 DEF Pair, t
<1> HIDE DEF y
<1>9. /\ y.s.read = n /\ y.s.bound = z.s.bound /\ y.s.hold = z.s.hold /\ y.s.title = z.s.title /\ y.s.panes = z.s.panes
      /\ y.s.misses = z.s.misses
  BY <1>0, <1>6, <1>8 DEF Server
<1>10. x.s.read = n => y = x
  <2> SUFFICES ASSUME x.s.read = n PROVE y = x
    OBVIOUS
  <2>1. z = x
    BY <1>4
  <2>2. [z.s EXCEPT !.read = n] = z.s
    BY <1>6, <2>1 DEF Server
  <2> QED BY <1>6, <1>8, <2>1, <2>2, PairParts
<1>11. Fine(y)
  BY <1>3, <1>8, <1>9 DEF Along, Fine
<1>12. Drained(x, y)
  BY <1>3, <1>5, <1>8, <1>9, <1>10, <1>11 DEF Drained, Along
<1> QED BY <1>12 DEF y

\* poll_panes: what is listed keeps its binding and its hold.
LEMMA PollOK ==
  ASSUME NEW s \in Server, s.misses < MissesToExit, NEW list \in PaneLists,
         NEW title \in Screens \cup {None}, NEW t, t = Poll(s, list, title)
  PROVE  /\ t \in Server /\ t.misses < MissesToExit /\ t.read = s.read /\ t.title = title
         /\ t.panes = list
         /\ Listed(list) => t.bound = s.bound /\ t.hold = s.hold
         /\ ~Listed(list) => t.bound = "none"
<1> DEFINE hi == IF Listed(s.panes) /\ ~Listed(list) THEN Unseen ELSE s.hist
           bd == IF Listed(list) THEN s.bound ELSE "none"
           ms == IF Listed(list) THEN s.misses ELSE 0
           hd == s.hold /\ Listed(list)
<1>1. /\ hi \in Hist /\ bd \in {"none", "hook", "scrape"} /\ ms \in Nat /\ hd \in BOOLEAN
      /\ ms < MissesToExit /\ s.read \in Nat
      /\ (Listed(list) => bd = s.bound /\ hd = s.hold) /\ (~Listed(list) => bd = "none")
  BY ServerParts, UnseenIsHist, ZeroMisses
<1>2. t = [s EXCEPT !.panes = list, !.title = title, !.hist = hi, !.bound = bd, !.misses = ms, !.hold = hd]
  BY DEF Poll, Server
<1> HIDE DEF hi, bd, ms, hd
<1>3. t = [read |-> s.read, panes |-> list, title |-> title, bound |-> bd, misses |-> ms,
           hold |-> hd, hist |-> hi]
  BY <1>2 DEF Server
<1> QED BY <1>1, <1>3, ServerMade

\* What a scrape of the pane may do: it adds messages that are no hook events.
Scraped(x, y) ==
  Fine(y) /\ y.s.read = x.s.read /\ y.s.title = x.s.title /\ y.s.panes = x.s.panes /\ Longer(x.out, y.out)

\* observe yields a history, and a state or none.
LEMMA ObserveType ==
  ASSUME NEW h \in Hist, NEW scr \in Screens, at \in Nat
  PROVE  observe(h, scr).hist \in Hist /\ observe(h, scr).state \in AgentState \cup {None}
<1> USE DEF Hist, AgentState
<1> DEFINE short == saturating_sub(at, h.since) < StableMs
<1> HIDE DEF short
<1>1. CASE h.scr = None
  BY <1>1 DEF observe, Unseen
<1>2. CASE h.scr # None /\ h.scr # scr
  BY <1>2 DEF observe
<1>3. CASE h.scr # None /\ h.scr = scr
  <2>1. CASE short
    BY <1>3, <2>1 DEF observe, short
  <2>2. CASE ~short /\ scr \notin Asks \cup Dones
    BY <1>3, <2>2 DEF observe, short
  <2>3. CASE ~short /\ scr \in Asks \cup Dones
    BY <1>3, <2>3 DEF observe, short
  <2> QED BY <2>1, <2>2, <2>3
<1> QED BY <1>1, <1>2, <1>3

\* Two such steps make one,
LEMMA ScrapedTwice ==
  ASSUME NEW x, Fine(x), NEW y, NEW z, Scraped(x, y), Scraped(y, z) PROVE Scraped(x, z)
<1> DEFINE p == x.out
           q == y.out
           r == z.out
<1>1. p \in Seq(Message) /\ q \in Seq(Message) /\ r \in Seq(Message) /\ Longer(p, q) /\ Longer(q, r)
  BY PairParts DEF Scraped, Fine
<1> HIDE DEF p, q, r
<1>2. Longer(p, r)
  BY <1>1 DEF Longer
<1> QED BY <1>2 DEF Scraped, p, r

\* and so does none.
LEMMA ScrapedItself == ASSUME NEW x, Fine(x) PROVE Scraped(x, x)
<1>1. x.out \in Seq(Message)
  BY PairParts DEF Fine
<1>2. Longer(x.out, x.out)
  BY <1>1 DEF Longer
<1> QED BY <1>2 DEF Scraped

\* The server of a pair replaced, and the messages kept or one added.
LEMMA ScrapedPair ==
  ASSUME NEW x, Fine(x), NEW t \in Server, t.read = x.s.read, t.title = x.s.title /\ t.panes = x.s.panes,
         t.misses < MissesToExit, NEW o \in Seq(Message), Longer(x.out, o)
  PROVE  Scraped(x, [s |-> t, out |-> o])
<1> DEFINE y == [s |-> t, out |-> o]
<1>1. y \in Pair /\ y.s = t /\ y.out = o
  BY PairMade
<1> HIDE DEF y
<1>2. Scraped(x, y)
  BY <1>1 DEF Scraped, Fine
<1> QED BY <1>2 DEF y

\* The server replaced alone.
LEMMA ScrapedServer ==
  ASSUME NEW x, Fine(x), NEW t \in Server, t.read = x.s.read, t.title = x.s.title /\ t.panes = x.s.panes,
         t.misses < MissesToExit
  PROVE  Scraped(x, [x EXCEPT !.s = t]) /\ Scraped(x, [s |-> t, out |-> x.out])
<1>1. x.out \in Seq(Message) /\ Longer(x.out, x.out)
  BY ScrapedItself, PairParts DEF Fine, Scraped
<1>2. Scraped(x, [s |-> t, out |-> x.out])
  BY <1>1, ScrapedPair
<1>3. [x EXCEPT !.s = t] = [s |-> t, out |-> x.out]
  BY DEF Fine, Pair
<1> QED BY <1>2, <1>3

\* The server replaced, and a scrape event reported.
LEMMA ScrapedReport ==
  ASSUME NEW x, Fine(x), NEW t \in Server, t.read = x.s.read, t.title = x.s.title /\ t.panes = x.s.panes,
         t.misses < MissesToExit, NEW state \in AgentState, at \in Nat
  PROVE  Scraped(x, [s |-> t, out |-> Append(x.out, Says("Scrape", state, at, None))])
<1> DEFINE m == Says("Scrape", state, at, None)
           o == Append(x.out, m)
<1>1. x.out \in Seq(Message)
  BY PairParts DEF Fine
<1>2. m \in Message /\ m.source = "Scrape"
  BY DEF Says, Message, AgentEvent
<1> HIDE DEF m
<1>3. o \in Seq(Message) /\ Longer(x.out, o)
  BY <1>1, <1>2, LongerAppend
<1> HIDE DEF o
<1>4. Scraped(x, [s |-> t, out |-> o])
  BY <1>3, ScrapedPair
<1> QED BY <1>4 DEF o, m

\* An observation is such a scrape.
LEMMA ObservedOK ==
  ASSUME NEW x, Fine(x), NEW scr \in Screens, at \in Nat
  PROVE  Scraped(x, Observed(x, scr))
<1> DEFINE o == observe(x.s.hist, scr)
           a == [x.s EXCEPT !.hist = o.hist]
           q == IF o.state = None THEN x.out ELSE Append(x.out, Says("Scrape", o.state, at, None))
           y == Observed(x, scr)
<1>1. x.s \in Server /\ x.s.hist \in Hist
  BY PairParts, ServerParts DEF Fine
<1>2. o.hist \in Hist /\ o.state \in AgentState \cup {None}
  BY <1>1, ObserveType
<1>3. y = [s |-> a, out |-> q]
  BY Zenon DEF Observed
<1> HIDE DEF o, y
<1>4. a \in Server /\ a.read = x.s.read /\ a.title = x.s.title /\ a.panes = x.s.panes /\ a.misses = x.s.misses
  BY <1>1, <1>2 DEF Server, Hist
<1> HIDE DEF a
<1>5. a.misses < MissesToExit
  BY <1>4 DEF Fine
<1>6. CASE o.state = None
  BY <1>3, <1>4, <1>5, <1>6, ScrapedServer DEF y
<1>7. CASE o.state # None
  <2> DEFINE st == o.state
  <2>1. st \in AgentState /\ y = [s |-> a, out |-> Append(x.out, Says("Scrape", st, at, None))]
    BY <1>2, <1>3, <1>7
  <2> HIDE DEF st
  <2> QED BY <1>4, <1>5, <2>1, ScrapedReport DEF y
<1> QED BY <1>6, <1>7

\* Rebind is such a scrape, and does nothing to a held pane that looks like the
\* agent.
LEMMA RebindOK ==
  ASSUME NEW x, Fine(x), NEW scr \in Screens, at \in Nat
  PROVE  /\ Scraped(x, Rebind(x, scr))
         /\ x.s.hold /\ identify(x.s.title, scr) => Rebind(x, scr) = x
<1> DEFINE id == identify(x.s.title, scr)
<1> HIDE DEF id
<1>1. x.s \in Server
  BY PairParts DEF Fine
<1>2. CASE ~id
  <2> DEFINE t == [x.s EXCEPT !.hold = FALSE]
  <2>1. t \in Server /\ t.read = x.s.read /\ t.title = x.s.title /\ t.panes = x.s.panes /\ t.misses = x.s.misses
    BY <1>1 DEF Server
  <2>2. Rebind(x, scr) = [x EXCEPT !.s = t]
    BY <1>2 DEF Rebind, id
  <2> HIDE DEF t
  <2>3. t.misses < MissesToExit
    BY <2>1 DEF Fine
  <2> QED BY <1>2, <2>1, <2>2, <2>3, ScrapedServer DEF id
<1>3. CASE id /\ x.s.hold
  BY <1>3, ScrapedItself DEF Rebind, id
<1>4. CASE id /\ ~x.s.hold
  <2> DEFINE t == [x.s EXCEPT !.bound = "scrape", !.misses = 0]
             y == [s |-> t, out |-> Append(x.out, Says("Scrape", "Unknown", at, None))]
  <2>1. t \in Server /\ t.read = x.s.read /\ t.title = x.s.title /\ t.panes = x.s.panes /\ t.misses = 0
    BY <1>1 DEF Server
  <2>2. Rebind(x, scr) = Observed(y, scr)
    BY <1>4 DEF Rebind, id
  <2> HIDE DEF t
  <2>3. "Unknown" \in AgentState /\ t.misses < MissesToExit
    BY <2>1, ZeroMisses DEF AgentState
  <2>4. Scraped(x, y)
    BY <2>1, <2>3, ScrapedReport
  <2> HIDE DEF y
  <2>5. Scraped(y, Observed(y, scr))
    <3>1. Fine(y)
      BY <2>4 DEF Scraped
    <3> QED BY <3>1, ObservedOK
  <2> QED BY <1>4, <2>2, <2>4, <2>5, ScrapedTwice
<1> QED BY <1>2, <1>3, <1>4

\* So is ScrapePane.
LEMMA ScrapeOK ==
  ASSUME NEW x, Fine(x), NEW scr \in Screens, at \in Nat
  PROVE  /\ Scraped(x, ScrapePane(x, scr))
         /\ x.s.bound = "none" /\ x.s.hold /\ identify(x.s.title, scr) => ScrapePane(x, scr) = x
<1> DEFINE looks == identify(x.s.title, scr) \/ scr \in Kept
<1> HIDE DEF looks
<1>1. x.s \in Server /\ x.s.misses \in Nat /\ MissesToExit \in Nat
  BY PairParts, ServerParts, WatchAssumption DEF Fine
<1>2. CASE x.s.bound = "none"
  <2>1. ScrapePane(x, scr) = Rebind(x, scr)
    BY <1>2 DEF ScrapePane
  <2> QED BY <2>1, RebindOK
<1>3. CASE x.s.bound # "none"
  <2>1. CASE x.s.bound = "hook"
    <3>1. ScrapePane(x, scr) = Observed(x, scr)
      BY <2>1 DEF ScrapePane
    <3> QED BY <1>3, <3>1, ObservedOK
  <2>2. CASE x.s.bound # "hook" /\ looks
    <3> DEFINE t == [x.s EXCEPT !.misses = 0]
               y == [x EXCEPT !.s = t]
    <3>1. t \in Server /\ t.read = x.s.read /\ t.title = x.s.title /\ t.panes = x.s.panes /\ t.misses = 0
      BY <1>1 DEF Server
    <3>2. ScrapePane(x, scr) = Observed(y, scr)
      BY <1>3, <2>2 DEF ScrapePane, looks
    <3> HIDE DEF t
    <3>3. t.misses < MissesToExit
      BY <3>1, ZeroMisses
    <3>4. Scraped(x, y)
      BY <3>1, <3>3, ScrapedServer
    <3> HIDE DEF y
    <3>5. Scraped(y, Observed(y, scr))
      <4>1. Fine(y)
        BY <3>4 DEF Scraped
      <4> QED BY <4>1, ObservedOK
    <3> QED BY <1>3, <3>2, <3>4, <3>5, ScrapedTwice
  <2>3. CASE x.s.bound # "hook" /\ ~looks /\ x.s.misses + 1 < MissesToExit
    <3> DEFINE t == [x.s EXCEPT !.misses = x.s.misses + 1]
    <3>1. t \in Server /\ t.read = x.s.read /\ t.title = x.s.title /\ t.panes = x.s.panes /\ t.misses = x.s.misses + 1
      BY <1>1 DEF Server
    <3>2. ScrapePane(x, scr) = [x EXCEPT !.s = t]
      BY <1>3, <2>3 DEF ScrapePane, looks
    <3> HIDE DEF t
    <3>3. t.misses < MissesToExit
      BY <2>3, <3>1
    <3>4. Scraped(x, [x EXCEPT !.s = t])
      BY <3>1, <3>3, ScrapedServer
    <3> QED BY <1>3, <3>2, <3>4
  <2>4. CASE x.s.bound # "hook" /\ ~looks /\ ~(x.s.misses + 1 < MissesToExit)
    <3> DEFINE t == [x.s EXCEPT !.bound = "none", !.misses = 0, !.hist = Unseen]
    <3>1. t \in Server /\ t.read = x.s.read /\ t.title = x.s.title /\ t.panes = x.s.panes /\ t.misses = 0
      BY <1>1, UnseenIsHist DEF Server, Hist
    <3>2. ScrapePane(x, scr) = [s |-> t, out |-> Append(x.out, Says("Scrape", "Exited", at, None))]
      BY <1>3, <2>4 DEF ScrapePane, looks
    <3> HIDE DEF t
    <3>3. t.misses < MissesToExit /\ "Exited" \in AgentState
      BY <3>1, ZeroMisses DEF AgentState
    <3> QED BY <1>3, <3>1, <3>2, <3>3, ScrapedReport
  <2> QED BY <2>1, <2>2, <2>3, <2>4
<1> QED BY <1>2, <1>3


-----------------------------------------------------------------------------
(* Watch: the invariant.                                                   *)

\* A hook ran in a pane.
Flown == flying # {} => pane # "new"

\* If there is a leftover, an end is the last event of the spool, and a serve
\* that kept its hold sees the leftover as the agent.
EndsLast ==
  leftover => /\ pane # "new" /\ (clean => identify(server.title, screen))
              /\ Len(spool) # 0 /\ spool[Len(spool)].state = "Exited"

\* serve has read that end: it holds the pane, unless the pane is gone.
HoldInv ==
  leftover /\ clean /\ server.read = Len(spool) =>
    server.bound = "none" /\ (server.hold \/ pane = "gone")

\* Messages and the record know no hook event that is not in the spool.
InSpool == Fed(out, server.read, None, spool) /\ Before(agent, Len(spool) + 1)

\* The hook events on their way are in order and new to the app.
Queued == clean => Fed(out, server.read, agent, spool) /\ Before(agent, server.read + 1)

\* serve has read that end: no scrape is on its way but before it.
LastWord == leftover /\ clean /\ server.read = Len(spool) => Covered(out, Len(spool))

WatchInv ==
  WatchTypeOK /\ Flown /\ EndsLast /\ HoldInv /\ InSpool /\ Queued /\ LastWord /\ HoldHolds

\* Nothing is on its way.
LEMMA EmptyQueue ==
  ASSUME NEW k, NEW r, NEW sp, NEW n
  PROVE  <<>> \in Seq(Message) /\ Fed(<<>>, k, r, sp) /\ Covered(<<>>, n)
BY DEF Fed, Covered

\* The invariant holds at first.
LEMMA WatchStart == WatchInit => WatchInv
<1> SUFFICES ASSUME WatchInit PROVE WatchInv
  OBVIOUS
<1> USE DEF WatchInit
<1>1. server \in Server /\ server.read = 0 /\ server.misses = 0
  BY NewServerOK
<1>2. Len(spool) = 0 /\ spool \in Seq(HookEvent) /\ Len(out) = 0
  OBVIOUS
<1>3. out \in Seq(Message) /\ Fed(out, server.read, None, spool)
  BY EmptyQueue
<1>4. WatchTypeOK
  <2>1. 0 \in 0 .. MaxNow /\ 0 \in 0 .. MaxHooks /\ 0 \in 0 .. MaxFaults
    BY WatchAssumption
  <2>2. /\ now \in 0 .. MaxNow /\ pane \in {"new", "live", "exited", "gone"} /\ screen \in Screens
        /\ flying \subseteq HookEvent /\ hooks \in 0 .. MaxHooks
        /\ step \in {"rest", "poll", "scrape"} /\ agent \in AgentRecord \cup {None}
        /\ faults \in 0 .. MaxFaults /\ clean \in BOOLEAN /\ leftover \in BOOLEAN /\ late \in BOOLEAN
    BY <2>1
  <2>3. server.read <= Len(spool) /\ server.misses < MissesToExit /\ at \in 0 .. now /\ sent \in 0 .. Len(out)
    BY <1>1, <1>2, ZeroMisses
  <2> QED BY <1>1, <1>2, <1>3, <2>2, <2>3 DEF WatchTypeOK
<1>5. InSpool /\ Queued
  BY <1>3 DEF InSpool, Queued, Before, OffOf
<1> QED BY <1>4, <1>5 DEF WatchInv, Flown, EndsLast, HoldInv, LastWord, HoldHolds

\* Time passes, a pane changes.
LEMMA HostKeeps == ASSUME WatchInv, Clock \/ PaneChanges PROVE WatchInv'
<1>1. UNCHANGED <<screen, flying, hooks, spool, server, step, at, out, sent, agent, faults, clean, leftover, late>>
  BY DEF Clock, PaneChanges
<1>2. /\ now' \in 0 .. MaxNow /\ now <= now' /\ now \in Nat /\ now' \in Nat
      /\ pane' \in {"new", "live", "exited", "gone"}
      /\ (pane # "new" => pane' # "new") /\ (pane = "gone" => pane' = "gone")
  BY WatchAssumption DEF Clock, PaneChanges, WatchInv, WatchTypeOK
<1>3. WatchTypeOK'
  BY <1>1, <1>2 DEF WatchInv, WatchTypeOK
<1>4. Flown' /\ EndsLast' /\ HoldInv'
  BY <1>1, <1>2 DEF WatchInv, Flown, EndsLast, HoldInv, identify
<1>5. InSpool' /\ Queued' /\ LastWord' /\ HoldHolds'
  BY <1>1 DEF WatchInv, InSpool, Queued, LastWord, HoldHolds, Fed, Before, OffOf, Covered
<1> QED BY <1>3, <1>4, <1>5 DEF WatchInv

\* What is on screen changes.
LEMMA ScreenKeeps == ASSUME WatchInv, NEW scr \in Screens, ScreenChanges(scr) PROVE WatchInv'
<1>1. UNCHANGED <<now, pane, flying, hooks, spool, server, step, at, out, sent, agent, faults, clean, late>>
  BY DEF ScreenChanges
<1>2. screen' = scr /\ leftover' \in BOOLEAN
  BY DEF ScreenChanges
<1>3. leftover' => leftover /\ identify(server.title, scr)
  BY Zenon DEF ScreenChanges
<1>4. WatchTypeOK'
  BY <1>1, <1>2 DEF WatchInv, WatchTypeOK
<1>5. Flown' /\ EndsLast' /\ HoldInv'
  BY <1>1, <1>2, <1>3 DEF WatchInv, Flown, EndsLast, HoldInv, identify
<1>6. InSpool' /\ Queued' /\ LastWord' /\ HoldHolds'
  BY <1>1, <1>3 DEF WatchInv, InSpool, Queued, LastWord, HoldHolds, Fed, Before, OffOf, Covered
<1> QED BY <1>4, <1>5, <1>6 DEF WatchInv

\* A hook starts.
LEMMA HookStartsKeeps == ASSUME WatchInv, NEW s \in HookStates, HookStarts(s) PROVE WatchInv'
<1> USE DEF HookStarts
<1>1. UNCHANGED <<now, pane, screen, spool, server, step, at, out, sent, agent, faults, clean, leftover, late>>
  OBVIOUS
<1>2. flying' \subseteq HookEvent /\ hooks' \in 0 .. MaxHooks
  <2>1. [state |-> s, ts |-> now] \in HookEvent
    BY WatchAssumption DEF HookEvent, WatchInv, WatchTypeOK
  <2> QED BY <2>1, WatchAssumption DEF WatchInv, WatchTypeOK
<1>3. WatchTypeOK'
  BY <1>1, <1>2 DEF WatchInv, WatchTypeOK
<1>4. Flown' /\ EndsLast' /\ HoldInv'
  BY <1>1 DEF WatchInv, Flown, EndsLast, HoldInv, identify
<1>5. InSpool' /\ Queued' /\ LastWord' /\ HoldHolds'
  BY <1>1 DEF WatchInv, InSpool, Queued, LastWord, HoldHolds, Fed, Before, OffOf, Covered
<1> QED BY <1>3, <1>4, <1>5 DEF WatchInv

\* A hook ends: serve has not read its event, nor does the app know of it.
LEMMA HookEndsKeeps == ASSUME WatchInv, NEW h \in flying, HookEnds(h) PROVE WatchInv'
<1> DEFINE n == Len(spool)
<1>1. UNCHANGED <<now, pane, screen, hooks, server, step, at, out, sent, agent, faults, clean, late>>
  BY DEF HookEnds
<1>2. /\ flying' = flying \ {h} /\ spool' = Append(spool, h)
      /\ leftover' = (h.state = "Exited" /\ identify(server.title, screen))
  BY DEF HookEnds
<1>3. /\ h \in HookEvent /\ spool \in Seq(HookEvent) /\ n \in Nat
      /\ server \in Server /\ server.read \in Nat /\ server.read <= n
      /\ agent \in AgentRecord \cup {None}
  BY ServerParts DEF WatchInv, WatchTypeOK
<1>4. spool' \in Seq(HookEvent) /\ Len(spool') = n + 1 /\ spool'[n + 1] = h
  BY <1>2, <1>3
<1>5. WatchTypeOK'
  <2>1. leftover' \in BOOLEAN
    BY <1>2
  <2>2. flying' \subseteq HookEvent /\ server'.read <= Len(spool')
    BY <1>1, <1>2, <1>3, <1>4 DEF WatchInv, WatchTypeOK
  <2> QED BY <1>1, <1>4, <2>1, <2>2 DEF WatchInv, WatchTypeOK
<1>6. Flown' /\ EndsLast'
  <2>1. leftover' => h.state = "Exited" /\ identify(server.title, screen)
    BY <1>2, Zenon
  <2> QED BY <1>1, <1>2, <1>3, <1>4, <2>1 DEF WatchInv, Flown, EndsLast, identify
<1>7. server'.read # Len(spool')
  BY <1>1, <1>3, <1>4
<1>8. HoldInv' /\ LastWord'
  BY <1>7 DEF HoldInv, LastWord
<1>9. Before(agent, n + 1 + 1)
  BY <1>3, BeforeMore DEF WatchInv, InSpool
<1>10. InSpool'
  <2>1. Fed(out, server.read, None, Append(spool, h))
    BY <1>3, FedSpool DEF WatchInv, InSpool
  <2> QED BY <1>1, <1>2, <1>4, <1>9, <2>1 DEF InSpool, Fed, Before, OffOf
<1>11. Queued'
  <2> SUFFICES ASSUME clean PROVE Fed(out, server.read, agent, Append(spool, h)) /\ Before(agent, server.read + 1)
    BY <1>1, <1>2 DEF Queued, Fed, Before, OffOf
  <2> QED BY <1>3, FedSpool DEF WatchInv, Queued
<1>12. HoldHolds'
  <2> SUFFICES ASSUME clean, agent # None, agent.hookOff = n + 1 PROVE FALSE
    BY <1>1, <1>4 DEF HoldHolds
  <2>1. Before(agent, n + 1)
    BY DEF WatchInv, InSpool
  <2> QED BY <1>3, <2>1, NoneApart DEF Before, OffOf
<1> QED BY <1>5, <1>6, <1>8, <1>10, <1>11, <1>12 DEF WatchInv

\* The parts of the type invariant, for serve's steps.
LEMMA WatchTyped ==
  ASSUME WatchInv
  PROVE  /\ server \in Server /\ server.read \in Nat /\ server.read <= Len(spool)
         /\ server.misses < MissesToExit /\ server.title \in Screens \cup {None}
         /\ spool \in Seq(HookEvent) /\ Len(spool) \in Nat
         /\ out \in Seq(Message) /\ Len(out) \in Nat /\ sent \in 0 .. Len(out)
         /\ agent \in AgentRecord \cup {None} /\ screen \in Screens
         /\ now \in Nat /\ at \in Nat /\ at <= now
BY ServerParts DEF WatchInv, WatchTypeOK

\* Steps that leave what serve knows of the pane, and the messages, alone.
LEMMA StillKeeps ==
  ASSUME WatchInv, UNCHANGED <<hostVars, out, agent, clean, leftover, late>>,
         server' \in Server, server'.read = server.read, server'.title = server.title,
         server'.misses < MissesToExit,
         leftover /\ clean => server'.bound = server.bound /\ server'.hold = server.hold,
         step' \in {"rest", "poll", "scrape"}, at' \in 0 .. now, sent' \in 0 .. Len(out),
         faults' \in 0 .. MaxFaults
  PROVE  WatchInv'
<1> USE DEF hostVars
<1>1. WatchTypeOK'
  BY DEF WatchInv, WatchTypeOK
<1>2. Flown' /\ EndsLast' /\ HoldInv'
  BY DEF WatchInv, Flown, EndsLast, HoldInv, identify
<1>3. InSpool' /\ Queued' /\ LastWord' /\ HoldHolds'
  BY DEF WatchInv, InSpool, Queued, LastWord, HoldHolds, Fed, Before, OffOf, Covered
<1> QED BY <1>1, <1>2, <1>3 DEF WatchInv

\* A step without a failure, and one with.
LEMMA FaultsType ==
  ASSUME WatchInv, UNCHANGED faults \/ Fault PROVE faults' \in 0 .. MaxFaults
BY WatchAssumption DEF WatchInv, WatchTypeOK, Fault

\* The spool cannot be read, listing is not due, the sessions are not listed,
\* the pane is not dumped.
LEMMA IdleKeeps ==
  ASSUME WatchInv, DrainFails \/ NoPoll \/ SessionsFail \/ NotDumped PROVE WatchInv'
<1>0. server \in Server /\ server.misses < MissesToExit /\ now \in Nat /\ at \in 0 .. now
      /\ sent \in 0 .. Len(out) /\ Len(out) \in Nat
  BY WatchTyped DEF WatchInv, WatchTypeOK
<1>1. UNCHANGED <<hostVars, out, agent, clean, leftover, late>> /\ (UNCHANGED faults \/ Fault)
  BY DEF DrainFails, NoPoll, SessionsFail, NotDumped, Polls, Ends
<1>2. faults' \in 0 .. MaxFaults
  BY <1>1, FaultsType
<1>3. step' \in {"rest", "poll", "scrape"} /\ at' \in 0 .. now
  BY <1>0 DEF DrainFails, NoPoll, SessionsFail, NotDumped, Polls, Ends
<1>4. sent' \in 0 .. Len(out)
  BY <1>0 DEF DrainFails, NoPoll, SessionsFail, NotDumped, Polls, Ends
<1>5. /\ server' \in Server /\ server'.read = server.read /\ server'.title = server.title
      /\ server'.misses < MissesToExit
      /\ server'.bound = server.bound /\ server'.hold = server.hold
  <2>1. CASE SessionsFail
    <3> DEFINE p == IF server.panes = "none" THEN "unlisted" ELSE server.panes
    <3>1. server' = [server EXCEPT !.panes = p]
      BY <1>0, <2>1 DEF SessionsFail, Server
    <3>2. p \in PaneLists
      BY <1>0, ServerParts DEF PaneLists
    <3> HIDE DEF p
    <3> QED BY <1>0, <3>1, <3>2 DEF Server, PaneLists
  <2>2. CASE ~SessionsFail
    <3>1. server' = server
      BY <2>2 DEF DrainFails, NoPoll, NotDumped
    <3> QED BY <1>0, <3>1
  <2> QED BY <2>1, <2>2
<1> QED BY <1>1, <1>2, <1>3, <1>4, <1>5, StillKeeps

\* The session's panes are not listed: what is not listed loses its hold.
LEMMA PanesFailKeeps == ASSUME WatchInv, PanesFail PROVE WatchInv'
<1> DEFINE p == IF server.panes = "none" THEN "unlisted" ELSE server.panes
<1>0. server \in Server /\ server.misses < MissesToExit /\ server.title \in Screens \cup {None}
  BY WatchTyped
<1>1. UNCHANGED <<hostVars, out, agent, leftover, late, at, sent>> /\ step' = "scrape" /\ Fault
  BY DEF PanesFail, Polls
<1>2. clean' \in BOOLEAN /\ (clean' => clean /\ Listed(server.panes))
  <2>1. clean' = (clean /\ Listed(server.panes))
    BY DEF PanesFail
  <2> QED BY <2>1, Zenon
<1>3. server' = Poll(server, p, server.title)
  BY DEF PanesFail
<1>4. p \in PaneLists /\ (Listed(server.panes) => Listed(p))
  BY <1>0, ServerParts DEF PaneLists, Listed
<1> HIDE DEF p
<1>5. /\ server' \in Server /\ server'.misses < MissesToExit /\ server'.read = server.read
      /\ server'.title = server.title
      /\ Listed(p) => server'.bound = server.bound /\ server'.hold = server.hold
  <2> DEFINE ti == server.title
  <2> HIDE DEF ti
  <2>1. ti \in Screens \cup {None} /\ server' = Poll(server, p, ti)
    BY <1>0, <1>3 DEF ti
  <2>2. /\ server' \in Server /\ server'.misses < MissesToExit /\ server'.read = server.read
        /\ server'.title = ti
        /\ Listed(p) => server'.bound = server.bound /\ server'.hold = server.hold
    BY <1>0, <1>4, <2>1, PollOK
  <2> QED BY <2>2 DEF ti
<1>6. clean' => server'.bound = server.bound /\ server'.hold = server.hold
  BY <1>2, <1>4, <1>5
<1>7. faults' \in 0 .. MaxFaults
  BY <1>1, FaultsType
<1> USE DEF hostVars
<1>8. WatchTypeOK'
  BY <1>1, <1>2, <1>5, <1>7 DEF WatchInv, WatchTypeOK
<1>9. Flown' /\ EndsLast' /\ HoldInv'
  BY <1>1, <1>2, <1>5, <1>6 DEF WatchInv, Flown, EndsLast, HoldInv, identify
<1>10. InSpool' /\ Queued' /\ LastWord' /\ HoldHolds'
  BY <1>1, <1>2, <1>5 DEF WatchInv, InSpool, Queued, LastWord, HoldHolds, Fed, Before, OffOf, Covered
<1> QED BY <1>8, <1>9, <1>10 DEF WatchInv

\* The spool is read: an end that is its last event holds the pane, and comes
\* after all scrapes.
LEMMA DrainKeeps == ASSUME WatchInv, TickDrains PROVE WatchInv'
<1> DEFINE x == [s |-> server, out |-> out]
           y == Drain(x)
           n == Len(spool)
<1>0. /\ server \in Server /\ server.read \in Nat /\ server.read <= n /\ server.misses < MissesToExit
      /\ spool \in Seq(HookEvent) /\ n \in Nat /\ out \in Seq(Message) /\ sent \in 0 .. Len(out)
      /\ agent \in AgentRecord \cup {None} /\ now \in Nat
  BY WatchTyped
<1>1. /\ UNCHANGED <<hostVars, sent, agent, faults, clean, leftover>>
      /\ step' = "poll" /\ at' = now /\ server' = y.s /\ out' = y.out
  BY DEF TickDrains
<1>2. x \in Pair /\ x.s = server /\ x.out = out
  BY <1>0, PairMade
<1> HIDE DEF x
<1>3. Drained(x, y)
  BY <1>0, <1>2, DrainOK DEF Fine
<1> HIDE DEF y
<1>4. y.s \in Server /\ y.out \in Seq(Message) /\ y.s.misses < MissesToExit
  BY <1>3, PairParts DEF Drained, Fine
<1>5. y.s.read = n /\ y.s.title = server.title
  BY <1>2, <1>3 DEF Drained
<1>6. ASSUME NEW r \in AgentRecord \cup {None}, Before(r, server.read + 1), Fed(out, server.read, r, spool)
      PROVE  Fed(y.out, n, r, spool)
  BY <1>2, <1>3, <1>6 DEF Drained
<1>7. server.read = n => y.s = server /\ y.out = out
  BY <1>2, <1>3 DEF Drained
<1>8. server.read # n /\ spool[n].state = "Exited" =>
        y.s.bound = "none" /\ y.s.hold = TRUE /\ Covered(y.out, n)
  BY <1>0, <1>2, <1>3 DEF Drained
<1>9. sent \in 0 .. Len(y.out)
  <2>1. Len(out) <= Len(y.out) /\ Len(out) \in Nat /\ Len(y.out) \in Nat
    BY <1>0, <1>2, <1>3, <1>4 DEF Drained
  <2> QED BY <1>0, <2>1
<1> USE DEF hostVars
<1>10. WatchTypeOK'
  <2>1. late' \in BOOLEAN
    BY DEF TickDrains
  <2> QED BY <1>0, <1>1, <1>4, <1>5, <1>9, <2>1 DEF WatchInv, WatchTypeOK
<1>11. Flown' /\ EndsLast'
  BY <1>1, <1>5 DEF WatchInv, Flown, EndsLast, identify
<1>12. leftover => spool[n].state = "Exited"
  BY DEF WatchInv, EndsLast
<1>13. HoldInv'
  <2> SUFFICES ASSUME leftover, clean
               PROVE  y.s.bound = "none" /\ (y.s.hold \/ pane = "gone")
    BY <1>1 DEF HoldInv
  <2>1. CASE server.read = n
    BY <1>7, <2>1 DEF WatchInv, HoldInv
  <2>2. CASE server.read # n
    BY <1>8, <1>12, <2>2
  <2> QED BY <2>1, <2>2
<1>14. LastWord'
  <2> SUFFICES ASSUME leftover, clean PROVE Covered(y.out, n)
    BY <1>1 DEF LastWord, Covered
  <2>1. CASE server.read = n
    BY <1>7, <2>1 DEF WatchInv, LastWord
  <2>2. CASE server.read # n
    BY <1>8, <1>12, <2>2
  <2> QED BY <2>1, <2>2
<1>15. InSpool'
  <2>1. Fed(y.out, n, None, spool)
    BY <1>6 DEF WatchInv, InSpool, Before, OffOf
  <2> QED BY <1>1, <1>5, <2>1 DEF WatchInv, InSpool, Fed, Before, OffOf
<1>16. Queued'
  <2> SUFFICES ASSUME clean PROVE Fed(y.out, n, agent, spool) /\ Before(agent, n + 1)
    BY <1>1, <1>5 DEF Queued, Fed, Before, OffOf
  <2> QED BY <1>0, <1>6 DEF WatchInv, Queued, InSpool
<1>17. HoldHolds'
  BY <1>1 DEF WatchInv, HoldHolds
<1> QED BY <1>10, <1>11, <1>13, <1>14, <1>15, <1>16, <1>17 DEF WatchInv

\* The panes are listed: a listed pane keeps its hold, and only a list is said.
LEMMA ListedKeeps == ASSUME WatchInv, PanesListed PROVE WatchInv'
<1> DEFINE title == IF Listed(pane) THEN screen ELSE None
           m == PanesMsg(pane)
<1>0. /\ server \in Server /\ server.misses < MissesToExit /\ server.read \in Nat
      /\ spool \in Seq(HookEvent) /\ out \in Seq(Message) /\ sent \in 0 .. Len(out) /\ Len(out) \in Nat
  BY WatchTyped
<1>1. UNCHANGED <<hostVars, at, sent, agent, faults, clean>> /\ step' = "scrape"
  BY DEF PanesListed, Polls
<1>2. /\ server' = Poll(server, pane, title) /\ out' \in {out, Append(out, m)}
      /\ leftover' = (leftover /\ identify(title, screen))
  BY DEF PanesListed
<1>3. pane \in PaneLists /\ title \in Screens \cup {None}
  BY DEF WatchInv, WatchTypeOK, PaneLists
<1> HIDE DEF title
<1>4. /\ server' \in Server /\ server'.misses < MissesToExit /\ server'.read = server.read
      /\ server'.title = title
      /\ Listed(pane) => server'.bound = server.bound /\ server'.hold = server.hold
      /\ ~Listed(pane) => server'.bound = "none"
  BY <1>0, <1>2, <1>3, PollOK
<1>5. leftover' \in BOOLEAN /\ (leftover' => leftover /\ identify(title, screen))
  BY <1>2, Zenon
<1>6. m \in Message /\ m.source = "Panes"
  BY DEF PanesMsg, Message
<1> HIDE DEF m
<1>7. /\ out' \in Seq(Message) /\ Longer(out, out')
      /\ \A k : Covered(out, k) => Covered(out', k)
  <2>1. CASE out' = out
    <3>1. Longer(out, out)
      BY <1>0 DEF Longer
    <3> QED BY <1>0, <2>1, <3>1
  <2>2. CASE out' = Append(out, m)
    <3> DEFINE o == Append(out, m)
    <3>1. o \in Seq(Message) /\ Longer(out, o)
      BY <1>0, <1>6, LongerAppend
    <3>2. \A k : Covered(out, k) => Covered(o, k)
      BY <1>0, <1>6, CoveredAppend
    <3> HIDE DEF o
    <3>3. out' = o
      BY <2>2 DEF o
    <3> QED BY <3>1, <3>2, <3>3
  <2> QED BY <1>2, <2>1, <2>2
<1>8. sent \in 0 .. Len(out')
  <2>1. Len(out) <= Len(out') /\ Len(out') \in Nat
    BY <1>7 DEF Longer
  <2> QED BY <1>0, <2>1
<1> USE DEF hostVars
<1>9. WatchTypeOK'
  <2>1. late' \in BOOLEAN
    BY DEF PanesListed, WatchInv, WatchTypeOK
  <2> QED BY <1>1, <1>4, <1>5, <1>7, <1>8, <2>1 DEF WatchInv, WatchTypeOK
<1>10. Flown' /\ EndsLast'
  BY <1>1, <1>4, <1>5 DEF WatchInv, Flown, EndsLast, identify
<1>11. HoldInv'
  <2> SUFFICES ASSUME leftover, clean, server.read = Len(spool)
               PROVE  server'.bound = "none" /\ (server'.hold \/ pane = "gone")
    BY <1>1, <1>4, <1>5 DEF HoldInv
  <2>1. server.bound = "none" /\ (server.hold \/ pane = "gone") /\ pane # "new"
    BY DEF WatchInv, HoldInv, EndsLast
  <2>2. CASE Listed(pane)
    BY <1>4, <2>1, <2>2 DEF Listed
  <2>3. CASE ~Listed(pane)
    <3>1. pane = "gone"
      BY <2>1, <2>3 DEF Listed, WatchInv, WatchTypeOK
    <3> QED BY <1>4, <2>3, <3>1
  <2> QED BY <2>2, <2>3
<1>12. LastWord'
  <2> SUFFICES ASSUME leftover, clean, server.read = Len(spool) PROVE Covered(out', Len(spool))
    BY <1>1, <1>4, <1>5 DEF LastWord, Covered
  <2> QED BY <1>7 DEF WatchInv, LastWord
<1>13. ASSUME NEW r, Fed(out, server.read, r, spool) PROVE Fed(out', server.read, r, spool)
  BY <1>0, <1>7, <1>13, FedLonger
<1>14. InSpool'
  <2>1. Fed(out', server.read, None, spool)
    BY <1>13 DEF WatchInv, InSpool
  <2> QED BY <1>1, <1>4, <2>1 DEF WatchInv, InSpool, Fed, Before, OffOf
<1>15. Queued'
  <2> SUFFICES ASSUME clean PROVE Fed(out', server.read, agent, spool) /\ Before(agent, server.read + 1)
    BY <1>1, <1>4 DEF Queued, Fed, Before, OffOf
  <2> QED BY <1>13 DEF WatchInv, Queued
<1>16. HoldHolds'
  BY <1>1, <1>5 DEF WatchInv, HoldHolds
<1> QED BY <1>9, <1>10, <1>11, <1>12, <1>14, <1>15, <1>16 DEF WatchInv

\* The pane is dumped: a leftover whose end was read changes nothing, and what
\* else the screen says is said before the end is read.
LEMMA DumpKeeps == ASSUME WatchInv, Dumped PROVE WatchInv'
<1> DEFINE x == [s |-> server, out |-> out]
           y == ScrapePane(x, screen)
<1>0. /\ server \in Server /\ server.misses < MissesToExit /\ server.read \in Nat
      /\ out \in Seq(Message) /\ screen \in Screens /\ now \in Nat /\ at \in Nat
      /\ spool \in Seq(HookEvent)
  BY WatchTyped
<1>1. /\ UNCHANGED <<hostVars, agent, faults, clean, leftover, late>> /\ step' = "rest" /\ at' = 0
      /\ sent' = Len(out') /\ server' = y.s /\ out' = y.out /\ Listed(pane)
  BY DEF Dumped, Ends
<1>2. x \in Pair /\ x.s = server /\ x.out = out
  BY <1>0, PairMade
<1> HIDE DEF x
<1>3. /\ Scraped(x, y)
      /\ x.s.bound = "none" /\ x.s.hold /\ identify(x.s.title, screen) => y = x
  BY <1>0, <1>2, ScrapeOK DEF Fine
<1> HIDE DEF y
<1>4. y.s \in Server /\ y.out \in Seq(Message) /\ y.s.misses < MissesToExit
  BY <1>3, PairParts DEF Scraped, Fine
<1>5. y.s.read = server.read /\ y.s.title = server.title /\ Longer(out, y.out)
  BY <1>2, <1>3 DEF Scraped
<1>6. ASSUME leftover, clean, server.read = Len(spool) PROVE y.s = server /\ y.out = out
  <2>1. server.bound = "none" /\ server.hold /\ identify(server.title, screen)
    BY <1>1, <1>6 DEF WatchInv, HoldInv, EndsLast, Listed
  <2> QED BY <1>2, <1>3, <2>1
<1>7. sent' \in 0 .. Len(out')
  BY <1>1, <1>4
<1> USE DEF hostVars
<1>8. WatchTypeOK'
  BY <1>0, <1>1, <1>4, <1>5, <1>7 DEF WatchInv, WatchTypeOK
<1>9. Flown' /\ EndsLast'
  BY <1>1, <1>5 DEF WatchInv, Flown, EndsLast, identify
<1>10. HoldInv'
  BY <1>1, <1>5, <1>6 DEF WatchInv, HoldInv
<1>11. LastWord'
  <2> SUFFICES ASSUME leftover, clean, server.read = Len(spool) PROVE Covered(y.out, Len(spool))
    BY <1>1, <1>5 DEF LastWord, Covered
  <2> QED BY <1>6 DEF WatchInv, LastWord
<1>12. ASSUME NEW r, Fed(out, server.read, r, spool) PROVE Fed(y.out, server.read, r, spool)
  BY <1>0, <1>4, <1>5, <1>12, FedLonger
<1>13. InSpool'
  <2>1. Fed(y.out, server.read, None, spool)
    BY <1>12 DEF WatchInv, InSpool
  <2> QED BY <1>1, <1>5, <2>1 DEF WatchInv, InSpool, Fed, Before, OffOf
<1>14. Queued'
  <2> SUFFICES ASSUME clean PROVE Fed(y.out, server.read, agent, spool) /\ Before(agent, server.read + 1)
    BY <1>1, <1>5 DEF Queued, Fed, Before, OffOf
  <2> QED BY <1>12 DEF WatchInv, Queued
<1>15. HoldHolds'
  BY <1>1 DEF WatchInv, HoldHolds
<1> QED BY <1>8, <1>9, <1>10, <1>11, <1>13, <1>14, <1>15 DEF WatchInv

\* The app takes a message.  A scrape comes before the end, which the app then
\* does not know; a hook event that is the end sets Exited.
LEMMA TakeKeeps == ASSUME WatchInv, Take PROVE WatchInv'
<1> DEFINE m == Head(out)
           q == Applied(agent, m)
           n == Len(spool)
<1>0. /\ server \in Server /\ server.read \in Nat /\ server.read <= n /\ n \in Nat
      /\ out \in Seq(Message) /\ Len(out) \in Nat /\ sent \in 0 .. Len(out)
      /\ agent \in AgentRecord \cup {None} /\ now \in Nat
  BY WatchTyped
<1>1. /\ UNCHANGED <<hostVars, server, step, at, faults, clean, leftover, late>>
      /\ sent > 0 /\ sent' = sent - 1 /\ out' = Tail(out) /\ agent' = q
  BY DEF Take
<1>2. /\ out # <<>> /\ Len(out) > 0 /\ m = out[1] /\ m \in Message
      /\ Tail(out) \in Seq(Message) /\ Len(Tail(out)) = Len(out) - 1
  BY <1>0, <1>1
<1>3. AppliedFacts(agent, m, q)
  BY <1>0, <1>2, AppliedOK
<1> HIDE DEF q, m
<1>4. q \in AgentRecord \cup {None}
  BY <1>3 DEF AppliedFacts
<1>5. 1 \in 1 .. Len(out)
  BY <1>0, <1>2
<1>6. m.source = "Hook" => m.off \in 1 .. server.read /\ m.off \in Nat /\ m.state = spool[m.off].state
  BY <1>0, <1>2, <1>5 DEF WatchInv, InSpool, Fed
<1>7. OffOf(q) = OffOf(agent) \/ OffOf(q) \in 1 .. server.read
  BY <1>3, <1>6 DEF AppliedFacts
<1>8. Before(q, n + 1) /\ (clean => Before(q, server.read + 1))
  <2>1. Before(agent, n + 1) /\ (clean => Before(agent, server.read + 1))
    BY DEF WatchInv, InSpool, Queued
  <2>2. CASE OffOf(q) = OffOf(agent)
    BY <2>1, <2>2 DEF Before
  <2>3. CASE OffOf(q) \in 1 .. server.read
    BY <1>0, <2>3 DEF Before
  <2> QED BY <1>7, <2>2, <2>3
<1> USE DEF hostVars
<1>9. WatchTypeOK'
  <2>1. sent' \in 0 .. Len(out')
    BY <1>0, <1>1, <1>2
  <2> QED BY <1>1, <1>2, <1>4, <2>1 DEF WatchInv, WatchTypeOK
<1>10. Flown' /\ EndsLast' /\ HoldInv'
  BY <1>1 DEF WatchInv, Flown, EndsLast, HoldInv, identify
<1>11. InSpool'
  <2>1. Fed(Tail(out), server.read, None, spool)
    BY <1>0, <1>2, FedNoneTail DEF WatchInv, InSpool
  <2> QED BY <1>1, <1>8, <2>1 DEF InSpool, Fed, Before, OffOf
<1>12. Queued'
  <2> SUFFICES ASSUME clean PROVE Fed(Tail(out), server.read, q, spool) /\ Before(q, server.read + 1)
    BY <1>1 DEF Queued, Fed, Before, OffOf
  <2>1. Fed(out, server.read, agent, spool)
    BY DEF WatchInv, Queued
  <2> QED BY <1>0, <1>2, <1>3, <1>8, <2>1, FedTail DEF m
<1>13. LastWord'
  <2> SUFFICES ASSUME leftover, clean, server.read = n PROVE Covered(Tail(out), n)
    BY <1>1 DEF LastWord, Covered
  <2> QED BY <1>0, <1>2, CoveredTail DEF WatchInv, LastWord
<1>14. HoldHolds'
  <2> SUFFICES ASSUME leftover, clean, q # None, OffOf(q) = n PROVE q.state = "Exited"
    BY <1>1 DEF HoldHolds, OffOf
  <2>1. n # 0 /\ spool[n].state = "Exited"
    BY DEF WatchInv, EndsLast
  <2>2. Fed(out, server.read, agent, spool) /\ Before(agent, server.read + 1)
    BY DEF WatchInv, Queued
  <2>3. CASE m.source = "Hook"
    <3>1. Before(agent, m.off)
      BY <1>2, <1>5, <2>2, <2>3 DEF Fed
    <3>2. OffOf(q) = m.off /\ q.state = m.state
      BY <1>3, <1>6, <2>3, <3>1 DEF AppliedFacts
    <3> QED BY <1>6, <2>1, <2>3, <3>2
  <2>4. ASSUME m.source # "Hook"
        PROVE  agent # None /\ agent.hookOff = n /\ agent.state = "Exited"
    <3>1. OffOf(agent) = n
      BY <1>3, <2>4 DEF AppliedFacts
    <3>2. agent # None /\ agent.hookOff = n
      BY <1>0, <3>1, NoneApart DEF OffOf
    <3> QED BY <3>2 DEF WatchInv, HoldHolds
  <2>5. CASE m.source = "Panes"
    <3>1. agent # None /\ agent.state = "Exited"
      BY <2>4, <2>5
    <3> QED BY <1>3, <2>5, <3>1 DEF AppliedFacts
  <2>6. CASE m.source = "Scrape"
    <3>1. OffOf(agent) = n
      BY <2>4, <2>6 DEF OffOf
    <3>2. n < server.read + 1
      BY <1>0, <2>2, <3>1, NoneApart DEF Before
    <3>3. Covered(out, n)
      BY <1>0, <3>2 DEF WatchInv, LastWord
    <3>4. PICK i \in 1 .. Len(out) : out[i].source = "Hook" /\ out[i].off = n
      BY <1>2, <1>5, <2>6, <3>3 DEF Covered
    <3>5. Before(agent, n)
      BY <2>2, <3>4 DEF Fed
    <3> QED BY <1>0, <3>1, <3>5, NoneApart DEF Before
  <2>7. m.source \in {"Hook", "Scrape", "Panes"}
    BY <1>2 DEF Message, AgentEvent
  <2> QED BY <2>3, <2>5, <2>6, <2>7
<1> QED BY <1>9, <1>10, <1>11, <1>12, <1>13, <1>14 DEF WatchInv

\* serve begins anew: nothing is on its way, and the hold is lost.
LEMMA RestartKeeps == ASSUME WatchInv, NEW ack \in Acks, Restart(ack) PROVE WatchInv'
<1>0. /\ spool \in Seq(HookEvent) /\ Len(spool) \in Nat /\ agent \in AgentRecord \cup {None}
  BY WatchTyped
<1>1. /\ UNCHANGED <<hostVars, agent, leftover>> /\ Fault /\ server' = NewServer(ack)
      /\ step' = "rest" /\ at' = 0 /\ out' = <<>> /\ sent' = 0
  BY DEF Restart
<1>2. clean' \in BOOLEAN /\ ~clean' /\ late' \in BOOLEAN
  BY DEF Restart
<1>3. ack \in Nat /\ ack <= Len(spool)
  <2>1. CASE OffOf(agent) = None
    BY <1>0, <2>1 DEF Acks, OffOf
  <2>2. CASE OffOf(agent) # None
    <3>1. agent # None /\ agent.hookOff \in Nat /\ agent.hookOff < Len(spool) + 1
      BY <1>0, <2>2 DEF OffOf, AgentRecord, WatchInv, InSpool, Before
    <3>2. ack \in 0 .. agent.hookOff
      BY <2>2, <3>1 DEF Acks, OffOf
    <3> QED BY <1>0, <3>1, <3>2
  <2> QED BY <2>1, <2>2
<1>4. server' \in Server /\ server'.read = ack /\ server'.misses = 0
  BY <1>1, <1>3, NewServerOK
<1>5. faults' \in 0 .. MaxFaults
  BY <1>1, FaultsType
<1>6. out' \in Seq(Message) /\ Fed(out', ack, None, spool)
  BY <1>1, EmptyQueue
<1>7. Len(out') = 0 /\ sent' \in 0 .. Len(out') /\ at' \in 0 .. now
  BY <1>1, WatchTyped
<1> USE DEF hostVars
<1>8. WatchTypeOK'
  BY <1>1, <1>2, <1>3, <1>4, <1>5, <1>6, <1>7, ZeroMisses DEF WatchInv, WatchTypeOK
<1>9. Flown' /\ EndsLast'
  BY <1>1, <1>2 DEF WatchInv, Flown, EndsLast
<1>10. HoldInv' /\ Queued' /\ LastWord' /\ HoldHolds'
  BY <1>2 DEF HoldInv, Queued, LastWord, HoldHolds
<1>11. InSpool'
  BY <1>1, <1>4, <1>6 DEF WatchInv, InSpool, Fed, Before, OffOf
<1> QED BY <1>8, <1>9, <1>10, <1>11 DEF WatchInv

\* Every step keeps the invariant.
LEMMA WatchKeeps == WatchInv /\ [WatchNext]_watchVars => WatchInv'
<1> SUFFICES ASSUME WatchInv, [WatchNext]_watchVars PROVE WatchInv'
  OBVIOUS
<1>1. CASE Clock \/ PaneChanges
  BY <1>1, HostKeeps
<1>2. CASE \E scr \in Screens : ScreenChanges(scr)
  BY <1>2, ScreenKeeps
<1>3. CASE \E s \in HookStates : HookStarts(s)
  BY <1>3, HookStartsKeeps
<1>4. CASE \E h \in flying : HookEnds(h)
  BY <1>4, HookEndsKeeps
<1>5. CASE Serves
  <2>1. CASE DrainFails \/ NoPoll \/ SessionsFail \/ NotDumped
    BY <2>1, IdleKeeps
  <2> QED BY <1>5, <2>1, DrainKeeps, PanesFailKeeps, ListedKeeps, DumpKeeps DEF Serves
<1>6. CASE Take
  BY <1>6, TakeKeeps
<1>7. CASE \E ack \in Acks : Restart(ack)
  BY <1>7, RestartKeeps
<1>8. CASE UNCHANGED watchVars
  <2>1. UNCHANGED <<hostVars, server, step, at, out, sent, agent, faults, clean, leftover, late>>
    BY <1>8 DEF watchVars
  <2> QED BY <2>1, StillKeeps, WatchTyped DEF WatchInv, WatchTypeOK
<1> QED BY <1>1, <1>2, <1>3, <1>4, <1>5, <1>6, <1>7, <1>8 DEF WatchNext

\* The invariant always holds.
LEMMA WatchInvHolds == WatchSpec => []WatchInv
BY WatchStart, WatchKeeps, PTL DEF WatchSpec

\* Every part of the state keeps its type: serve reads no further than the
\* spool goes, also after a restart, and a binding ends after MISSES_TO_EXIT
\* misses (drain_spool, scrape_panes).
THEOREM WatchTypes == WatchSpec => []WatchTypeOK
<1>1. WatchInv => WatchTypeOK
  BY DEF WatchInv
<1> QED BY <1>1, WatchInvHolds, PTL

\* An agent whose reported end the app knows stays ended while only its title
\* or its last screen is left, whatever serve listed, dumped or said before it
\* read of the end, until the hold is lost with serve or a failed listing
\* (exit_hold in drain_spool, poll_panes and scrape_panes).
THEOREM HoldKept == WatchSpec => []HoldHolds
<1>1. WatchInv => HoldHolds
  BY DEF WatchInv
<1> QED BY <1>1, WatchInvHolds, PTL

-----------------------------------------------------------------------------
(* Watch: the end of a pane.                                               *)

\* The app has been told of the pane's end, or the last message on its way says so.
ToldOf(q, r) ==
  IF Len(q) = 0 THEN r = None \/ r.state = "Exited"
  ELSE q[Len(q)].source = "Panes" /\ ~q[Len(q)].live

EndTold == Ended(server.panes) /\ ~late => ToldOf(out, agent)

\* A list without the pane running ends the agent.
LEMMA ListEnds ==
  ASSUME NEW r \in AgentRecord \cup {None}, NEW m, m.source = "Panes", ~m.live
  PROVE  Applied(r, m) = None \/ Applied(r, m).state = "Exited"
<1>1. CASE r = None \/ r.state = "Exited"
  BY <1>1 DEF Applied
<1>2. CASE ~(r = None \/ r.state = "Exited")
  <2>1. Applied(r, m) = [r EXCEPT !.state = "Exited", !.since = now, !.acknowledged = TRUE]
    BY <1>2 DEF Applied, pane_gone
  <2> QED BY <1>2, <2>1 DEF AgentRecord
<1> QED BY <1>1, <1>2

\* Steps that change neither the list nor the messages.
LEMMA EndStill ==
  ASSUME EndTold, UNCHANGED <<out, agent, late>>, Ended(server'.panes) => Ended(server.panes)
  PROVE  EndTold'
BY DEF EndTold, ToldOf

\* Only a list that shows the pane running lets serve scrape it, and a list that
\* differs from the last one is the last message.
LEMMA EndKeeps == WatchInv /\ EndTold /\ [WatchNext]_watchVars => EndTold'
<1> SUFFICES ASSUME WatchInv, EndTold, [WatchNext]_watchVars PROVE EndTold'
  OBVIOUS
<1>0. /\ server \in Server /\ server.read \in Nat /\ server.read <= Len(spool)
      /\ server.misses < MissesToExit /\ server.title \in Screens \cup {None}
      /\ spool \in Seq(HookEvent) /\ out \in Seq(Message) /\ Len(out) \in Nat
      /\ sent \in 0 .. Len(out) /\ agent \in AgentRecord \cup {None} /\ screen \in Screens
      /\ at \in Nat /\ Len(spool) \in Nat
  BY WatchTyped
<1>1. CASE \/ Clock \/ PaneChanges \/ DrainFails \/ NoPoll \/ NotDumped \/ UNCHANGED watchVars
           \/ \E scr \in Screens : ScreenChanges(scr)
           \/ \E s \in HookStates : HookStarts(s)
           \/ \E h \in flying : HookEnds(h)
  <2>1. UNCHANGED <<out, agent, late, server>>
    BY <1>1 DEF Clock, PaneChanges, DrainFails, NoPoll, NotDumped, watchVars, ScreenChanges,
                HookStarts, HookEnds, Polls, Ends
  <2> QED BY <2>1, EndStill
<1>2. CASE SessionsFail
  <2>1. UNCHANGED <<out, agent, late>>
    BY <1>2 DEF SessionsFail, Polls
  <2>2. server'.panes \in {"unlisted", server.panes}
    BY <1>0, <1>2 DEF SessionsFail, Server
  <2>3. Ended(server'.panes) => Ended(server.panes)
    BY <2>2 DEF Ended
  <2> QED BY <2>1, <2>3, EndStill
<1>3. CASE PanesFail
  <2> DEFINE p == IF server.panes = "none" THEN "unlisted" ELSE server.panes
             ti == server.title
  <2>1. UNCHANGED <<out, agent, late>> /\ server' = Poll(server, p, ti)
    BY <1>3 DEF PanesFail, Polls
  <2>2. p \in PaneLists /\ (Ended(p) => Ended(server.panes)) /\ ti \in Screens \cup {None}
    BY <1>0, ServerParts DEF PaneLists, Ended
  <2> HIDE DEF p, ti
  <2>3. server'.panes = p
    BY <1>0, <2>1, <2>2, PollOK
  <2> QED BY <2>1, <2>2, <2>3, EndStill
<1>4. CASE PanesListed
  <2> DEFINE title == IF Listed(pane) THEN screen ELSE None
             m == PanesMsg(pane)
  <2>1. /\ UNCHANGED agent /\ server' = Poll(server, pane, title)
        /\ \/ server.panes = pane /\ UNCHANGED <<out, late>>
           \/ out' = Append(out, m)
    BY <1>4 DEF PanesListed, Polls
  <2>2. pane \in PaneLists /\ title \in Screens \cup {None}
    BY DEF WatchInv, WatchTypeOK, PaneLists
  <2> HIDE DEF title
  <2>3. server'.panes = pane
    BY <1>0, <2>1, <2>2, PollOK
  <2>4. m \in Message /\ m.source = "Panes" /\ (Ended(pane) => ~m.live)
    BY DEF PanesMsg, Message, Ended
  <2> HIDE DEF m
  <2>5. CASE server.panes = pane /\ UNCHANGED <<out, late>>
    BY <2>1, <2>3, <2>5, EndStill
  <2>6. CASE out' = Append(out, m)
    <3> DEFINE q == Append(out, m)
    <3>0. Len(q) # 0 /\ q[Len(q)] = m
      BY <1>0, <2>4
    <3> HIDE DEF q
    <3>1. Len(out') # 0 /\ out'[Len(out')] = m
      BY <2>6, <3>0 DEF q
    <3> QED BY <2>3, <2>4, <3>1 DEF EndTold, ToldOf
  <2> QED BY <2>1, <2>5, <2>6
<1>5. CASE TickDrains
  <2> DEFINE x == [s |-> server, out |-> out]
             y == Drain(x)
  <2>1. /\ UNCHANGED <<spool, agent>> /\ server' = y.s /\ out' = y.out
        /\ late' = (late \/ (Ended(server.panes) /\ server.read < Len(spool)))
    BY <1>5 DEF TickDrains, hostVars
  <2>2. x \in Pair /\ x.s = server /\ x.out = out
    BY <1>0, PairMade
  <2> HIDE DEF x
  <2>3. Drained(x, y)
    BY <1>0, <2>2, DrainOK DEF Fine
  <2> HIDE DEF y
  <2>4. server'.panes = server.panes /\ (server.read = Len(spool) => out' = out)
    BY <2>1, <2>2, <2>3 DEF Drained
  <2>5. ASSUME Ended(server.panes), ~late' PROVE ~late /\ server.read = Len(spool)
    <3>1. ~late /\ ~(server.read < Len(spool))
      BY <2>1, <2>5, Zenon
    <3> QED BY <1>0, <3>1
  <2> SUFFICES ASSUME Ended(server.panes), ~late' PROVE ToldOf(out, agent) /\ out' = out
    BY <2>1, <2>4 DEF EndTold, ToldOf
  <2> QED BY <2>4, <2>5 DEF EndTold
<1>6. CASE Dumped
  <2> DEFINE x == [s |-> server, out |-> out]
             y == ScrapePane(x, screen)
  <2>1. server.panes = "live" /\ server' = y.s
    BY <1>6 DEF Dumped
  <2>2. x \in Pair /\ x.s = server
    BY <1>0, PairMade
  <2> HIDE DEF x
  <2>3. Scraped(x, y)
    BY <1>0, <2>2, ScrapeOK DEF Fine
  <2> HIDE DEF y
  <2>4. server'.panes = "live"
    BY <2>1, <2>2, <2>3 DEF Scraped
  <2> QED BY <2>4 DEF EndTold, Ended
<1>7. CASE Take
  <2>1. /\ UNCHANGED <<server, late>> /\ sent > 0
        /\ out' = Tail(out) /\ agent' = Applied(agent, Head(out))
    BY <1>7 DEF Take
  <2>2. Len(out) > 0 /\ Head(out) = out[1] /\ Len(out') = Len(out) - 1
    BY <1>0, <2>1
  <2> SUFFICES ASSUME Ended(server.panes), ~late PROVE ToldOf(Tail(out), Applied(agent, Head(out)))
    BY <2>1 DEF EndTold, ToldOf
  <2>3. out[Len(out)].source = "Panes" /\ ~out[Len(out)].live
    BY <2>2 DEF EndTold, ToldOf
  <2>4. CASE Len(out) = 1
    <3>1. Applied(agent, Head(out)) = None \/ Applied(agent, Head(out)).state = "Exited"
      <4> DEFINE m == Head(out)
      <4>1. m.source = "Panes" /\ ~m.live
        BY <2>2, <2>3, <2>4
      <4> HIDE DEF m
      <4>2. Applied(agent, m) = None \/ Applied(agent, m).state = "Exited"
        BY <1>0, <4>1, ListEnds
      <4> QED BY <4>2 DEF m
    <3>2. Len(Tail(out)) = 0
      BY <2>1, <2>2, <2>4
    <3> QED BY <3>1, <3>2 DEF ToldOf
  <2>5. CASE Len(out) # 1
    <3>1. Len(Tail(out)) # 0 /\ Tail(out)[Len(Tail(out))] = out[Len(out)]
      <4>1. Len(Tail(out)) = Len(out) - 1 /\ \A i \in 1 .. Len(out) - 1 : Tail(out)[i] = out[i + 1]
        BY <1>0, <2>2
      <4>2. Len(out) - 1 \in 1 .. Len(out) - 1 /\ Len(out) - 1 # 0 /\ Len(out) - 1 + 1 = Len(out)
        BY <1>0, <2>2, <2>5
      <4> QED BY <4>1, <4>2
    <3> QED BY <2>3, <3>1 DEF ToldOf
  <2> QED BY <2>4, <2>5
<1>8. CASE \E ack \in Acks : Restart(ack)
  <2>1. PICK ack \in Acks : server' = NewServer(ack)
    BY <1>8 DEF Restart
  <2>2. server'.panes = "none"
    BY <2>1 DEF NewServer
  <2> QED BY <2>2 DEF EndTold, Ended
<1> QED BY <1>1, <1>2, <1>3, <1>4, <1>5, <1>6, <1>7, <1>8 DEF WatchNext, Serves

\* An agent is shown as exited once serve's list shows its pane's end and the app
\* has taken all messages, whatever hooks, listings, scrapes and restarts came
\* before, unless serve read a hook event after that list (poll_panes sends a list
\* only when it differs from the last one).
THEOREM GoneAreExited == WatchSpec => []GoneIsExited
<1>1. WatchInit => EndTold
  <2> SUFFICES ASSUME WatchInit PROVE ~Ended(server.panes)
    BY DEF EndTold
  <2> QED BY DEF WatchInit, NewServer, Ended
<1>2. EndTold => GoneIsExited
  BY DEF EndTold, ToldOf, GoneIsExited
<1> QED BY <1>1, <1>2, EndKeeps, WatchInvHolds, PTL DEF WatchSpec
=============================================================================
