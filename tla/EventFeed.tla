----------------------------- MODULE EventFeed -----------------------------
(***************************************************************************)
(* What the spool, the probe, the link and the tracker promise together:   *)
(* the monitor takes the hook events of every pane once each and in order. *)
(* An event is passed over only if it is lost, because its host was        *)
(* removed or because the spool file was deleted as too old; and an event  *)
(* that is written late, into yesterday's file, is written before anything *)
(* newer of its pane is taken.                                             *)
(***************************************************************************)
EXTENDS Cursor

VARIABLES
  written,      \* the events in the spool: [at, pane]
  taken,        \* the events the tracker took
  times,        \* how often it took one
  lost          \* the events nobody will take, unless it happened before

vars == <<written, taken, times, lost>>

Init == written = {} /\ taken = {} /\ times = 0 /\ lost = {}

\* Everything taken of e's pane is older than e.
Newest(e) == \A t \in taken : t.pane = e.pane => Before(t.at, e.at)

Write(e) ==
  /\ e \notin written
  /\ Newest(e)
  /\ written' = written \cup {e}
  /\ UNCHANGED <<taken, times, lost>>

Take(e) ==
  /\ e \in written
  /\ Newest(e)
  /\ \A o \in written : o.pane = e.pane /\ Before(o.at, e.at) => o \in taken \cup lost
  /\ taken' = taken \cup {e}
  /\ times' = times + 1
  /\ UNCHANGED <<written, lost>>

Lose(S) ==
  /\ lost' = lost \cup S
  /\ UNCHANGED <<written, taken, times>>

Next ==
  \/ \E e \in written' : Write(e)
  \/ \E e \in written : Take(e)
  \/ \E S \in SUBSET written : Lose(S)

Spec == Init /\ [][Next]_vars
=============================================================================
