------------------------------ MODULE TermOwner ------------------------------
(***************************************************************************)
(* What the owner of a terminal may rely on (the TermEvent stream of       *)
(* term.rs as `manager::Terminal::recv` hands it out), stated without the  *)
(* task that produces it: a terminal is attached, may be detached and      *)
(* attached again any number of times, and is finished once; output only   *)
(* ever comes from its latest attachment, and never while it is detached   *)
(* or after it finished.                                                   *)
(***************************************************************************)
EXTENDS Naturals

CONSTANT Ids            \* terminal ids

VARIABLES
  view,                 \* what the owner heard last, per terminal
  gen,                  \* number of re-attachments so far, per terminal
  heard                 \* 1 + the attachment the last output came from, or 0

vars == <<view, gen, heard>>

Open == {i \in Ids : view[i] \in {"attached", "detached"}}

Init ==
  /\ view = [i \in Ids |-> "none"]
  /\ gen = [i \in Ids |-> 0]
  /\ heard = [i \in Ids |-> 0]

\* The terminal opens: its first event is Attached.
Begin(i) ==
  /\ view[i] = "none"
  /\ view' = [view EXCEPT ![i] = "attached"]
  /\ UNCHANGED <<gen, heard>>

\* Attached again, over a new PTY.
Reattach(i) ==
  /\ view[i] = "detached"
  /\ view' = [view EXCEPT ![i] = "attached"]
  /\ gen' = [gen EXCEPT ![i] = @ + 1]
  /\ UNCHANGED heard

\* One terminal, or all the open ones at once, are told they are detached.
Detach(S) ==
  /\ S # {}
  /\ S \subseteq Open
  /\ view' = [i \in Ids |-> IF i \in S THEN "detached" ELSE view[i]]
  /\ UNCHANGED <<gen, heard>>

\* An attached terminal finishes: `zellij attach` exited, or was given up on.
Exit(i) ==
  /\ view[i] = "attached"
  /\ view' = [view EXCEPT ![i] = "exited"]
  /\ UNCHANGED <<gen, heard>>

\* The owner drops the terminal, or its host is removed.
Close(S) ==
  /\ S # {}
  /\ S \subseteq Open
  /\ view' = [i \in Ids |-> IF i \in S THEN "closed" ELSE view[i]]
  /\ UNCHANGED <<gen, heard>>

\* Output reaches the owner: it is output of the latest attachment.
Output(i) ==
  /\ view[i] = "attached"
  /\ heard' = [heard EXCEPT ![i] = gen[i] + 1]
  /\ UNCHANGED <<view, gen>>

Next ==
  \/ \E i \in Ids : Begin(i) \/ Reattach(i) \/ Exit(i) \/ Output(i)
  \/ \E S \in SUBSET Ids : Detach(S) \/ Close(S)

Spec == Init /\ [][Next]_vars
=============================================================================
