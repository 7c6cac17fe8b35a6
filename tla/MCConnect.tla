----------------------------- MODULE MCConnect -----------------------------
(* Instance of Connect: a jump host and a host, one key algorithm.         *)
EXTENDS Connect

MCRoute == <<"jump", "host">>
MCKnownFiles == <<"user">>

Key1 == [alg |-> "ed", id |-> 1]
Holding(line, ended) == [there |-> TRUE, readable |-> TRUE, lines |-> <<line>>, ended |-> ended]

\* The user's file revokes a key or is not there; the app's is not there,
\* cannot be read, or was edited and does not end with a newline.
MCFirstFiles ==
  [user |-> {Missing,
             Holding([yes |-> {"jump"}, no |-> {}, marker |-> "revoked", key |-> Key1], TRUE)},
   app  |-> {Missing,
             [Missing EXCEPT !.there = TRUE],
             Holding([yes |-> Names, no |-> {"jump"}, marker |-> "none", key |-> Key1], FALSE)}]
=============================================================================
