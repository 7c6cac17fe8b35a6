------------------------------ MODULE MCTerms ------------------------------
(* Instances of Terms for TLC: two Opens, two terminals, two failures.     *)
EXTENDS Terms
=============================================================================
