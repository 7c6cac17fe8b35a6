------------------------------- MODULE Cursor -------------------------------
(***************************************************************************)
(* Positions in the spool (crates/mai-probe/src/spool.rs).  The code packs *)
(* a position into one number, (day << 40) | end_offset; as long as a day  *)
(* file stays below 2^40 bytes, comparing the numbers compares the days    *)
(* and then the offsets, and that order is all the code uses.  Offsets are *)
(* counted in lines instead of bytes: off is the number of lines up to and *)
(* including the record.                                                   *)
(***************************************************************************)
EXTENDS Naturals

Cursor == [day : Nat, off : Nat]

\* Before everything: the cursor 0 of load_ack when nothing is stored.
Origin == [day |-> 0, off |-> 0]

make_cursor(day, off) == [day |-> day, off |-> off]

Before(a, b) == a.day < b.day \/ (a.day = b.day /\ a.off < b.off)
AtMost(a, b) == a.day < b.day \/ (a.day = b.day /\ a.off <= b.off)
=============================================================================
