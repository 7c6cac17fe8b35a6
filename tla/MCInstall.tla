----------------------------- MODULE MCInstall -----------------------------
(* Instance of Install: one event of ours, one that is not, one user hook. *)
EXTENDS Install

Grouped(hooks) == [hooked |-> TRUE, hooks |-> hooks]
NoArray == [hooked |-> FALSE, hooks |-> <<>>]
Listed(groups) == [kind |-> "list", groups |-> groups]

With(stop, other) ==
  Of([shape |-> "hooks", lists |-> [stop |-> stop, other |-> other], rest |-> {}])

\* Nothing yet; what an earlier version left, alone and in a group with a
\* user's hook; and files that are not as they should be.
MCFirstFiles ==
  {Missing, Of(Empty), [Missing EXCEPT !.text = "unreadable"], [Missing EXCEPT !.text = "bad"],
   Of([Empty EXCEPT !.shape = "other"]), Of([Empty EXCEPT !.shape = "bad hooks"]),
   With([kind |-> "bad", groups |-> <<>>], Absent),
   With(Listed(<<Grouped(<<"old", "user">>), Grouped(<<"old">>)>>), Listed(<<Grouped(<<"old">>)>>)),
   With(Listed(<<NoArray, Grouped(<<>>), Grouped(<<"user">>)>>), Listed(<<>>)),
   With(Listed(<<Grouped(<<"ours">>)>>), [kind |-> "bad", groups |-> <<>>])}
=============================================================================
