------------------------------- MODULE MCAuth -------------------------------
(* Instance of Auth: one key file in every form, whose key the agent holds *)
(* beside another.                                                         *)
EXTENDS Auth

MCFiles == <<"f">>
MCKeyOf == [f |-> "k1"]
MCKinds ==
  [f |-> {k \in FileKind : IF k.private = "encrypted" THEN k.public \/ k.respelled ELSE ~k.respelled}]
MCAgentKeys == <<"k1", "k2">>
MCRemaining == {Methods, {"keyboard-interactive"}}
=============================================================================
