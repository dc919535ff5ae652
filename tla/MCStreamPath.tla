---------------------------- MODULE MCStreamPath ----------------------------
(* Instance of StreamPath for TLC: entity 2 is of the slow class.          *)
EXTENDS StreamPath
GapDef == [w \in Wid |-> IF w = 2 THEN 2 ELSE 0]
=============================================================================
