----------------------------- MODULE MCSessions -----------------------------
(* Instances of Sessions for TLC.                                           *)
EXTENDS Sessions, TLC

CONSTANTS c1, c2, k1, k2

SomeLists == {<<"a", "b">>}
ConnSymmetry == Permutations(Conn) \cup Permutations(Caller)
=============================================================================
