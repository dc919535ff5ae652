---------------------------- MODULE MCWorldStore ----------------------------
(* The instance checked: two objects, interchangeable.                     *)
EXTENDS WorldStore, TLC

Symmetry == Permutations(Wid)
=============================================================================
