---- MODULE MCWalWriter ----
(***************************************************************************)
(* Model checking of WalWriter on small instances.                         *)
(***************************************************************************)
EXTENDS WalWriter, TLC

CONSTANTS t1, t2, t3, t4

OneRelaxed == {t3}
OneLarge   == {t1}

(* Calls of the same durability are interchangeable.                        *)
DurableSymmetry == Permutations(Ticket \ Relaxed)
====
