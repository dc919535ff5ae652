------------------------- MODULE MCCommandPipeline -------------------------
(* Instances of CommandPipeline for TLC: one request creates the object,    *)
(* the others change it, so that the order of execution decides verdicts.   *)
EXTENDS CommandPipeline

CONSTANTS r1, r2, r3

create  == [op |-> "create", expects |-> 0, hint |-> 0]
set     == [op |-> "set", expects |-> 0, hint |-> 0]
guarded == [op |-> "set", expects |-> 1, hint |-> 0]
destroy == [op |-> "destroy", expects |-> 0, hint |-> 0]

CreateAndSet == {create, set}
AllOps       == {create, guarded, destroy}
Delayed      == {create, [set EXCEPT !.hint = 3]}
=============================================================================
