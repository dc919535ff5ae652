\* Three entities and two FIDs per epoch, one entity throttled, a queue of two small frames.
SPECIFICATION Spec
CONSTANTS
    Wid = {1, 2, 3}
    Hash = {1, 2}
    Gap <- GapDef
    MaxFids = 2
    MaxUnacked = 2
    MaxUpdates = 2
    KeyframeInterval = 4
    Phase = 1
    MaxQueue = 3
    AckTimeout = 2
    MaxSnap = 4
    MaxChanges = 2
    MaxWire = 1
INVARIANTS
    KeyframeHeals
    ReplicaFidsAgree
    DropIsRepaired
    ViewIsAckedPlusFrame
\* The bound on ticks and a disconnect end every behaviour.
CHECK_DEADLOCK FALSE
