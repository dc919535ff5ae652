\* The world's storage, its frozen snapshots and the projection's dirty scan.
SPECIFICATION Spec
CONSTANTS
    Wid = {w1, w2}
    Value = {a, gone}
    Retired = gone
    Place = {p, q}
    Addr = {1, 2, 3, 4, 5}
    NoAddr = 0
    GenMax = 2
    Silent = FALSE
    MaxVersion = 2
    MaxRev = 2
    MaxFrozen = 1
    MaxCount = 2
INVARIANTS
    FrozenStaysFrozen
PROPERTIES
    PointersAreLive
    ScanSeesTheWorld
SYMMETRY Symmetry
\* The bounds on versions and revisions end every behaviour.
CHECK_DEADLOCK FALSE
