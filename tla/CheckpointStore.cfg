SPECIFICATION Spec
CONSTANTS
    MaxGen = 2
    MaxLsn = 3
    c1 = c1
    Child = {c1}
    Keep = 1
    PruneWal = TRUE
    ForkWhileLive = FALSE
    IoFails = 2
    Rots = 1
    Stops = 2
INVARIANTS
    ReportedIsKept
    NothingSkipped
PROPERTIES
    BaseStays
\* The last publication and the last stop may be the end of a behaviour.
CHECK_DEADLOCK FALSE
