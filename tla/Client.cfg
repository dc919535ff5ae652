SPECIFICATION Spec
CONSTANTS
    Wid = {w1, w2, w3}
    Target = w1
    Kinds = {"reference", "thin", "viewer"}
    Delay = 1
    MaxFrames = 3
    MaxTick = 3
    MaxEdits = 2
    HeartbeatTicks = 2
    Changing = {w1, w2}
    MaxRequests = 1
    MaxPauses = 1
    MaxString = 1
    MaxProperties = 1
    MaxRelations = 1
    MaxEntities = 2
    MaxFrame = 7
    MaxDepth = 6
    MaxTables = 11
INVARIANTS
    OnlyTheWholeIsRefused
    PlaybackFollows
    ExitTellsVerdict
    OneOperationEach
\* A client that has ended leaves nothing to do.
CHECK_DEADLOCK FALSE
