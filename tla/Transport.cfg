CONSTANTS
    Conn = {c1}
    Sharding = {TRUE, FALSE}
    MaxBuffer = 1
    MaxFrames = 2
    MaxInbound = 2
SPECIFICATION FairSpec
INVARIANTS
    FramesKeepOrder
    CoreMatchesSessions
    NoStaleRemote
PROPERTIES
    BoxDrains
CHECK_DEADLOCK TRUE
