\* The runtime's ticks, checkpoints, crashes and restarts.
SPECIFICATION RuntimeSpec
CONSTANTS
    Wid = {w1, w2}
    W1 = w1
    W2 = w2
    Seed = w2
    Activatable = {w1}
    Lasting = {w1}
    Text = {1}
    TextMod = 2
    Programs = {{"seed","decisions"}, {"events","decisions"}}
    MaxLead = 2
    GenMax = 3
    MaxTick = 3
    MaxCmds = 2
    MaxRevision = 2
    MaxActive = 2
INVARIANTS
    StateFollowsFromLog
    RestartSucceeds
    HandleNamesItsEntity
\* The bound on ticks ends every behaviour.
CHECK_DEADLOCK FALSE
