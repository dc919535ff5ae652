\* Two workers and the caller; jobs with fewer and with as many indices as threads.
SPECIFICATION FairPool
CONSTANTS
    w1 = w1
    w2 = w2
    Worker = {w1, w2}
    Counts = {1, 3}
    MaxRuns = 3
INVARIANTS
    EachIndexOnce
    Barrier
PROPERTIES
    RunReturns
\* After the destructor, or after the last call of run(), nothing is left to do.
CHECK_DEADLOCK FALSE
