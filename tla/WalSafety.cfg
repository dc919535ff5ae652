\* Three calls, one relaxed; three LSNs, so that the last one is reached.
SPECIFICATION FairSpec
CONSTANTS
    t1 = t1
    t2 = t2
    t3 = t3
    t4 = t4
    Ticket = {t1, t2, t3}
    Relaxed <- OneRelaxed
    AllowRelaxed = TRUE
    Large = {}
    QueueMax = 2
    BatchMax = 2
    SegmentMax = 2
    MaxLsn = 3
    LinkOnDataSync = TRUE
    TruncateMayFail = FALSE
    MaxCrash = 2
INVARIANTS DurableStays LsnsFollowAdmission RestartAccepts
PROPERTIES ImplementsDurableLog EveryTicketEnds
\* Every call may have been answered and the process be down for good.
CHECK_DEADLOCK FALSE
