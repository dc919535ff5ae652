SPECIFICATION Spec
CONSTANTS
  c1 = c1
  c2 = c2
  k1 = k1
  k2 = k2
  Caller = {k1, k2}
  Conn = {c1, c2}
  Key = {"a", "b"}
  Writable = {"a"}
  KeyLists <- SomeLists
  Seqn = {1, 2}
  Hints = {0}
  Leases = {4}
  MaxSessions = 2
  TicketTtl = 0
  Rate = 1
  Lead = 1
  MaxLead = 2
  AckTimeout = 1
  HeartbeatEvery = 1
  MaxReliable = 1
  MaxCalls = 4
  MaxOpened = 2
  MaxIssued = 2
  MaxTick = 4
  MaxNow = 1
INVARIANTS
    NothingOutlivesClose
    EnqueuedOnce
    ReceiptsReachStreams
PROPERTIES
    GrantsStand
SYMMETRY ConnSymmetry
\* The bounds on calls and ticks end every behaviour.
CHECK_DEADLOCK FALSE
