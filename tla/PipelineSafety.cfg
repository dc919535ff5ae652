SPECIFICATION FairSpec
CONSTANTS
  r1 = r1
  r2 = r2
  r3 = r3
  Request = {r1, r2}
  Command <- AllOps
  NoReq = NoReq
  NoImage = NoImage
  Lead = 1
  MaxLead = 2
  HashEvery = 0
  CheckpointEvery = 0
  QueueMax = 2
  MaxTick = 4
  MaxStop = 2
INVARIANTS
    PromisedIsKept
    ReceiptIsOwn
    VerdictMeansExecuted
PROPERTIES
    RegistryMovesForward
    PromiseIsExecuted
