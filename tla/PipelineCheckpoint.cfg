SPECIFICATION Spec
CONSTANTS
  r1 = r1
  r2 = r2
  r3 = r3
  Request = {r1, r2}
  Command <- Delayed
  NoReq = NoReq
  NoImage = NoImage
  Lead = 1
  MaxLead = 3
  HashEvery = 3
  CheckpointEvery = 2
  QueueMax = 2
  MaxTick = 4
  MaxStop = 2
INVARIANTS
    AtMostOnce
    PromisedIsRemembered
