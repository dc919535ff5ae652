SPECIFICATION Spec
CONSTANTS
  r1 = r1
  r2 = r2
  r3 = r3
  Request = {r1, r2}
  Command <- CreateAndSet
  NoReq = NoReq
  NoImage = NoImage
  Lead = 1
  MaxLead = 2
  HashEvery = 0
  CheckpointEvery = 1
  QueueMax = 2
  MaxTick = 4
  MaxStop = 1
INVARIANTS
  PromisedIsKept
