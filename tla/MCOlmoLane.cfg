CONSTANTS
  r1 = r1
  r2 = r2
  r3 = r3
  Request = {r1, r2, r3}
  NoRequest = NoRequest
  QueueSlots = 2
  MaxSeq = 3
  Ask <- Asks
  Stream = {r1}
  MayLeave = {r1}
  MayFail = TRUE
  KernelsMayLinger = TRUE
  MayDie = TRUE
SPECIFICATION FairSpec
INVARIANTS
  TypeOK
  OutputExact
PROPERTY
  ImplementsFairLane
  EveryCallEnds
CHECK_DEADLOCK FALSE
