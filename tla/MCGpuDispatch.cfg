CONSTANTS
  KernargSlots = 3
  DedicatedSlots = 2
  MaxDispatches = 6
  MayFail = FALSE
  MayTimeout = FALSE
SPECIFICATION FairSpec
INVARIANTS
  TypeOK
  WaitMeansRetired
  KernargStable
PROPERTY
  WaitReturns
CHECK_DEADLOCK FALSE
