CONSTANTS
  KernargSlots = 2
  DedicatedSlots = 0
  MaxDispatches = 4
  MayFail = TRUE
  MayTimeout = FALSE
SPECIFICATION FairSpec
INVARIANT
  WaitMeansRetired
CHECK_DEADLOCK FALSE
