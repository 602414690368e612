CONSTANTS
  KernargSlots = 2
  DedicatedSlots = 0
  MaxDispatches = 4
  MayFail = FALSE
  MayTimeout = TRUE
SPECIFICATION FairSpec
INVARIANT
  WaitMeansRetired
CHECK_DEADLOCK FALSE
