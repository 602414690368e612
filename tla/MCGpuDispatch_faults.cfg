CONSTANTS
  KernargSlots = 2
  DedicatedSlots = 2
  MaxDispatches = 5
  MayFail = TRUE
  MayTimeout = TRUE
SPECIFICATION Spec
INVARIANT
  DedicatedSound
CHECK_DEADLOCK FALSE
