CONSTANTS
  Parts = 2
  Gpu <- Ranks
  Group = {0, 1}
  TotalOps = 2
  Trips = TRUE
SPECIFICATION FairSpec
INVARIANTS
  TypeOK
  BarrierHolds
  OutExact
  InputsStable
PROPERTIES
  OperationsEnd
  KernelsRetire
CHECK_DEADLOCK FALSE
