CONSTANTS
  Parts = 2
  NumWg = 2
  CountWidth = 8
  MaxOps = 2
SPECIFICATION FairSpec
INVARIANTS
  TypeOK
  OkMeansExact
PROPERTIES
  WaitReturns
CHECK_DEADLOCK FALSE
