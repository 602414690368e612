CONSTANTS
  RankCounts = {1, 2, 3}
  Capacity = 24
  Requests <- MCRequests
  MaxCalls = 2
  Tiles = 2
  OneshotTiles = 4
  SkipOwnFrom = 16
  DirectMaxBytes = 16
  WriteRsMinBytes = 72
  OneshotMinBytes = 64
SPECIFICATION FairSpec
INVARIANTS
  TypeOK
  SumExact
  NoConflict
  QuietOnReturn
  RefillsOnlyDrained
  ChunksPartition
PROPERTIES
  CallReturns
CHECK_DEADLOCK FALSE
