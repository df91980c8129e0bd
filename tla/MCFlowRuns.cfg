SPECIFICATION Spec
CONSTANTS
  f1 = f1
  f2 = f2
  a = a
  b = b
  shared = shared
  Flows <- TwoFlows
  Files <- TwoFiles
  TargetDir <- Shared
  Configs <- AllConfigs
  MaxSuffix = 1
  MaxWrites = 2
  MaxRuns = 2
  MaxFaults = 1
INVARIANTS
  NothingLost
  TransfersRecorded
  UndoRestores
SYMMETRY Swap
CHECK_DEADLOCK FALSE
