SPECIFICATION FairSpec
CONSTANTS
  a1 = a1
  a2 = a2
  Targets <- TwoTargets
  Audiences <- BothThenOne
  MaxCmds = 2
  MaxDrops = 1
INVARIANTS
  AtMostOnceExecution
  StatusFollowsDeliveries
PROPERTIES
  ResultsAreFinal
  DeliveriesEnd
CHECK_DEADLOCK FALSE
