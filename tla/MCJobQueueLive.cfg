SPECIFICATION FairSpec
CONSTANTS
  j1 = j1
  j2 = j2
  e1 = e1
  e2 = e2
  e3 = e3
  NoJob = NoJob
  NoExec = NoExec
  Jobs <- TwoJobs
  Execs <- TwoExecs
  MaxCalls = 2
PROPERTIES
  CancelTakesEffect
  ResumeTakesUpPending
CHECK_DEADLOCK FALSE
