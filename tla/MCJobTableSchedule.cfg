SPECIFICATION FairSpec
CONSTANTS
  j1 = j1
  c1 = c1
  c2 = c2
  Jobs <- OneJob
  Clients <- NoClients
  Triggers = {"interval"}
  Day = 2
  Interval = 2
  MaxEdits = 0
  MaxChan = 1
  MaxFaults = 0
PROPERTY ScheduledJobsRun
CHECK_DEADLOCK FALSE
