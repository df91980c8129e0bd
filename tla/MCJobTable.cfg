SPECIFICATION Spec
CONSTANTS
  j1 = j1
  c1 = c1
  c2 = c2
  Jobs <- OneJob
  Clients <- TwoClients
  Triggers = {"hybrid", "daily"}
  Day = 2
  Interval = 2
  MaxEdits = 2
  MaxChan = 1
  MaxFaults = 1
INVARIANTS
  TypeOK
  RowIsAsked
  WatchMatchesRow
SYMMETRY Swap
CHECK_DEADLOCK FALSE
