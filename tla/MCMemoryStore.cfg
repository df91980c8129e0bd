\* Three threads, two batches for two agents and four other requests.  A batch
\* and a poll may block each other, and with them everybody: no deadlock check.
SPECIFICATION StoreSpec
CONSTANTS
  Threads = {th1, th2, th3}
  Targets = {a1, a2}
  MaxCmds = 2
  MaxRequests = 4
PROPERTIES
  ImplementsLedger
  StuckOnlyByBatch
CHECK_DEADLOCK FALSE
