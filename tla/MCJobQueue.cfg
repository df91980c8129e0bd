SPECIFICATION QueueSpec
CONSTANTS
  j1 = j1
  j2 = j2
  e1 = e1
  e2 = e2
  e3 = e3
  NoJob = NoJob
  NoExec = NoExec
  Jobs <- OneJob
  Execs <- ThreeExecs
  MaxCalls = 3
SYMMETRY ExecSymmetry
INVARIANTS
  TypeOK
  MutualExclusion
  RunningTableExact
  StoppableWhileBusy
  PauseLeaksAtMostOne
  LostWakeupOnlyInWindow
  StrandedOnlyByStopAll
PROPERTY ImplementsLifecycle
CHECK_DEADLOCK FALSE
