SPECIFICATION FairCollectorSpec
CONSTANTS
  Periodic = {p1}
  OneTime = {l1}
  NumWorkers = 1
  MaxCalls = 5
INVARIANTS
  RunsApart
  NoSendOnClosed
PROPERTIES
  PeriodicKeepRunning
  StoppedAtLast
  CollectorStopReturns
CHECK_DEADLOCK FALSE
