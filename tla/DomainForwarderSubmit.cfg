SPECIFICATION Spec
CONSTANTS
  w1 = w1
  w2 = w2
  e1 = e1
  e2 = e2
  TransactionLimit = 1
  Endpoints = {e1, e2}
  Target <- Mixed
  Workers = {w1}
  ChanBufferSize = 1
  RetryQueueLimit = 1
  MaxErrors = 2
  RecoveryInterval = 1
  PurgeHighPrio = FALSE
INVARIANT
  SubmitNeverPanics
CHECK_DEADLOCK FALSE
