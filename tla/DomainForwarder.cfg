SPECIFICATION FairSpec
CONSTANTS
  w1 = w1
  w2 = w2
  e1 = e1
  e2 = e2
  TransactionLimit = 2
  Endpoints = {e1, e2}
  Target <- Mixed
  Workers = {w1, w2}
  ChanBufferSize = 1
  RetryQueueLimit = 1
  MaxErrors = 2
  RecoveryInterval = 1
  PurgeHighPrio = TRUE
INVARIANTS
  OnePlace
  LimitDropsOldest
  PurgeServesEarly
PROPERTIES
  StopTerminates
  NewOnesServed
CHECK_DEADLOCK FALSE
