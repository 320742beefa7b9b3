SPECIFICATION FairSpec
CONSTANTS
  m1 = m1
  m2 = m2
  m3 = m3
  m4 = m4
  m5 = m5
  w1 = w1
  w2 = w2
  a1 = a1
  a2 = a2
  a3 = a3
  Messages = {m1, m2, m3, m4, m5}
  Type <- TypesOf
  Input <- TwoGroups
  Workers = {w1, w2}
  Arrays = {a1, a2, a3}
  BatchSize = 2
  ChannelSize = 1
  HistToDist = TRUE
  FlushOnStop = TRUE
  None = None
INVARIANTS
  ExclusiveArrays
  SamplesExact
  EventsSentOnce
PROPERTIES
  Delivery
CHECK_DEADLOCK FALSE
