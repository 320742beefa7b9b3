SPECIFICATION FairSpec
CONSTANTS
  d1 = d1
  d3 = d3
  d4 = d4
  w1 = w1
  Datagrams = {d1, d3, d4}
  Size <- OneEmpty
  Blank = {d3}
  BufferSize = 4
  PacketsBufferSize = 2
  QueueSize = 1
  Workers = {w1}
  Forwarding = TRUE
  None = None
INVARIANTS
  GroupsWhole
  IntakeExact
  SkippedBehindBlank
PROPERTIES
  EventuallyParsed
  StopReturnsUnlessFull
CHECK_DEADLOCK FALSE
