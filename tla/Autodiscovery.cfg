SPECIFICATION MCSpec
CONSTANTS
  Templates = {t1}
  Services = {s1}
  Matching <- MCMatching
  Kinds <- MCKinds
  Tags = {g1, g2}
  NoTags = NoTags
  AnyService = AnyService
  MaxChanges = 2
INVARIANTS
  NoMatchMissed
  IndexesSound
PROPERTIES
  EventuallyUnscheduled
  StopReturnsUnlessStuck
CHECK_DEADLOCK FALSE
