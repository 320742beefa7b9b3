SPECIFICATION FairSpec
CONSTANTS
  Checks = {"c1"}
  RawValues = {0, 1, 3}
  MaxSends = 3
  MaxTime = 3
  MaxFaults = 1
  ChanSize = 1
  ContextExpiry = 1
  BucketExpiry = 1
  Granularity = 2
  None = None
INVARIANTS
  SeriesExact
  SketchesExact
PROPERTIES
  EventuallyFlushed
