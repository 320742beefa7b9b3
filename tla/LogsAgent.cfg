SPECIFICATION FairSpec
CONSTANTS
  MaxGens = 2
  MaxLines = 2
  MaxWrites = 2
  MaxTailers = 2
  MaxFaults = 1
  ErrorGens = {2}
  ChanSize = 1
  BatchSize = 2
INVARIANTS
  LinesKept
  OrderedStopDrains
PROPERTIES
  Checkpointed
  LatestFileSettled
