SPECIFICATION FairSpec
CONSTANTS
  Entities = {"e1"}
  Streamers = {"docker"}
  Pullers = {"kubelet"}
  Starters = {s1, s2}
  s1 = s1
  s2 = s2
  q1 = q1
  run = run
  pull = pull
  Callers = {q1}
  InfoSize = 1
  MaxChanges = 2
  MaxRetries = 1
  None = None
INVARIANTS
  TagsSound
PROPERTIES
  CollectorsStarted
  StopReturnsUnlessStuck
CHECK_DEADLOCK FALSE
