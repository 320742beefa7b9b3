SPECIFICATION FairSyncSpec
CONSTANTS
  Configs = {c1, c2}
  Expiration = 1
  Grace = 2
  MaxFaults = 4
INVARIANTS
  NodeInSync
PROPERTIES
  FollowsAssignment
