SPECIFICATION FairSpec
CONSTANTS
  n1 = n1
  n2 = n2
  c1 = c1
  Nodes = {n1, n2}
  Configs = {c1}
  ZeroConfig = ZeroConfig
  Expiration = 1
  MaxFlips = 2
  Nowhere = Nowhere
  None = None
INVARIANTS
  StoreConsistent
  NothingForgotten
PROPERTIES
  FollowsLeadership
