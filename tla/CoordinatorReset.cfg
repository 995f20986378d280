SPECIFICATION Spec
CONSTANTS
  s1 = s1
  t1 = t1
  c1 = c1
  c2 = c2
  g1 = g1
  g2 = g2
  Root = Root
  NoGroup = NoGroup
  NoTurn = NoTurn
  Session = s1
  Sessions <- MCSessions
  Owners <- MCOwners
  Turns <- MCTurns
  Children <- MCChildren
  GroupIds <- MCGroupIds
  MaxGeneration = 1
  MaxConcurrent = 2
  MaxDepth = 2
  MaxCancels = 0
  MaxInterrupts = 0
  MaxDeadlines = 0
  MaxDisturbances = 0
INVARIANTS
  MappingsFollowGeneration
PROPERTIES
  UsesStoreAsPromised
SYMMETRY Symmetry
CHECK_DEADLOCK FALSE
