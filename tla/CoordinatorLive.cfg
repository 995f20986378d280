SPECIFICATION FairSpec
CONSTANTS
  s1 = s1
  t1 = t1
  c1 = c1
  c2 = c2
  g1 = g1
  g2 = g2
  Root = Root
  NoGroup = NoGroup
  NoTurn = NoTurn
  Session = s1
  Sessions <- MCSessions
  Owners <- MCOwners
  Turns <- MCTurns
  Children <- MCChildren
  GroupIds <- MCGroupIds
  MaxGeneration = 0
  MaxConcurrent = 1
  MaxDepth = 2
  MaxCancels = 0
  MaxInterrupts = 1
  MaxDeadlines = 2
  MaxDisturbances = 3
PROPERTIES
  NothingWaitsForEver
CHECK_DEADLOCK FALSE
