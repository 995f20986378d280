SPECIFICATION Spec
CONSTANTS
  s1 = s1
  o1 = o1
  o2 = o2
  t1 = t1
  c1 = c1
  c2 = c2
  g1 = g1
  g2 = g2
  Sessions <- MCSessions
  Owners <- MCOwners
  Turns <- MCTurns
  Children <- MCChildren
  GroupIds <- MCGroupIds
  NoTurn = NoTurn
  None = None
  MaxGeneration = 1
INVARIANTS
  DeliveredAtMostOnce
  OnlyCurrentGroups
PROPERTIES
  BatchesWhole
  ImplementsResultDelivery
CHECK_DEADLOCK FALSE
