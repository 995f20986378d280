SPECIFICATION FairSpec
CONSTANTS
  Messages = {m1, m2}
  Tasks = {t1}
  Groups = {g1}
  RunIds = {r1, r2, r3, r4, r5}
  None = None
  g1 = g1
  m1 = m1
  m2 = m2
  r1 = r1
  r2 = r2
  r3 = r3
  r4 = r4
  r5 = r5
  t1 = t1
  MaxQueue = 2
  BgCapacity = 1
  MaxTombstones = 2
  MaxReports = 1
  MaxFailures = 0
  MaxRetractions = 0
PROPERTY ContinuationsDelivered
PROPERTY QueuedBehindRunStarts
CHECK_DEADLOCK FALSE
