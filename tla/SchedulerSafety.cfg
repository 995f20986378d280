SPECIFICATION Spec
CONSTANTS
  Messages = {m1, m2, m3}
  Tasks = {t1, t2}
  Groups = {}
  RunIds = {r1, r2, r3, r4, r5}
  None = None
  m1 = m1
  m2 = m2
  m3 = m3
  r1 = r1
  r2 = r2
  r3 = r3
  r4 = r4
  r5 = r5
  t1 = t1
  t2 = t2
  MaxQueue = 2
  BgCapacity = 1
  MaxTombstones = 2
  MaxReports = 2
  MaxFailures = 1
  MaxRetractions = 1
INVARIANTS
  ResultsAccounted
  RunOwnsSlot
  SlotHasHolder
  QueueOrderKept
PROPERTIES
  NoContinuationOverUnsaved
SYMMETRY Symmetry
CHECK_DEADLOCK FALSE
