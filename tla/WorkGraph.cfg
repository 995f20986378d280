SPECIFICATION Spec
CONSTANTS
  a1 = a1
  a2 = a2
  c1 = c1
  c2 = c2
  Human = Human
  Daemon = Daemon
  Nobody = Nobody
  RootAgent = a1
  Agents <- Two
  Children <- NoChildren
  Requests <- LowAndHigh
  Verdicts = {"approve", "reject"}
  UnitCounts = {1}
  MaxNodes = 2
  AutoRetryMax = 2
  MaxCalls = 5
  MaxCrashes = 1
  MaxDrops = 1
  MaxCuts = 0
INVARIANTS
  PassesSound
  VerifiedWasProven
PROPERTIES
  BudgetNeverGrows
SYMMETRY AgentSymmetry
CHECK_DEADLOCK FALSE
