SPECIFICATION FairSpec
CONSTANTS
  a1 = a1
  a2 = a2
  c1 = c1
  c2 = c2
  Human = Human
  Daemon = Daemon
  Nobody = Nobody
  RootAgent = a1
  Agents <- One
  Children <- TwoChildren
  Requests <- LowAndMedium
  Verdicts = {}
  UnitCounts = {}
  MaxNodes = 2
  AutoRetryMax = 3
  MaxCalls = 5
  MaxCrashes = 1
  MaxDrops = 0
  MaxCuts = 1
INVARIANTS
  HeldForADiagnosis
  VerdictsAreAboutTheirNode
PROPERTIES
  DiagnosisIsNotBypassed
  CallsAndRoutesEnd
CHECK_DEADLOCK FALSE
