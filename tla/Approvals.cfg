SPECIFICATION FairSpec
CONSTANTS
  RootAsks = {root1}
  SubagentAsks = {sub1}
  Questions = {ask1}
  MaxAsked = 2
  Posts = {p1, p2}
  p1 = p1
  p2 = p2
  Rules = {w1, w2}
  NoRule = NoRule
  RuleOf <- MCRuleOf
  root1 = root1
  sub1 = sub1
  ask1 = ask1
  w1 = w1
  w2 = w2
  ResolvedCap = 1
INVARIANTS
  PromptsAccounted
  DecisionStands
  FailClosed
  RulesAreGranted
  NoPhantomPermission
PROPERTIES
  AskEnds
CHECK_DEADLOCK FALSE
