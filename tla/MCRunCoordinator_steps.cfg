SPECIFICATION Spec
CONSTANTS
  s1 = s1
  n1 = n1
  c1 = c1
  u1 = u1
  e1 = e1
  c2 = c2
  b1 = b1
  p2 = p2
  t1 = t1
  Runs = {s1, n1, c1, b1}
  Tabs = {t1}
  NoTab = NoTab
  OwnedTabs = {t1}
  MaxRuns = 1
  MaxDocs = 2
  MaxEvents = 3
  MaxFaults = 0
  Plan <- MCPlan
INVARIANTS
  ConfirmedBeforeStep
  SuccessNeedsEvidence
PROPERTIES
  MovesAreLegal
CONSTRAINT NotReopened
CHECK_DEADLOCK FALSE
