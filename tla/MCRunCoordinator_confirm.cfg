SPECIFICATION Spec
CONSTANTS
  s1 = s1
  n1 = n1
  c1 = c1
  u1 = u1
  e1 = e1
  c2 = c2
  b1 = b1
  p2 = p2
  t1 = t1
  Runs = {b1}
  Tabs = {t1}
  NoTab = NoTab
  OwnedTabs = {}
  MaxRuns = 1
  MaxDocs = 1
  MaxEvents = 1
  MaxFaults = 1
  Plan <- MCPlan
INVARIANTS
  ConfirmedBeforeRun
CHECK_DEADLOCK FALSE
