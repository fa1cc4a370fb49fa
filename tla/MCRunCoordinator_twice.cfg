\* recover() and the run queue both dispatch the command of one run; the later
\* write of an older copy takes the record of the dispatch back.
SPECIFICATION Spec
CONSTANTS
  s1 = s1
  n1 = n1
  c1 = c1
  u1 = u1
  e1 = e1
  c2 = c2
  b1 = b1
  p2 = p2
  t1 = t1
  Runs = {u1}
  Tabs = {t1}
  NoTab = NoTab
  OwnedTabs = {}
  MaxRuns = 1
  MaxDocs = 1
  MaxEvents = 2
  MaxFaults = 2
  Plan <- MCPlan
INVARIANT
  UnsafeStepPostedOnce
CONSTRAINT NotReopened
CHECK_DEADLOCK FALSE
