SPECIFICATION Spec
CONSTANTS
  Scopes = {site}
  Patches = {patch}
  NoChange = NoChange
  Runs = {run}
  NoRun = NoRun
  NoLayer = NoLayer
  MaxSeq = 3
  MaxSessions = 1
  Tabs = {t1, t2}
  Stamps <- MCStamps
  MaxDocs = 0
  MaxCalls = 4
  MaxPolicy = 1
  MaxFaults = 0
  MaxDisturbances = 2
  QuietCalls = 2
SYMMETRY MCSymmetry
INVARIANTS
  LayerDecidedOnce
  CandidateToldIsBound
PROPERTY ImplementsLog
CHECK_DEADLOCK FALSE
