SPECIFICATION Spec
CONSTANTS
  Scopes = {site}
  Patches = {patch}
  NoChange = NoChange
  Runs = {run}
  NoRun = NoRun
  NoLayer = NoLayer
  MaxSeq = 2
  MaxSessions = 2
  Tabs = {t1, t2}
  Stamps = {1}
  MaxDocs = 1
  MaxCalls = 3
  MaxPolicy = 2
  MaxFaults = 1
  MaxDisturbances = 1
  QuietCalls = 2
SYMMETRY MCSymmetry
INVARIANTS
  TypeOK
  LayerAccountedFor
  CandidateToldIsBound
CONSTRAINT FewDisturbances
PROPERTY ImplementsLog
CHECK_DEADLOCK FALSE
