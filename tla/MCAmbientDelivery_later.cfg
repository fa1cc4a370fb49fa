SPECIFICATION Spec
CONSTANTS
  Scopes = {site}
  Patches = {patch}
  NoChange = NoChange
  Runs = {}
  NoRun = NoRun
  NoLayer = NoLayer
  MaxSeq = 2
  MaxSessions = 1
  Tabs = {t1, t2}
  Stamps = {1}
  MaxDocs = 0
  MaxCalls = 1
  MaxPolicy = 1
  MaxFaults = 0
  MaxDisturbances = 9
  QuietCalls = 9
INVARIANT LaterLayerObserved
CHECK_DEADLOCK FALSE
