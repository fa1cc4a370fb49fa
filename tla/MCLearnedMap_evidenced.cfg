\* A changed target need not be bound to a node of the layer.
CONSTANTS
  e1 = e1  e2 = e2  home = home  done = done  q = q  f = f  a = a  n1 = n1  n2 = n2  u = u
  States = {1, 2}
  Actions = {a}
  Elements = {e1, e2}
  Places = {home, done}
  Params = {q}
  Fields = {f}
  Runs = {r1, r2}
  NoElement = NoElement  NoParam = NoParam  NoPattern = NoPattern
  NoObservation = NoObservation  NoField = NoField  NoList = NoList
  MaxStates = 2
  MaxActions = 1
  QuarantineAfter = 1
  Depth = 2
  Menu = {"click", "drift", "narrow", "generated", "optional", "odd", "literal", "page", "list"}
  Ways = {"fresh", "seen", "echo", "recall", "mislaid"}
  Dialects = {"both", "go"}
  Layers <- MCLayers
  Pages <- MCPages
  Answers <- MCAnswers
SPECIFICATION Spec
PROPERTY TargetsAreEvidenced
CHECK_DEADLOCK FALSE
