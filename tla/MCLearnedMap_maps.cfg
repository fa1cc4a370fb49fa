\* The learning loop: two layers, two runs, every draft.
CONSTANTS
  e1 = e1  e2 = e2  home = home  done = done  q = q  f = f  a = a  n1 = n1  n2 = n2  u = u
  States = {1, 2}
  Actions = {a}
  Elements = {e1, e2}
  Places = {home, done}
  Params = {q}
  Fields = {f}
  Runs = {r1, r2}
  NoElement = NoElement  NoParam = NoParam  NoPattern = NoPattern
  NoObservation = NoObservation  NoField = NoField  NoList = NoList
  MaxStates = 2
  MaxActions = 1
  QuarantineAfter = 1
  Depth = 2
  Menu = {"click", "drift", "narrow", "optional", "odd", "literal", "list", "reread"}
  Ways = {"fresh", "seen", "recall", "mislaid"}
  Dialects = {"both", "go"}
  Layers <- MCLayers
  Pages <- MCPages
  Answers <- MCAnswers
SYMMETRY MCSymmetry
SPECIFICATION Spec
INVARIANTS HeadIsSound GatesAgree OnlyKnownPlanDefects
PROPERTIES VerifiedIsFrozen FeedbackNeverRedirects
CHECK_DEADLOCK FALSE
