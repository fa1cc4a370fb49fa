SPECIFICATION FairSpec
CONSTANTS
  Reqs = {r1, r2}
  MaxReconnect = 1
  MaxDrops = 2
INVARIANTS
  TypeOK
  CancelNotLost
  ForgottenIsAnswered
PROPERTIES
  ImplementsInvocation
  Answered
CHECK_DEADLOCK FALSE
