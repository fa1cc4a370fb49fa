SPECIFICATION FairSpec
CONSTANTS
  Plans <- MCPlans
  MaxDocs = 2
  MaxDrops = 1
  Refused = {TRUE, FALSE}
INVARIANTS
  TypeOK
  UnsafePerformedOnce
  TakenStepsWerePerformed
PROPERTIES
  OnlyActiveActs
  PageWaitEnds
CHECK_DEADLOCK FALSE
