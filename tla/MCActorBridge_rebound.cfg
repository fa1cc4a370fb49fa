SPECIFICATION Spec
CONSTANTS
  Plans <- OneAct
  MaxDocs = 1
  MaxDrops = 0
  Refused = {FALSE}
INVARIANT OutcomeInOrder
CHECK_DEADLOCK FALSE
