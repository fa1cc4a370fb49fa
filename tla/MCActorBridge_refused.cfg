SPECIFICATION Spec
CONSTANTS
  Plans <- OneAct
  MaxDocs = 1
  MaxDrops = 0
  Refused = {TRUE}
PROPERTY CompletionTaken
CHECK_DEADLOCK FALSE
