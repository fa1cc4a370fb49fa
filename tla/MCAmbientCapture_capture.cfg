SPECIFICATION FairSpec
CONSTANTS
  MaxStarts = 2
  MaxEvents = 2
  MaxFailures = 1
INVARIANTS CausalOrder NumbersIncrease NothingPassedOver
PROPERTIES CompletedIsTaken
CHECK_DEADLOCK FALSE
