SPECIFICATION Spec
CONSTANTS
  Handlers = {h1, h2}
  Runs = {run1}
  MaxRev = 3
  MaxPolicies = 1
  MaxReplays = 1
SYMMETRY Symmetry
INVARIANTS TypeOK PublishedIsReviewed PointerIsBound
PROPERTIES PublishedOnHead BoundOnlyThroughReview FeedbackOnce
CHECK_DEADLOCK FALSE
