SPECIFICATION Spec
CONSTANTS
  Urls <- MCUrls
  Home = "home"
  Catalogs <- MCCatalogs
  MaxRetry = 1
  Slots = {1, 2}
  MaxMoves = 2
  MaxFails = 0
INVARIANTS
  WithdrawnIsUnregistered
CHECK_DEADLOCK FALSE
