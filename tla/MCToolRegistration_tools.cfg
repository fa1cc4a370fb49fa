SPECIFICATION FairSpec
CONSTANTS
  Urls <- MCUrls
  Home = "home"
  Catalogs <- MCCatalogs
  MaxRetry = 1
  Slots = {1, 2}
  MaxMoves = 2
  MaxFails = 2
INVARIANTS
  OvertakenIsPending
PROPERTIES
  NoListRegression
  RouteToolsOffered
CHECK_DEADLOCK FALSE
