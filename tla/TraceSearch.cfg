SPECIFICATION FairSpec
CONSTANTS
  x = x
  Items = {x}
  MaxCoords = 2
  MaxSearches = 2
  MaxRoutes = 2
INVARIANTS
  TypeOK
  GroupNeverUnderflows
  StuckOnlyAfterLoss
  OneAtATime
  SelectMeansRoute
PROPERTIES
  SearchOpensPanel
CHECK_DEADLOCK FALSE
