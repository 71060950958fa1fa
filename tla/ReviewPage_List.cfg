SPECIFICATION PageSpec
CONSTANTS
  None = None
  Names <- TwoNames
  Matchings <- OneLost
  PageSize = 1
  MaxClicks = 3
  MaxElsewhere = 1
  MaxRematches = 2
INVARIANTS
  ShownRowsAreCurrent
PROPERTIES
  LoadingEnds
CHECK_DEADLOCK FALSE
