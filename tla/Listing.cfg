CONSTANTS
  NumRecords = 3
  Limit = 2
  MaxTime = 1
  Delay = 1
SPECIFICATION Spec
INVARIANT ListedAsItWas
INVARIANT NothingIsOverlooked
INVARIANT NoneFallsBetween
CHECK_DEADLOCK FALSE
