SPECIFICATION IDsSpec
CONSTANTS
  MaxInt = 2
  MaxIDs = 5
  Star = Star
  Malformed = Malformed
INVARIANTS
  IncreaseUntilOverflow
  XRangeMatches
  XReadMatches
CHECK_DEADLOCK FALSE
