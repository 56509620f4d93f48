SPECIFICATION IDsSpec
CONSTANTS
  MaxInt = 3
  MaxIDs = 3
  Star = Star
  Malformed = Malformed
INVARIANTS
  IDsIncrease
CHECK_DEADLOCK FALSE
