SPECIFICATION Spec
CONSTANTS
  Clients = {c1,c2}
  Replicas = {r1}
  AckCap = 1
  MaxWrites = 2
  MaxWaits = 2
  MaxLocal = 1
  AckLength = 1
  Lengths = {2}
CONSTRAINT NoneOverlap
ACTION_CONSTRAINT CountsFirst
SYMMETRY Symmetry
INVARIANTS
  NoGap
  WaitMissesAtMostCredit
  NoOversleep
  OrderKept
  OffsetCountsWrites
CHECK_DEADLOCK FALSE
