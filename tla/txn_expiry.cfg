SPECIFICATION Spec
CONSTANTS
  c1 = c1
  c2 = c2
  k1 = k1
  Clients <- TwoClients
  Keys <- OneKey
  KeyLists <- OneKeyLists
  MaxWrites = 3
  MaxQueue = 3
  Ttls <- TtlOrNot
CONSTRAINT LongQueues
SYMMETRY Symmetry
INVARIANTS
  VersionCountsWrites
  OneResponsePerCommand
PROPERTIES
  CheckSound
  AbortJustified
CHECK_DEADLOCK FALSE
