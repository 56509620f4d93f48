SPECIFICATION LiveSpec
CONSTANTS
  c1 = c1
  c2 = c2
  c3 = c3
  k1 = k1
  k2 = k2
  h1 = h1
  h2 = h2
  h3 = h3
  v1 = v1
  StreamID = StreamID
  Empty = Empty
  Free = Free
  NoChan = NoChan
  Clients <- ThreeClients
  Keys <- TwoKeys
  Chans <- TwoChans
  Values <- OneValue
  MaxEntries = 1
  KeyLists <- OneOrTwoKeys
INVARIANTS
  NoLostWakeup
  WokenHasEntries
PROPERTIES
  EntryReachesReader
CHECK_DEADLOCK FALSE
