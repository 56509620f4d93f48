SPECIFICATION Spec
CONSTANTS
  c1 = c1
  c2 = c2
  c3 = c3
  k1 = k1
  k2 = k2
  h1 = h1
  h2 = h2
  h3 = h3
  v1 = v1
  v2 = v2
  v3 = v3
  StreamID = StreamID
  Empty = Empty
  Free = Free
  NoChan = NoChan
  NoKey = NoKey
  Clients <- ThreeClients
  Keys <- TwoKeys
  Chans <- TwoChans
  Values <- TwoValues
  MaxBatch = 1
  MaxEntries = 1
  KeyLists <- SomeKeyLists
SYMMETRY Symmetry
INVARIANTS
  RegisteredIsWaiting
  StuckOnlyBehindXRead
  BLPopNeverDropsValue
  OnePlace
CHECK_DEADLOCK FALSE
