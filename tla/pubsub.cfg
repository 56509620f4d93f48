SPECIFICATION Spec
CONSTANTS
  Clients = {c1, c2, c3}
  Channels = {news}
  SendCap = 2
  MaxMessages = 3
SYMMETRY Symmetry
INVARIANTS
  LossNeedsBacklog
  CountsWhoGotIt
  NeverOvertakes
CHECK_DEADLOCK FALSE
