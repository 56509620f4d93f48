SPECIFICATION LiveSpec
CONSTANTS
  Clients = {c1, c2}
  Links = {master}
  Nobody = Nobody
  MaxCommands = 3
  MaxCrashes = 2
  MaxFaults = 1
CONSTRAINT FewCommands
INVARIANTS
  AnsweredIsRestored
  LogDoubles
  RestartRestores
PROPERTIES
  WaitingIsServed
CHECK_DEADLOCK FALSE
