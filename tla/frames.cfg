SPECIFICATION FramesLiveSpec
CONSTANTS
  Commands <- SomeCommands
  MaxSent = 3
  ReadSize = 24
INVARIANTS
  InStep
  CutsEndTheLoop
PROPERTIES
  AllExecuted
CHECK_DEADLOCK FALSE
