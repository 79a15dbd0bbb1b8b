SPECIFICATION Spec
CONSTANTS
  MemLimit = 2
  WALMayFail = FALSE
  MaxEntries = 3
  MaxRotations = 3
CHECK_DEADLOCK FALSE
PROPERTIES
  CloseAlwaysReturns
