SPECIFICATION Spec
CONSTANTS
  MemLimit = 2
  WALMayFail = TRUE
  MaxEntries = 3
  MaxRotations = 3
CHECK_DEADLOCK FALSE
INVARIANTS
  TypeOK
  NothingLost
  FlushedOnce
  ClosedIsFlushed
  IndInv
PROPERTIES
  AwakeFlushes
  CloseReturns
