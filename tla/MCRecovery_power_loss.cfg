SPECIFICATION SerialSpec
CONSTANTS
  Key = {1, 2}
  MemLimit = 1
  NumLevels = 2
  PowerLoss = TRUE
  Sync = {FALSE, TRUE}
  MaxWrites = 3
  MaxCrashes = 1
INVARIANTS
  RecoveredReads
CHECK_DEADLOCK FALSE
