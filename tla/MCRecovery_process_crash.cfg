SPECIFICATION SerialSpec
CONSTANTS
  Key = {1, 2}
  MemLimit = 2
  NumLevels = 2
  PowerLoss = FALSE
  Sync = {FALSE}
  MaxWrites = 3
  MaxCrashes = 2
INVARIANTS
  TypeOK
  RecoveredReads
  SequenceFresh
  IndInv
PROPERTIES
  TablesStay
  OpenReturns
CHECK_DEADLOCK FALSE
