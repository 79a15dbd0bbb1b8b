SPECIFICATION SerialSpec
CONSTANTS
  Key <- MCKey
  Reader = {r1}
  MaxLevels = 3
  MemLimit = 1
  TableLimit = 1
  L0Trigger = 1
  LevelBase = 1
  MaxBatch = 2
  MaxSeq = 3
  MaxId = 3
INVARIANTS
  GetReturnsCurrent
PROPERTIES
  ImplementsKVStore
