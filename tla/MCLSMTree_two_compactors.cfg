SPECIFICATION Spec
CONSTANTS
  Key = {1}
  Reader = {}
  MaxLevels = 3
  MemLimit = 1
  TableLimit = 1
  L0Trigger = 2
  LevelBase = 1
  MaxBatch = 1
  MaxSeq = 3
  MaxId = 4
PROPERTIES
  DeletedStaysDeleted
