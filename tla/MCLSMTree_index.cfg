SPECIFICATION SerialSpec
CONSTANTS
  Key <- MCKey
  Reader = {}
  MaxLevels = 3
  MemLimit = 1
  TableLimit = 2
  L0Trigger = 2
  LevelBase = 1
  MaxBatch = 1
  MaxSeq = 4
  MaxId = 4
INVARIANTS
  TypeOK
  ReadsNewest
  LevelsDisjoint
  IndInv
PROPERTIES
  StableReads
