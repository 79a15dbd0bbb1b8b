SPECIFICATION SerialSpec
CONSTANTS
  Key = {1, 2, 3, 4, 5}
  KeyLen <- MCKeyLen
  Hash1 <- MCHash1
  Hash2 <- MCHash2
  BitsPerKey = 14
  Version <- MCVersion
  Interval = 2
INVARIANTS
  TypeOK
  TreeHoldsContents
  TableHoldsContents
  GetFindsEntry
  WalkIsComplete
  TableInv
PROPERTIES
  UsesTable
  ReadsReturn
