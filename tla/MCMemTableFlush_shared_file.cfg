SPECIFICATION Spec
CONSTANTS
  Key = {1, 2, 3}
  KeyLen <- MCKeyLen
  Hash1 <- MCHash1
  Hash2 <- MCHash2
  BitsPerKey = 14
  Version <- MCVersion
  Interval = 2
INVARIANT
  GetFindsEntry
