SPECIFICATION SerialSpec
CONSTANTS
  Key = {1}
  Reader = {r1}
  Sizes = {1, 3}
  FileLimit = 2
  GCPercent = 50
  MaxPuts = 3
  MaxFailures = 1
  MaxCrashes = 1
INVARIANTS
  TypeOK
  LiveReadable
  GetReturnsOwnValue
  IndInv
PROPERTIES
  GCKeepsValues
  GCReturns
