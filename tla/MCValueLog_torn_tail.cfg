SPECIFICATION TornSpec
CONSTANTS
  Key = {1, 2}
  Reader = {}
  Sizes = {1, 2}
  FileLimit = 3
  GCPercent = 50
  MaxPuts = 4
  MaxFailures = 0
  MaxCrashes = 1
INVARIANTS
  LiveReadable
