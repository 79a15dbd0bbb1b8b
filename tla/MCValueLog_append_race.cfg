SPECIFICATION RaceSpec
CONSTANTS
  Key = {1, 2}
  Reader = {}
  Sizes = {1}
  FileLimit = 2
  GCPercent = 50
  MaxPuts = 4
  MaxFailures = 0
  MaxCrashes = 0
INVARIANTS
  LiveReadable
