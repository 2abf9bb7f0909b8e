SPECIFICATION AllSpec
CONSTANTS
  None = None
  Keys = {k1, k2, k3}
  Values = {v1, v2}
  Drives = {"lfu", "random", "ttl", "2q"}
  InitialSize = 2
  Sizes = {0, 1, 2, 3}
  MaxFreq = 3
  TTLs = {0, 2}
  MaxTime = 5
INVARIANTS
  BucketsMatchEntries
  SlotsMatchEntries
PROPERTIES
  ReportsWhatLeft
  EvictsInKeysOrder
  LFUIsAPolicy
  ResultsAreTrue
  RandomIsAPolicy
  ExpiresOnTime
  TTLIsAPolicy
  ReportsAreInferred
  AdaptedIsAPolicy
