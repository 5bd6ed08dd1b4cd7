CONSTANTS
  Tolerance = 2
  SkewLimit = 3
  MarkStep = 2
  DayLength = 2
  Starts <- McStarts
  MaxOffline = 1
  Offset = 3
  MaxTime = 3
  MaxLocal = 7
  Settings = {1, 4}
  MaxSets = 1
SPECIFICATION FairSpec
CHECK_DEADLOCK FALSE
INVARIANTS TypeOK GuardKeepsTime DocumentsWithinLicense
PROPERTY LocksEnd
