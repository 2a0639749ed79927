SPECIFICATION FairSpec
CONSTANTS
  MaxSnaps = 4
  Size <- MCSize
  MaxBytes = 3
  Retention = 0
  BatchLimit = 2
  TickSize = 2
  GzipAt = 3
  MaxTime = 1
  MaxCrashes = 1
  MaxFaults = 2
CHECK_DEADLOCK FALSE
INVARIANTS
  RunningMeansEnrolled
  SnapshotsAreKept
PROPERTIES
  LosesOldestFirst
  BacklogDrains
