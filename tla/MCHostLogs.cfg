SPECIFICATION FairSpec
CONSTANTS
  MaxHappenings = 3
  MaxFaults = 1
  MaxBatch = 2
  Urls = {"u1", "u2"}
  VisitLimit = 1
CHECK_DEADLOCK FALSE
INVARIANTS
  HostIsReadOnce
PROPERTIES
  CatchesUp
