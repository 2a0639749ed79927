SPECIFICATION FairSpec
CONSTANTS
  c1 = c1
  c2 = c2
  Worker = worker
  Emitters = {worker}
  Recipients = {admin}
  EventTypes <- VulnEvents
  Components = {c1, c2}
  Entities = {c1, c2}
  Reports <- MCReports
  EpssScores <- MCEpss
  FirstFeeds <- MCFirstFeeds
  MinImmediate = "CRITICAL"
  MaxHappenings = 2
  MaxRefused = 1
  MaxDeaths = 1
CHECK_DEADLOCK FALSE
INVARIANTS
  ToldAsMarked
  ExploitedIsCritical
PROPERTIES
  CriticalIsAnnounced
