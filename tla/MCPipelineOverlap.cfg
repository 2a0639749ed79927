SPECIFICATION Spec
CONSTANTS
  visit = visit
  attack = attack
  broken = broken
  listed = listed
  p1 = p1
  p2 = p2
  NoDetector = NoDetector
  NoEvent = NoEvent
  Events = {visit, broken}
  Procs = {p1, p2}
  Modes = {"db"}
  Indicators = {listed}
  Rules <- MCRules
  DisabledRules <- MCDisabledRules
  IncidentRules <- MCIncidentRules
  IocHits <- MCIocHits
  RuleHits <- MCRuleHits
  Raised <- MCRaised
  MalwareEvents <- MCMalwareEvents
  Rejected <- MCRejected
  QueueCap = 1
  MaxQueueRetries = 3
  BatchLimit = 2
  BulkLimit = 2
  CountCap = 1
  MaxCrashes = 1
  MaxFaults = 1
  MaxPrunes = 1
CHECK_DEADLOCK FALSE
INVARIANTS
  OnlyFailuresAreBlamed
PROPERTIES
  ProcessedIsFinal
  KeepsContract
