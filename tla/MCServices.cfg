SPECIFICATION Spec
CONSTANTS
  d1 = d1
  d2 = d2
  e1 = e1
  f1 = f1
  f2 = f2
  f3 = f3
  MaxActions = 2
  Types <- MCTypes
  MaxFaults = 2
  Conns = {c1}
  Keys = {k1}
  MaxEvents = 4
  QueueMax = 3
  AggAt = 1
  HybridAt = 0
  Servers = {s1, s2}
  Window = 1
  RateLimit = 1
  MaxReports = 2
  MaxTime = 3
  MaxCrashes = 1
  Starters = {p1, p2}
  SeedCount = 2
  MaxStarts = 4
  Launchers = {l1, l2}
  Workers = {w1, w2}
  MaxMishaps = 1
  Agents = {a1, a2, a3}
  MaxAge = 1
  MaxClock = 2
  MaxLosses = 1
  Sockets = {n1, n2}
  Ttl = 1
  DnsTtl = 2
  Suppression = 2
  PruneAfter = 2
  MaxInstant = 4
  MaxTurns = 1
  Handlers = {h1, h2}
  Logins = {o1, o2}
  StateTtl = 0
  MaxHour = 1
  MaxCalls = 4
  MaxRestarts = 1
  Backends = {b1, b2}
  EventDocs = {e1}
  RawDocs = {}
  Bulks <- MCBulks
  Days = {d1, d2}
  IndexOf <- MCIndexOf
  Tries = 2
  MaxOutages = 1
  MaxBoots = 2
INVARIANTS
  ActionsShow
  StreamIsWhole
  ReportsAreHandled
  SeededOncePerEmptyTable
  OneWorkerPerDesktop
  HostKeepsItsWord
  LinksHold
  IndexIsWhole
PROPERTIES
  VerdictIsFinal
  ActionsAreSettled
  DropsSwitchMode
  ListedIsReported
CHECK_DEADLOCK FALSE
