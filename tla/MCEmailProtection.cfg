SPECIFICATION FairSpec
CONSTANTS
  t1 = t1
  t2 = t2
  Threads = {t1, t2}
  Gmail = {"g1", "g2"}
  Graph = {"m1"}
  TraitsOf <- MCTraits
  Mails <- MCMails
  NewPolicies <- MCPolicies
  FirstLinked <- MCFirstLinked
  HookLimit = 1
  MaxRequests = 3
  MaxFailures = 1
  MaxCrashes = 1
CHECK_DEADLOCK FALSE
INVARIANTS
  NothingSkipped
  MailboxIsTrue
  HarmfulIsHeld
PROPERTIES
  WatchedIsAnalysed
