SPECIFICATION OfficeSpec
CONSTANTS
  u1 = u1
  u2 = u2
  t1 = t1
  t2 = t2
  desk1 = desk1
  Users = {u1, u2}
  NoUser = NoUser
  Emitters = {t1, t2}
  Recipients = {desk1}
  EventTypes <- CaseEvents
  Entities = {1}
  MaxAlerts = 1
  MaxPlans = 3
  MaxRefused = 0
  MaxRequests = 3
  MaxCuts = 1
  d1 = d1
  d2 = d2
  Desks = {d1, d2}
  Drafts <- MCDrafts
  MaxCalls = 3
  MaxFailures = 1
SYMMETRY Symmetry
CHECK_DEADLOCK FALSE
INVARIANTS
  DecisionsAreFollowed
  MailedOnce
  UncontendedIsCoherent
PROPERTIES
  NothingIsTakenBack
