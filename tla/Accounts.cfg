SPECIFICATION MCSpec
CONSTANTS
  Email = {"e1", "e2"}
  Name = {"n1", "n2"}
  Proc = {p1, p2}
  None = None
  Domain = "d"
  Provisioning = TRUE
  NullsCollide = FALSE
  MaxIds = 3
  MaxSubs = 3
  RuleId = {1, 2}
  MaxStarts = 3
  Beginnings <- MCBeginnings
  UsageUser = {u1, u2}
  UsageApp = {a1, a2}
  LastDay = 2
  MaxPending = 1
INVARIANTS
  IdentityAgrees
  NewcomersWereAllowed
  SeenMeansWritten
CHECK_DEADLOCK FALSE
