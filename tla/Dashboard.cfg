\* Two requests, two users, two apps, a proxy of five rows of which two pages are read.
SPECIFICATION Spec
CONSTANTS
  Null = Null
  Step = 4
  Midnight <- MCMidnight
  Ln <- MCLn
  BoostMax = 5
  CostShare = 8
  MinScaleMax = 6
  User = {1, 2}
  App = {1, 2}
  Request = {1, 2}
  PullId = {1, 2, 3, 4}
  Log <- MCLog
  Keys <- MCKeys
  PageSize <- MCPageSize
  Clock <- MCClock
  RankDays = 2
  HeatDays = 3
  TopLimit = 1
  MaxPages = 2
  CacheTtl = 3
  Timeout = 3
  MaxEntries = 1
  PerUser = TRUE
  MaxRows = 3
  Served <- MCServed
  Horizon = 18
  Wanted <- MCWanted
INVARIANTS
  DashboardTypeOK
  PullsAreShared
  CacheHoldsPulls
  SectionFailsOnce
  NoSilentLoss
  RankingIsFair
  TopListsAreFull
  HeatmapDrawsWindow
PROPERTY
  EveryPageAnswers
CHECK_DEADLOCK FALSE
