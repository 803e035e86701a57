\* The verifier in its own process: no eviction reaches it, the TTLs bound how stale it is.
SPECIFICATION Spec
CONSTANTS
  ada = ada
  staff = staff
  sysadm = sysadm
  wiki = wiki
  wiki2 = wiki2
  s1 = s1
  s2 = s2
  Null = Null
  User = {ada}
  RoleKey = {staff, sysadm}
  AppKey = {wiki}
  Secret = {s1}
  Request = {r1}
  Proc = {p1}
  UserTtl = 2
  AppTtl = 1
  DecisionTtl = 1
  MaxRequest = 1
  MaxTime = 100
  SameProcess = FALSE
  Serial = FALSE
  Calls <- MCBounds
  Stores <- MCStores
  ProtectedRole = sysadm
  DemoApp = wiki
  SuperAdmin = {}
VIEW MCBoundsView
INVARIANTS
  GatewayTypeOK
  AllowIsJustified
  DisabledWithinUserTtl
  PublicIsJustified
