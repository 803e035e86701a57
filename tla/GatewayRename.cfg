\* renameApp leaves the user cache alone.
SPECIFICATION Spec
CONSTANTS
  ada = ada
  staff = staff
  sysadm = sysadm
  wiki = wiki
  wiki2 = wiki2
  s1 = s1
  s2 = s2
  Null = Null
  User = {ada}
  RoleKey = {staff, sysadm}
  AppKey = {wiki, wiki2}
  Secret = {s1}
  Request = {r1}
  Proc = {p1}
  UserTtl = 2
  AppTtl = 2
  DecisionTtl = 2
  MaxRequest = 1
  MaxTime = 100
  SameProcess = TRUE
  Serial = TRUE
  Calls <- MCRename
  Stores <- MCStoresDeny
  ProtectedRole = sysadm
  DemoApp = wiki
  SuperAdmin = {}

VIEW MCSerialView
INVARIANTS
  NextRequestSeesDenial
