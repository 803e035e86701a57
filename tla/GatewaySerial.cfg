\* One process, requests and handlers never overlap: the evictions alone.
SPECIFICATION Spec
CONSTANTS
  ada = ada
  staff = staff
  sysadm = sysadm
  wiki = wiki
  wiki2 = wiki2
  s1 = s1
  s2 = s2
  Null = Null
  User = {ada}
  RoleKey = {staff, sysadm}
  AppKey = {wiki}
  Secret = {s1}
  Request = {r1}
  Proc = {p1}
  UserTtl = 2
  AppTtl = 2
  DecisionTtl = 2
  MaxRequest = 0
  MaxTime = 100
  SameProcess = TRUE
  Serial = TRUE
  Calls <- MCChanges
  Stores <- MCStores
  ProtectedRole = sysadm
  DemoApp = wiki
  SuperAdmin = {}
VIEW MCSerialView
INVARIANTS
  NextRequestSeesDenial
  NextRequestSeesApp
