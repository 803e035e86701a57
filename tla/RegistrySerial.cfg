\* One handler at a time.
SPECIFICATION RSpec
CONSTANTS
  ada = ada
  root = root
  staff = staff
  crew = crew
  sysadm = sysadm
  wiki = wiki
  wiki2 = wiki2
  s1 = s1
  s2 = s2
  Null = Null
  User <- MCUser
  RoleKey <- MCRoleKey
  AppKey <- MCAppKey
  Secret <- MCSecret
  SuperAdmin <- MCSuperAdmin
  ProtectedRole = sysadm
  DemoApp = wiki
  Proc = {p1}
  Calls <- MCCalls
  Stores <- MCStores
VIEW MCView
INVARIANTS
  RegistryTypeOK
  NoDanglingApp
  OneOverridePerApp
  AppRenameKeepsAccess
  RoleChangeReachesHolders
  InactiveHasNoSession
  NoLockout
