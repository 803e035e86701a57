\* Two groups, apps and administrators; a persona, and a seeded collection that a visitor
\* writes; two users, roles, apps and keys, two days, arrays of two members.
SPECIFICATION PartsSpec
VIEW PartsView
CONSTANTS
  Group = {1, 2}
  Tile = {1, 2}
  Admin = {h1, h2}
  Nothing = Nothing
  MaxPosition = 1
  Persona = {p1}
  Visited = {"apps"}
  Ids = 2
  Null = Null
  Name = {1, 2}
  Effects = {"allow", "deny"}
  Days = {1, 2}
  Times = {1, 3}
  Interval = 1
  MaxArray = 2
  MaxRows = 3
INVARIANTS
  LauncherShowsEveryApp
  OrderIsAsked
  ResetLeavesOnlySeed
  SignedInMeansArmed
  StoreTypeOK
  OneRowPerKey
  PrefilterKeepsMatches
PROPERTIES
  ArmedResetHappens
  ImplementsFacts
