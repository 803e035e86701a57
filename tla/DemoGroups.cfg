\* One persona; a visitor writes to the app groups alone.
SPECIFICATION DemoSpec
CONSTANTS
  Persona = {p1}
  Visited = {"appGroups"}
  Ids = 2
INVARIANT EveryCollectionIsWiped
