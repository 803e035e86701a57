\* One key and its owner: the stamp of a key that was presented.
SPECIFICATION Spec
CONSTANTS
  Null = Null
  Name = {1, 2}
  Effects = {"deny"}
  Days = {1}
  Times = {1, 3}
  Interval = 1
  MaxArray = 1
  MaxRows = 2
VIEW MCView
INVARIANT PresentedKeyIsStamped
