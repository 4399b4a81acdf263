SPECIFICATION FairSpec
CONSTANTS
  Pushers = {p1, p2}
  Poppers = {c1}
  Nodes = {n1, n2, n3}
  MaxItems = 2
  Null = Null
  Junk = Junk
  NoItem = NoItem
INVARIANTS
  OneOwner
PROPERTIES
  ImplementsLifoStack
  CallsReturn
CHECK_DEADLOCK FALSE
