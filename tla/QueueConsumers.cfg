SPECIFICATION Spec
CONSTANTS
  Producers = {p1}
  Consumers = {c1, c2}
  Askers = {}
  Nodes = {n1, n2, n3, n4}
  MaxItems = 3
  Moves = FALSE
  Null = Null
  Junk = Junk
  NoItem = NoItem
SYMMETRY Symmetry
INVARIANTS
  ProtectionInv
  DestructorFreesAll
PROPERTY ImplementsFifoQueue
CHECK_DEADLOCK FALSE
