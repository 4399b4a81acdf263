SPECIFICATION Spec
CONSTANTS
  Allocators = {a1}
  Deallocators = {d1}
  Nodes = {n1, n2, n3, n4}
  Pooled = {n1, n2}
  Null = Null
  Junk = Junk
INVARIANTS
  NoLeak
  FreelistInv
  DestructorAssertions
PROPERTY ImplementsNodePool
CHECK_DEADLOCK FALSE
