SPECIFICATION FairSpec
CONSTANTS
  Producers = {p1, p2}
  Consumers = {c1}
  Askers = {c1}
  Nodes = {n1, n2, n3}
  MaxItems = 2
  Moves = TRUE
  Null = Null
  Junk = Junk
  NoItem = NoItem
INVARIANTS
  ItemsConserved
  EmptyAnswers
PROPERTY CallsReturn
CHECK_DEADLOCK FALSE
