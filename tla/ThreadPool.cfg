SPECIFICATION FairPoolSpec
CONSTANTS
  Posters = {c1}
  Sizes = {2, 3}
  Tokens = {k1}
  Weak = FALSE
  MaxTasks = 5
  MaxPoolStops = 2
INVARIANTS
  Balanced
PROPERTIES
  PostReturns
  StopWaits
CHECK_DEADLOCK FALSE
