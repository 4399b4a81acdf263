SPECIFICATION FairSpec
CONSTANTS
  Clients = {c1, c2}
  Tasks = {m1, m2, m3}
  StopWhen = "looping"
  MaxStops = 2
  Destroys = TRUE
  StopMsg = StopMsg
  NoMsg = NoMsg
INVARIANT LateStopInv
PROPERTIES
  MessagesHandled
  DestructorReturns
CHECK_DEADLOCK FALSE
