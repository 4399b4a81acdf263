SPECIFICATION FairSpec
CONSTANTS
  Clients = {c1}
  Tasks = {m1, m2}
  StopWhen = "answered"
  MaxStops = 1
  Destroys = TRUE
  StopMsg = StopMsg
  NoMsg = NoMsg
PROPERTY DestructorReturns
CHECK_DEADLOCK FALSE
