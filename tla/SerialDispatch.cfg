SPECIFICATION FairSpec
CONSTANTS
  t1 = t1  t2 = t2  c1 = c1  c2 = c2
  s1 = s1  s2 = s2  p1 = p1  d1 = d1  k1 = k1
  NoToken = NoToken  StopMsg = StopMsg  NoMsg = NoMsg
  Tokens = {k1}
  Threads = {t1, t2}
  Clients = {c1, c2}
  Tasks = {s1, s2, d1}
  TokenOf <- TimedTokenOf
  Delayed = {d1}
  StopModes = {}
  MaxStops = 0
INVARIANTS
  TokenMutex
  SerialOrder
PROPERTIES
  ImplementsSerialExecutor
  AllTasksRun
CHECK_DEADLOCK FALSE
