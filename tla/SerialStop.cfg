SPECIFICATION FairSpec
CONSTANTS
  t1 = t1  t2 = t2  c1 = c1  c2 = c2
  s1 = s1  s2 = s2  p1 = p1  d1 = d1  k1 = k1
  NoToken = NoToken  StopMsg = StopMsg  NoMsg = NoMsg
  Tokens = {k1}
  Threads = {t1}
  Clients = {c1, c2}
  Tasks = {s1, s2, p1}
  TokenOf <- PairTokenOf
  Delayed = {}
  StopModes = {TRUE, FALSE}
  MaxStops = 1
INVARIANTS
  DispatchInv
  PlainBacklogRuns
  NoLostWakeup
PROPERTY StopEndsLoop
CHECK_DEADLOCK FALSE
