SPECIFICATION FairSpec
CONSTANTS
  e1 = e1  e2 = e2  l1 = l1  l2 = l2
  Events = {e1, e2}
  Loops = {l1, l2}
  None = None
  Timeouts = {0, 1}
  Numbers = {n1}
  Files = {f1}
  Flags = {"read"}
  MaxTime = 2
  Systems <- AllSystems
  MainLoop = l1
  MaxSends = 3
INVARIANTS
  NoDangling
PROPERTIES
  StoppedIsSilent
  IdleWhenIdle
  WakeUp
  IdleRuns
CHECK_DEADLOCK FALSE
