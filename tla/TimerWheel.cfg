SPECIFICATION FairSpec
CONSTANTS
  MaxRequests = 3
  Timeouts = {1, 2}
  MaxTime = 4
  LastCall = 1
  Wheels = {w1, w2}
  None = None
INVARIANTS
  MapsAgree
  ArmedWhileNeeded
PROPERTIES
  FiresInTime
  EveryRequestEnds
CHECK_DEADLOCK FALSE
