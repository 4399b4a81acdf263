SPECIFICATION FairSpec
CONSTANTS
  Handles = {h1, h2}
  None = None
  PeerNames <- MCPeerNames
  OwnNames <- MCOwnNames
  MaxAlive = 2
  Streams = {s1}
  Acceptors = {a1, a2}
INVARIANTS
  DescriptorsOwned
  WatchesOwn
  NamesFresh
PROPERTY InputAnswered
CHECK_DEADLOCK FALSE
