SPECIFICATION FairSpec
CONSTANTS
  w1 = w1
  w2 = w2
  s1 = s1
  s2 = s2
  peer = peer
  Windows <- TwoWindows
  Sockets <- TwoSockets
  Pushers <- OnePeer
  None = None
  Prompt = TRUE
  MaxOpens = 2
  MaxLosses = 1
  MaxFails = 1
INVARIANTS
  TypeOK
  OpenIsRegistered
PROPERTIES
  GhostEnds
  Settles
CHECK_DEADLOCK FALSE
