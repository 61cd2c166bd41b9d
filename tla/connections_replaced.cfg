SPECIFICATION FairSpec
CONSTANTS
  w1 = w1
  w2 = w2
  s1 = s1
  s2 = s2
  peer = peer
  Windows <- TwoWindows
  Sockets <- TwoSockets
  Pushers = {}
  None = None
  Prompt = TRUE
  MaxOpens = 2
  MaxLosses = 0
  MaxFails = 0
PROPERTY
  ReplacementStays
CHECK_DEADLOCK FALSE
