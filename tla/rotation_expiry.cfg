SPECIFICATION FairSpec
CONSTANTS
  Alice = Alice
  Bob = Bob
  None = None
  Initiators <- OneInitiator
  MaxTasks = 1
  MaxEph = 1
  MaxTexts = 0
  MaxDrops = 0
  MaxCuts = 0
  MaxReloads = 0
  MaxExpired = 1
PROPERTY
  ExpiredEnds
CHECK_DEADLOCK FALSE
