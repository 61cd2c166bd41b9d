SPECIFICATION Spec
CONSTANTS
  Alice = Alice
  Bob = Bob
  None = None
  Initiators <- OneInitiator
  MaxTasks = 2
  MaxEph = 2
  MaxTexts = 1
  MaxDrops = 0
  MaxCuts = 0
  MaxReloads = 0
  MaxExpired = 0
INVARIANT
  ArrivalsReadable
CHECK_DEADLOCK FALSE
