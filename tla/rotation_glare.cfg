SPECIFICATION Spec
CONSTANTS
  Alice = Alice
  Bob = Bob
  None = None
  Initiators <- BothInitiate
  MaxTasks = 1
  MaxEph = 2
  MaxTexts = 0
  MaxDrops = 0
  MaxCuts = 0
  MaxReloads = 0
  MaxExpired = 0
INVARIANT
  QuietAgreement
CHECK_DEADLOCK FALSE
