SPECIFICATION Spec
CONSTANTS
  Alice = Alice
  Bob = Bob
  None = None
  Initiators <- BothInitiate
  MaxTasks = 2
  MaxEph = 2
  MaxTexts = 0
  MaxDrops = 1
  MaxCuts = 0
  MaxReloads = 0
  MaxExpired = 0
INVARIANTS
  TypeOK
  SameRotationSameKey
CHECK_DEADLOCK FALSE
