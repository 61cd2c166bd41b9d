SPECIFICATION Spec
CONSTANTS
  Alice = Alice
  Bob = Bob
  None = None
  Initiators <- OneInitiator
  MaxTasks = 2
  MaxEph = 2
  MaxTexts = 0
  MaxDrops = 0
  MaxCuts = 1
  MaxReloads = 1
  MaxExpired = 1
INVARIANTS
  KeyOrigin
  OneAnswer
  StoredInOrder
  WaitingHoldsSecret
CHECK_DEADLOCK FALSE
