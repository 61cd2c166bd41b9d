SPECIFICATION FairSpec
CONSTANTS
  Alice = Alice
  Bob = Bob
  None = None
  Initiators <- OneInitiator
  MaxTasks = 2
  MaxEph = 2
  MaxTexts = 1
  MaxDrops = 1
  MaxCuts = 1
  MaxReloads = 0
  MaxExpired = 1
INVARIANT
  QuietAgreement
PROPERTY
  AcceptedCompletes
CHECK_DEADLOCK FALSE
