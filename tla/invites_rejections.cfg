SPECIFICATION StorySpec
CONSTANTS
  web = web
  web2 = web2
  alice = alice
  bob = bob
  Users <- TwoUsers
  Processes <- OneProcess
  BlockDays <- OneAndTwoDays
  MaxRejections = 2
  InviteDays = 1
  LastHour = 1
  MaxInvites = 2
  MaxKeys = 2
  MaxTotal = 4
  MaxDay = 1
  MaxFaults = 0
INVARIANTS
  RejectionsAreInvites
SYMMETRY Symmetry
CHECK_DEADLOCK FALSE
