SPECIFICATION StorySpec
CONSTANTS
  web = web
  web2 = web2
  alice = alice
  bob = bob
  Users <- TwoUsers
  Processes <- TwoProcesses
  BlockDays <- OneAndTwoDays
  MaxRejections = 2
  InviteDays = 1
  LastHour = 1
  MaxInvites = 2
  MaxKeys = 2
  MaxTotal = 6
  MaxDay = 4
  MaxFaults = 1
INVARIANTS
  TypeOK
  OneLiveInvite
  ContactsShareKey
  BlocksEarned
PROPERTIES
  WithdrawnIsFinal
SYMMETRY Symmetry
CHECK_DEADLOCK FALSE
