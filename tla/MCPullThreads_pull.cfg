SPECIFICATION FairSpec
CONSTANTS
  MaxFd = 7
  bc_trycount = 3
CHECK_DEADLOCK FALSE
INVARIANTS
  TypeOK
  DescriptorsIntact
  CrcThreadContained
  DestinationUntilAccept
PROPERTIES
  BroadcasterSparesTransfer
  BroadcasterEnds
  PullEnds
