SPECIFICATION FairSpec
CONSTANTS
  MAXFILENAMESIZE = 4
  MAXNAMESIZE = 5
  MAXIPV4SIZE = 4
  INFOSTRSIZE = 16
  Ports = {"1"}
  Casters = {"p", "q"}
  Addrs <- MCMixed
  TPS = 2
  bc_interval = 1
  bc_trycount = 2
  sp_interval = 2
  sp_trycount = 2
  spt_cast = 1
  MaxNow = 6
  MaxQueue = 2
  Worlds <- MCWorlds
CHECK_DEADLOCK FALSE
INVARIANTS
  PairsGenuine
  GivesUpForReason
  ReturnsInTime
  FindsEveryone
PROPERTIES
  ScanReturns
