SPECIFICATION Spec
CONSTANTS
  MAXFILENAMESIZE = 3
  MAXNAMESIZE = 4
  MAXIPV4SIZE = 2
  INFOSTRSIZE = 11
  Ports = {"1", "2"}
  Byte = 4
  Plans <- MCPlans
  Headers <- MCHeaders
CHECK_DEADLOCK FALSE
INVARIANTS
  InFrame
  WholePacketsPulled
  RoundTrip
  AddressSurvives
