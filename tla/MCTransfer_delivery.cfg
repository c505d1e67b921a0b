SPECIFICATION Spec
CONSTANTS
  U16 = 16
  U32 = 6
  U64 = 1024
  SEGMENT_SIZE0 = 1
  SEGMENT_SIZE1 = 1
  SEGMENT_SIZE2 = 1
  SEGMENT_SIZE3 = 1
  Byte = {0, 1}
  Files <- MCShortFile
  ChSize = 2
  Avail = 4
  PushTry = 2
  PullTry = 3
  Crc16 <- MCWeakCrc
  Crc32 <- MCWeakCrc
  Patient = FALSE
  Budget <- MCAll
PROPERTIES
  ImplementsDelivery
  PusherTerminates
  PullerTerminates
CHECK_DEADLOCK FALSE
