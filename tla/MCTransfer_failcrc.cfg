SPECIFICATION Spec
CONSTANTS
  U16 = 16
  U32 = 6
  U64 = 1024
  SEGMENT_SIZE0 = 1
  SEGMENT_SIZE1 = 1
  SEGMENT_SIZE2 = 1
  SEGMENT_SIZE3 = 1
  Byte = {0, 1}
  Files <- MCOnlyBeyond
  ChSize = 2
  Avail = 8
  PushTry = 2
  PullTry = 2
  Crc16 <- MCStrongCrc
  Crc32 <- MCStrongCrc
  Patient = TRUE
  Budget <- MCNone
INVARIANTS
  PullSuccessVerified
