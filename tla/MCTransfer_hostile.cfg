SPECIFICATION Spec
CONSTANTS
  U16 = 16
  U32 = 6
  U64 = 1024
  SEGMENT_SIZE0 = 2
  SEGMENT_SIZE1 = 2
  SEGMENT_SIZE2 = 2
  SEGMENT_SIZE3 = 2
  Byte = {0, 1}
  Files <- MCBoundaryFile
  ChSize = 3
  Avail = 8
  PushTry = 2
  PullTry = 2
  Crc16 <- MCWeakCrc
  Crc32 <- MCWeakCrc
  Patient = FALSE
  Budget <- MCHostile
INVARIANTS
  TypeOK
  SuccessVerified
  PullSuccessComplete
  NeverDesynchronised
  RepliesInOrder
  RetryLockstep
  SegmentsHaveASocket
  AcceptedChunksMatch
  IInv
PROPERTIES
  AcceptedChunksStable
