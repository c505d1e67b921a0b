SPECIFICATION Spec
CONSTANTS
  U16 = 16
  U32 = 8
  U64 = 1024
  SEGMENT_SIZE0 = 2
  SEGMENT_SIZE1 = 2
  SEGMENT_SIZE2 = 2
  SEGMENT_SIZE3 = 2
  Byte = {0, 1}
  Files <- MCEveryFile
  ChSize = 4
  Avail = 10
  PushTry = 3
  PullTry = 3
  Crc16 <- MCStrongCrc
  Crc32 <- MCStrongCrc
  Patient = TRUE
  Budget <- MCDamage
INVARIANTS
  DamageRepaired
  CleanTransferOutcome
  OutcomesAgree
