SPECIFICATION FairSpec
CONSTANTS
  U16 = 8
  U32 = 16
  U64 = 256
  SEGMENT_SIZE0 = 1
  SEGMENT_SIZE1 = 2
  SEGMENT_SIZE2 = 3
  SEGMENT_SIZE3 = 5
  FileSizes <- MCFileSizes
CHECK_DEADLOCK FALSE
INVARIANTS
  SizeRebuilt
  CoversFile
  RefusesMultiples
  ChunkInsideFile
PROPERTIES
  WalkEnds
