SPECIFICATION StreamSpec
CONSTANTS
  Byte <- MCByte
  Dense = {1}
  ChunkLen = 3
  FieldMod = 65536
  Block <- MCBlock
  MaxSent = 8
INVARIANTS
  DzTypeOK
  ChunkAddressing
  ArchiveComplete
  FinalFlushHasInput
PROPERTY
  ArchiveGrowsOnly
CHECK_DEADLOCK FALSE
