SPECIFICATION Spec
CONSTANTS
  Byte <- MCByte
  ChunkLen = 2
  Nul = 0
  EofByte = 255
  Junk = 999
  IntMod = 16
  PosMod = 256
  Bits = 2
  Width = 8
  Thread = {t1, t2}
  NoThread = NoThread
  n1 = n1
  n2 = n2
  n3 = n3
  Name <- MCName
  NoAnswer = NoAnswer
  Unknown = Unknown
  MaxReads = 3
  Archives <- AllArchives
INVARIANTS
  SoundCorpusRead
  ForeignBytesNeverReturned
PROPERTY
  EveryReadReturns
CHECK_DEADLOCK FALSE
