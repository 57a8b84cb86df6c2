SPECIFICATION CorpusSpec
CONSTANTS
  Byte <- MCByte
  Dense = {}
  ChunkLen = 2
  FieldMod = 64
  Bits = 2
  Width = 8
  Caller = {c1}
  NoCaller = NoCaller
  Name = {n1, n2}
  NoName = NoName
  Data <- MCData
  MaxEntries = 2
  Nul = 0
  EofByte = 255
  Junk = 999
  IntMod = 128
  PosMod = 256
  Thread = {t1, t2}
  NoThread = NoThread
  NoAnswer = NoAnswer
  Unknown = Unknown
  MaxReads = 2
  CrashIn = {"open", "header", "table", "zdata", "trailer", "fclose"}
SYMMETRY MCSymmetry
INVARIANT
  AnswersAreEntries
PROPERTY
  ImplementsTreebank
CHECK_DEADLOCK FALSE
