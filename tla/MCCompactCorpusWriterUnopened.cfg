SPECIFICATION Spec
CONSTANTS
  Byte <- MCByte
  Dense = {}
  ChunkLen = 2
  FieldMod = 65536
  Bits = 2
  Width = 8
  Caller = {c1, c2}
  NoCaller = NoCaller
  Name = {n1}
  NoName = NoName
  Data <- MCData
  MaxEntries = 1
INVARIANT
  WrittenIsKept
CHECK_DEADLOCK FALSE
