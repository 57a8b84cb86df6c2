SPECIFICATION Spec
CONSTANTS
  DIGIT_COUNT = 2
  f1 = f1
  f2 = f2
  f3 = f3
  dir = dir
  Name <- MCName
  File <- MCFile
  Directory = dir
  WalkOrder <- MCWalkOrder
  Stem <- MCStem
  Extension <- MCExtension
  EntriesOf <- MCEntriesOf
  Disks <- MCDisks
  Kind <- MCKind
  MaxVersion = 2
INVARIANTS
  MapOfList
  ReadBack
  SizeIsEntries
CHECK_DEADLOCK FALSE
