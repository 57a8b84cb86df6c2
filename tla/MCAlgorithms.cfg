SPECIFICATION Spec
CONSTANTS
  DIGIT_COUNT = 2
  Bits = 3
  Width = 8
  MaxLen = 4
  MaxName = 3
  MaxPieces = 2
  MaxElements = 4
  LexicalElement = "node"
INVARIANTS
  RoundTrip
  ExactOrRefused
  OrderedByKey
  MacrosAsWritten
  CutFileRefused
  ExpandedAsWritten
  MatchesDominated
  BracketsNest
CHECK_DEADLOCK FALSE
