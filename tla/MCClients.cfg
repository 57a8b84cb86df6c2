SPECIFICATION Spec
CONSTANTS
  a = a
  b = b
  folder = folder
  note = note
  q1 = q1
  q2 = q2
  x = x
  y = y
  Name <- MCName
  Natural <- MCNatural
  Numerical <- MCNumerical
  Xml <- MCXml
  Regular <- MCRegular
  Query = {q1, q2}
  Result = {x, y}
  Hits <- MCHits
  NoName = NoName
  Plain = Plain
  Styled = Styled
  Handle = {h1, h2}
  Request <- MCRequest
  MaxChanges = 1
  Corpora <- MCCorpora
  MaxArgs = 3
  Wanted = 1
SYMMETRY MCSymmetry
INVARIANTS
  ResultsExact
  SharedIsSplit
  SizeAgrees
  ExitZeroIsComplete
  SourceSurvives
CHECK_DEADLOCK FALSE
