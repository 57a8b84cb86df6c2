SPECIFICATION Spec
CONSTANTS
  f1 = f1
  f2 = f2
  f3 = f3
  a = a
  b = b
  c = c
  File <- MCFile
  NoFile = NoFile
  Unreadable = Unreadable
  CorpusName <- MCCorpusName
  CorpusLists <- MCCorpusLists
  Interrupter = {u1, u2}
  Free = Free
  Iterating = Iterating
  MaxInterrupts = 2
INVARIANTS
  TypeOK
  InterruptTargetAlive
  DeliveredInOrder
  UninterruptedIsComplete
PROPERTIES
  InterruptReturns
  IterationEnds
CHECK_DEADLOCK FALSE
