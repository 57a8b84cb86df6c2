SPECIFICATION Spec
CONSTANTS
  Job = {j1, j2}
  NoJob = NoJob
  n1 = n1
  n2 = n2
  n3 = n3
  Name <- MCName
  Sources <- MCSources
INVARIANTS
  EachEntryOnce
  DoneMeansCopied
  ToolWritesNoNameTwice
PROPERTY
  CopyEnds
CHECK_DEADLOCK FALSE
