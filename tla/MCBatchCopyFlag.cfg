SPECIFICATION Spec
CONSTANTS
  Job = {j1}
  NoJob = NoJob
  n1 = n1
  n2 = n2
  n3 = n3
  Name <- MCName
  Sources <- OneBad
INVARIANT
  FailsafeKeepsWriting
CHECK_DEADLOCK FALSE
