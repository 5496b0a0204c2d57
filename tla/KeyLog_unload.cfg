SPECIFICATION Spec
CONSTANTS
  Proc = {p1}
  ReadLen = {1}
  MaxOpens = 1
  MaxReads = 1
  MaxKeys = 1
INVARIANT UnloadWaitsForRead
CHECK_DEADLOCK FALSE
