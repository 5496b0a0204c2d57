SPECIFICATION FairSpec
CONSTANTS
  Proc = {p1}
  ReadLen = {0, 1, 3}
  MaxOpens = 2
  MaxReads = 2
  MaxKeys = 4
INVARIANTS ReadOwnsKbuf LatestKeyFirst
PROPERTY QueuedExitCompletes
CHECK_DEADLOCK FALSE
