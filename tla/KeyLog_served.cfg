SPECIFICATION FairSpec
CONSTANTS
  Proc = {p1}
  ReadLen = {1}
  MaxOpens = 1
  MaxReads = 1
  MaxKeys = 2
PROPERTY ReaderServed
CHECK_DEADLOCK FALSE
