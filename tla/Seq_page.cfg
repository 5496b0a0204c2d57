SPECIFICATION FairSpec
CONSTANTS
  RecLen = 2
  BufSize = 6
  MaxLen = 3
  Size = {3, 8}
PROPERTY AllListed
CHECK_DEADLOCK FALSE
