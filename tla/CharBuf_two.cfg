SPECIFICATION Spec
CONSTANTS
  Proc = {p1, p2}
  Byte = {0, 1, 2}
  MAXBUFF = 5
  IdLen = 2
  Target <- Linux
  Chunk <- Strings
  Count = {1}
  MaxWrites = 3
  None = None
SYMMETRY Symmetry
INVARIANTS TypeOK StringEnds VerdictWhenAlone LastStoreShown
CHECK_DEADLOCK FALSE
