SPECIFICATION Spec
CONSTANTS
  Proc = {p1, p2}
  ReadLen = {1, 2}
  MaxOpens = 2
  MaxReads = 2
  MaxKeys = 2
SYMMETRY Symmetry
INVARIANTS TypeOK NoLostWakeup NoStrayHandler CountExact
CHECK_DEADLOCK FALSE
