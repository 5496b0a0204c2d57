SPECIFICATION Spec
CONSTANTS
  RxCpu = {c1, c2}
  WrCpu = {}
  Reader = {}
  Addr = {a1, a2}
  DataLen = {1, 2}
  None = None
  MaxPackets = 2
INVARIANT BytesExact
CHECK_DEADLOCK FALSE
