SPECIFICATION AllSpec
CONSTANTS
  RecLen = 2
  BufSize = 6
  MaxLen = 4
  Size = {1, 3, 8}
  Tasks = 4
  Before = 3
  User = {1, 3, 4}
  Cpu = {c1, c2, c3}
  Packet = {1, 2, 3}
  Icmp = {1}
  None = None
  Caller = {p1, p2, p3}
  MaxCpus = 3
INVARIANTS TypesOK RecordsWhole OnlyFirstBuffer WalkSeesAll
  VerdictOfOverlap StuckOnlyBySleep
PROPERTIES StopEnds WalkEnds CallReturns
CHECK_DEADLOCK FALSE
