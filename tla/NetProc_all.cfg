SPECIFICATION FairSpec
CONSTANTS
  RxCpu = {c1, c2}
  WrCpu = {c1}
  Reader = {r1}
  Addr = {a1, a2}
  DataLen = {1, 2}
  None = None
  MaxPackets = 3
INVARIANTS TypeOK OneNodePerAddr ReadyUnlessLocked CountsExact
PROPERTIES PacketVerdict UnloadEnds ImplementsTable
CHECK_DEADLOCK FALSE
