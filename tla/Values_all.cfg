SPECIFICATION AllSpec
CONSTANTS
  Writer = {p1, p2}
  VRAM_SIZE = 3
  Length = {0, 2, 4}
  Wrap = 16
  MaxCalls = 4
  MAX_INPUT_SIZE = 3
  RESULT_SIZE = 2
  ULong = 150
  Text <- Texts
  MaxWrites = 3
  U32 = 8
  Value = {1, 3, 7, 12}
  MaxAdds = 4
INVARIANTS TypesOK AccessInside WritesWhereReported SumOfBuffer ResultFits
  LosesOnlyOverlapped
CHECK_DEADLOCK FALSE
