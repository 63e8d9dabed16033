SPECIFICATION Spec
CONSTANTS
  Sizes = {0, 1, 2, 3, 4, 5, 6, 7, 8, 9, 12}
  Loops = {"read_ef", "card_access"}
  Endings = {"empty", "6B00", "6282", "6700", "padding"}
  ReadChunk = 3
  SfiFrom = 8
  OffsetSpan = 16
  MaxReads = 10
  MaxOffset = 18
INVARIANTS
  CompleteOnReturn
  StopsInTime
CHECK_DEADLOCK FALSE
