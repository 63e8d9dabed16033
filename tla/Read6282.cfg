SPECIFICATION Spec
CONSTANTS
  Sizes = {0, 1, 2, 3, 4, 5, 6, 7}
  Loops = {"read_ef"}
  Endings = {"6282"}
  ReadChunk = 3
  SfiFrom = 8
  OffsetSpan = 16
  MaxReads = 10
  MaxOffset = 18
INVARIANTS
  WholeFileReturned
CHECK_DEADLOCK FALSE
