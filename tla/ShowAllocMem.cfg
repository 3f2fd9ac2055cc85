SPECIFICATION Spec
CONSTANTS
  Heaps <- MCHeaps
  WORD = 8
  BLOCK_HEADER = 40
  WordBits = 16
  ROW = 4
  OFFSETS = 16
INVARIANTS
  ShowsTheHeap
  DumpsEveryByte
  HexFitsBuffer
CHECK_DEADLOCK FALSE
