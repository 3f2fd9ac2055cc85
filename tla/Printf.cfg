SPECIFICATION PrintfSpec
CONSTANTS
  LongBits = 8
  INT_MAX = 31
  Pieces <- MCPieces
  MaxPieces = 2
  NUL = NUL
INVARIANTS
  StaysInFormat
  ReturnCountsOutput
  WritesWhatWasMeant
CHECK_DEADLOCK FALSE
