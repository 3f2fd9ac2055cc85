SPECIFICATION Spec
CONSTANTS
  a1 = a1
  a2 = a2
  a3 = a3
  a4 = a4
  a5 = a5
  NULL = NULL
  Addr <- Addr3
  NBlocks <- TwoBlocks
  MAX_BLOCKS = 2
  TINY_BLOCK_SIZE = 2
  SMALL_BLOCK_SIZE = 3
  BLOCKS_PER_ZONE = 2
  Requests = {0, 1, 2, 4, 5}
  PTRDIFF_MAX = 5
SYMMETRY Symmetry
INVARIANTS
  ShowsBlocksInUse
PROPERTIES
  ShowsFirstRequest
