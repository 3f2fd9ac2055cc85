SPECIFICATION Spec
CONSTANTS
  a1 = a1
  a2 = a2
  a3 = a3
  a4 = a4
  a5 = a5
  NULL = NULL
  Addr <- Addr3
  NBlocks <- TwoBlocks
  MAX_BLOCKS = 2
  TINY_BLOCK_SIZE = 1
  SMALL_BLOCK_SIZE = 2
  BLOCKS_PER_ZONE = 2
  Requests = {1, 2, 3}
  PTRDIFF_MAX = 5
SYMMETRY Symmetry
INVARIANTS
  TypeOK
  BlocksAccounted
PROPERTIES
  Refinement
