SPECIFICATION Spec
CONSTANTS
  a1 = a1
  a2 = a2
  a3 = a3
  t1 = t1
  t2 = t2
  t3 = t3
  NULL = NULL
  Addr <- Addr3
  Thread <- Threads2
  NBlocks <- TwoBlocks
  MAX_BLOCKS = 2
  TINY_BLOCK_SIZE = 1
  SMALL_BLOCK_SIZE = 2
  BLOCKS_PER_ZONE = 2
  Requests = {2, 3, 15}
  PERROR = NULL
  PerrorSizes = {}
  HEADER = 2
  PAGE = 4
  PTRDIFF_MAX = 7
  SIZE_MAX = 15
SYMMETRY Symmetry
INVARIANTS
  BlocksAccounted
  RequestsBacked
  ListsConsistent
  OldTypeCurrent
  NoDataRace
  SetupOnce
  NullNeedsMmapFailure
PROPERTIES
  Refinement
