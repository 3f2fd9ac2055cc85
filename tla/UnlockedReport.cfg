SPECIFICATION ReportSpec
CONSTANTS
  a1 = a1
  a2 = a2
  a3 = a3
  a4 = a4
  t1 = t1
  t2 = t2
  NULL = NULL
  Addr <- Addr3
  Thread <- Threads1
  NBlocks <- TwoBlocks
  MAX_BLOCKS = 2
  TINY_BLOCK_SIZE = 1
  SMALL_BLOCK_SIZE = 2
  BLOCKS_PER_ZONE = 2
  Requests = {1, 3}
  PERROR = NULL
  PerrorSizes = {}
  HEADER = 2
  PAGE = 4
  PTRDIFF_MAX = 7
  SIZE_MAX = 15
SYMMETRY Symmetry
INVARIANTS
  ReadsMappedMemory
  ShowsWhatStays
