SPECIFICATION FairSpec
CONSTANTS
  a1 = a1
  a2 = a2
  a3 = a3
  t1 = t1
  t2 = t2
  t3 = t3
  NULL = NULL
  Addr <- Addr3
  Thread <- Threads3
  NBlocks <- TwoBlocks
  MAX_BLOCKS = 2
  TINY_BLOCK_SIZE = 1
  SMALL_BLOCK_SIZE = 2
  BLOCKS_PER_ZONE = 2
  Requests = {3}
  PERROR = t3
  PerrorSizes = {1}
  HEADER = 2
  PAGE = 4
  PTRDIFF_MAX = 7
  SIZE_MAX = 15
PROPERTIES
  CallsFinish
