SPECIFICATION Spec
CONSTANTS
  Machines <- MCMachines
  BlockSizes = {64, 1024}
  BLOCKS_PER_ZONE = 100
  MAX_BLOCKS = 2047
  HEADER = 72
  WORD = 8
INVARIANTS
  LayoutFits
  EnoughBlocks
  MetaIntact
