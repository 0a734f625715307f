CONSTANTS
  NumSectors = 12
  BLOCK_SECTOR_SIZE = 2
  DIRECT_BLOCKS_COUNT = 3
  INDIRECT_BLOCKS_PER_SECTOR = 2
  RootBlocks = 1
  Name = {a, b}
  a = a
  b = b
  Sizes = {1, 7}
SYMMETRY NameSymmetry
SPECIFICATION Spec
INVARIANT MapReadable
