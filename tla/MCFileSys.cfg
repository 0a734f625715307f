CONSTANTS
  NumSectors = 16
  BLOCK_SECTOR_SIZE = 2
  DIRECT_BLOCKS_COUNT = 3
  INDIRECT_BLOCKS_PER_SECTOR = 2
  RootBlocks = 1
  Name = {a, b}
  a = a
  b = b
  Sizes = {1, 11}
SYMMETRY NameSymmetry
SPECIFICATION Spec
CONSTRAINT LeakBound
INVARIANTS TypeOK UsedIsMarked NoSharing ContentsKept MapSaved SpaceAssertsHold OpenInodesAgree
PROPERTIES LostOnlyOnErrorOrFull RemoveFreesAll
