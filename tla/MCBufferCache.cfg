SPECIFICATION Spec
CONSTANTS
  BUFFER_CACHE_SIZE = 2
  DeviceSize = 3
  Data = {0, 1}
  Zero = 0
INVARIANTS
  TypeOK
  OneCopy
  CleanMatchesDisk
PROPERTIES
  SecondChance
  ImplementsSectorStore
