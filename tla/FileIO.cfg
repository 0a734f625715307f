CONSTANTS
  Name = {a}
  a = a
  x = x
  y = y
  NUL = NUL
  Byte = {NUL, x, y}
  Text <- MCText
  Sizes = {0, 3}
  Absent = Absent
  Closed = Closed
  BLOCK_SECTOR_SIZE = 2
  MaxLength = 6
SPECIFICATION Spec
INVARIANTS TypeOK TextsFollow ZeroPastEnd
PROPERTIES ImplementsByteFile CommandsEnd
