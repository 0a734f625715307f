CONSTANTS
  a = a
  b = b
  c = c
  d = d
  long = long
  i1 = i1
  i2 = i2
  i3 = i3
  i4 = i4
  Name = {a, b, c, d, long}
  TooLong = {long}
  Sector = {i1, i2, i3, i4}
  None = None
  EntryCnt = 3
  MaxSlots = 5
SYMMETRY Symmetry
SPECIFICATION Spec
INVARIANTS TypeOK HandlesBalanced
PROPERTY ImplementsNameMap
CHECK_DEADLOCK FALSE
