SPECIFICATION Spec
CONSTANTS
  FRAME_STORE_SIZE = 11
  VAR_STORE_SIZE = 3
  Script <- IrregularScript
  Program <- IrregularProgram
  EndsWithNewline = {"n1", "n4"}
  x = x
  one = one
  two = two
  Var = {x}
  Value = {one}
  None = None
  MaxPid = 3
INVARIANTS
  OwnLinesOnce
