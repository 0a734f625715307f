SPECIFICATION Spec
CONSTANTS
  FRAME_STORE_SIZE = 12
  VAR_STORE_SIZE = 3
  Script <- MCScript
  Program <- MCProgram
  EndsWithNewline = {}
  x = x
  one = one
  two = two
  Var = {x}
  Value = {one, two}
  None = None
  MaxPid = 3
PROPERTY
  FaultToHead
