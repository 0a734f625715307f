CONSTANTS
  Script <- MCScript
  Program <- MCProgram
  EndsWithNewline <- MCNewline
  varmemsize = 2
  TOTAL_FRAMES = 4
  PageTableSize = 9
  Directory <- MCDirectory
  Home = home
  Command <- EvictCommand
  MaxCommands = 1
  None = None
  one = one
  two = two
  home = home
  away = away
SPECIFICATION Spec
INVARIANT LinesBelongToTask
CHECK_DEADLOCK FALSE
