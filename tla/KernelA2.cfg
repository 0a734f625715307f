CONSTANTS
  Script <- MCScript
  Program <- MCProgram
  EndsWithNewline <- MCNewline
  varmemsize = 2
  TOTAL_FRAMES = 6
  PageTableSize = 9
  Directory <- MCDirectory
  Home = home
  Command <- MCCommand
  MaxCommands = 3
  None = None
  one = one
  two = two
  home = home
  away = away
SPECIFICATION Spec
INVARIANTS TypeOK PagesInPlace InOrder NoCrash OnePlace PromptClean
PROPERTIES PromptReturns
CHECK_DEADLOCK FALSE
