SPECIFICATION Spec
CONSTANTS
  NNames = 1
  MaxPipes = 2
  MaxCmds = 3
  MaxArgs = 2
  Habits = {"noexec"}
PROPERTY EveryScriptEnds
CHECK_DEADLOCK FALSE
