SPECIFICATION Spec
CONSTANTS
  NNames = 1
  MaxPipes = 3
  MaxCmds = 3
  MaxArgs = 2
  Habits = {"refused"}
INVARIANTS NothingLeftOpen
PROPERTY EveryScriptEnds
