SPECIFICATION Spec
CONSTANTS
  NNames = 2
  MaxPipes = 2
  MaxCmds = 3
  MaxArgs = 2
  Habits = {"refused", "errfiles", "execfork", "reused"}
INVARIANT NeverClosesTwice
