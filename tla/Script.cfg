SPECIFICATION Spec
CONSTANTS
  NNames = 2
  MaxPipes = 3
  MaxCmds = 3
  MaxArgs = 2
  Habits = {"unused", "nofork", "noexec"}
INVARIANTS TypeOK NeverClosesTwice StreamsAsWritten BarrierHolds
CHECK_DEADLOCK FALSE
