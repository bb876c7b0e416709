SPECIFICATION Spec
CONSTANTS
  Main = t1
  Threads = {t1, t2}
  MaxFd = 4
  MaxFile = 6
INVARIANTS
  TypeOK
  NoLeak
  ChildStreams
  NothingForgotten
  UsedOnce
PROPERTY UsesIntact
