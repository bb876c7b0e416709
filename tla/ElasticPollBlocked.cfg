SPECIFICATION FairSpec
CONSTANTS
  N = 2
  Byte <- MCByte
  Input <- MCInput
  BufSize = 2
  PipeCap = 1
  After <- Independent
  Quitters = {}
PROPERTY InputIsDrained
