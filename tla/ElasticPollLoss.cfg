SPECIFICATION Spec
CONSTANTS
  N = 2
  Byte <- MCByte
  Input <- MCInput
  BufSize = 2
  PipeCap = 2
  After <- Independent
  Quitters = {}
INVARIANT EchoesWholeInput
