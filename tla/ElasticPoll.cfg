SPECIFICATION FairSpec
CONSTANTS
  N = 2
  Byte <- MCByte
  Input <- MCInput
  BufSize = 2
  PipeCap = 2
  After <- Independent
  Quitters = {1, 2}
INVARIANT TypeOK
PROPERTIES
  ImplementsTee
  EveryConsumerServed
