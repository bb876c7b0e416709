SPECIFICATION FairSpec
CONSTANTS
  N = 2
  Byte <- MCByte
  Input <- MCShortInput
  MaxChunk = 1
  PipeCap = 1
  After <- InReverse
  Quitters = {}
PROPERTY EveryConsumerServed
