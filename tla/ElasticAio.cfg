SPECIFICATION FairSpec
CONSTANTS
  N = 2
  Byte <- MCByte
  Input <- MCInput
  MaxChunk = 2
  PipeCap = 1
  After <- Independent
  Quitters = {1, 2}
INVARIANT TypeOK
PROPERTIES
  ImplementsTee
  BufferOfRequestStable
  InputIsDrained
  EveryConsumerServed
