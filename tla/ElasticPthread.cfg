SPECIFICATION FairSpec
CONSTANTS
  N = 2
  Byte <- MCByte
  Input <- MCInput
  MaxChunk = 2
  PipeCap = 1
  After <- InOrder
  Quitters = {2}
INVARIANTS
  TypeOK
  NoAppendAfterFree
  CleanupAfterJoin
PROPERTIES
  ImplementsTee
  InputIsDrained
  EveryConsumerServed
