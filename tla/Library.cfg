SPECIFICATION MCSpec
CONSTANTS
    KvStarts <- KvCases
    Characters <- StreamCharacters
    StreamStarts <- StreamCases
    ArgStarts <- ArgCases
    MasciiStarts <- MasciiCases
    SxprotoStarts <- SxprotoCases
    SchemaLists <- Schemas
    Bits = 9
    NumMax = 4
    EditsMax = 2
    MinBlock = 8
    HeaderSize = 3
    HeaderAlign = 2
    Bases = {0, 4, 12, 20, 36}
    AllocSizes = {0, 1, 3, 9}
    Alignments = {1, 2, 8}
    AllocMax = 2
INVARIANTS
    KvHoldsDict KvVisitsOnce KvNodesKept KvShaped
    StreamsKeepOrder StreamsReadWhole StreamsParseBack
    ArgsClaimOnce ArgsNeverSteal
    MasciiFindsFirst AllocSound
    SxpbRoundTrip  SxpbEditsHold
CHECK_DEADLOCK FALSE
