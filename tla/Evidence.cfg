\* p = 7 and q = 3, of order 6, above the longest window
CONSTANTS
    P = 7
    Q = 3
    Word = 256
    MaxLen = 4
    ChunkSize = 2
    Events <- SomeEvents
    Old <- OldStream
    Label <- Window
    Labels <- Windows
SPECIFICATION Spec
INVARIANTS
    VerdictExact
    VerdictKind
    SwapLocalised
    ChunksTile
    TruncationSeenByChunks
