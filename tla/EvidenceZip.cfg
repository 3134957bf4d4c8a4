\* the instance of Evidence.cfg, one property
CONSTANTS
    P = 7
    Q = 3
    Word = 256
    MaxLen = 4
    ChunkSize = 2
    Events <- SomeEvents
    Old <- OldStream
    Label <- Window
    Labels <- Windows
SPECIFICATION Spec
INVARIANT LengthEditsSeenByChunks
