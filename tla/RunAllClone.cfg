\* A fresh clone, under a prime modulus and a base for which no two of the
\* traces of the cases collide.
CONSTANTS
    P = 101
    Q = 7
    Word = 20000
    Cases <- CasesOfMain
    NoArg = "?"
    NoisePaths <- Noise
    RelevantPaths <- Relevant
    EventHash <- Hashes
    Synthetic <- NineEvents
    ChunkSize = 2
    Runs = 2
    Leftovers <- JustCloned
SPECIFICATION Spec
INVARIANT ProducedAsListed
CHECK_DEADLOCK FALSE
