\* A prime modulus and a base under which no two of the traces of the cases
\* collide, in a word that holds all products.
CONSTANTS
    P = 101
    Q = 7
    Word = 20000
    Cases <- CasesOfMainAndTwoMore
    NoArg = "?"
    NoisePaths <- Noise
    RelevantPaths <- Relevant
    EventHash <- Hashes
    Synthetic <- NineEvents
    ChunkSize = 2
    Runs = 2
    Leftovers <- LeftoverSets
SPECIFICATION Spec
INVARIANTS
    CallsCountedOnce
    Repeatable
    DocumentedVerdicts
    RootBinds
    CopiedUpToFailure
PROPERTY Finishes
CHECK_DEADLOCK FALSE
