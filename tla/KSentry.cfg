\* p = 7, q = 6 (of order 2, so that a swap can go unseen); 37 is the smallest
\* word that holds every product
CONSTANTS
    P = 7
    Q = 6
    Word = 37
    MaxLen = 4
    OverflowChecks = TRUE
    Inputs <- ResiduesAndUnreduced
SPECIFICATION Spec
INVARIANTS
    TypeOK
    NoPanic
    ClosedForm
    CheckpointsResume
    SwapSeenExactly
    EditSeenExactly
PROPERTY ImplementsSpec
