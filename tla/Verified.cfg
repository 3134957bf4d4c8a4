\* A prime modulus above the encodings of three entries below the base, that
\* the fourth weight exceeds, and a word that a sum of two residues leaves.
CONSTANTS
    P = 73
    Q = 3
    Word = 100
    Inputs <- Entries73
    MaxLen = 4
SPECIFICATION Spec
INVARIANTS
    MismatchLocalised
    TrustedShort
    FewBadBasesInField
PROPERTY ImplementsSpec
CHECK_DEADLOCK FALSE
