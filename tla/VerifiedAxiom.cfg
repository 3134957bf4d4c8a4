\* One entry that is the modulus itself and one that is 0.
CONSTANTS
    P = 5
    Q = 3
    Word = 100
    Inputs <- Entries5
    MaxLen = 2
SPECIFICATION Spec
INVARIANT FewBadBases
CHECK_DEADLOCK FALSE
