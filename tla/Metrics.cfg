\* p = 13 below a word of 16 values, as 2^64 - 59 below one of 2^64: the sum of
\* two residues need not fit
CONSTANTS
    P = 13
    Word = 16
    Bases <- SmallBases
    Entries <- EntriesOfAWord
    InsertionValue = 14
    Samples = 4
    BigLen = 4
SPECIFICATION Spec
INVARIANTS
    DigestExact
    AttackSeenExactly
    PrefixLocalises
    WindowCarriesChange
    CollisionBound
CHECK_DEADLOCK FALSE
