\* p = 13 and q = 9, of order 3, so that shifts 0 and 3 change nothing; a word
\* of 100 values holds every product but 12 * 9, so that some updates panic
CONSTANTS
    P = 13
    Q = 9
    Word = 100
    MaxLen = 6
    OverflowChecks = TRUE
    Inputs <- ResiduesAndUnreduced
SPECIFICATION RebaseSpec
INVARIANTS
    ClosedForm
    RollingRebases
    ShiftedComposes
    AntiRebaseExactly
CHECK_DEADLOCK FALSE
