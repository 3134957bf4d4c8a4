\* the same modulus in a release build: products wrap at the word
CONSTANTS
    P = 251
    Q = 3
    Word = 256
    MaxLen = 4
    OverflowChecks = FALSE
    Inputs <- LargeInputs
SPECIFICATION Spec
INVARIANT ClosedForm
