----------------------------- MODULE MCKSentry -----------------------------
(* Instances of KSentry for TLC: the values of the set-valued constants.   *)
EXTENDS KSentry

\* residues modulo 7, and 8, which is congruent to 1 and has to be reduced first
ResiduesAndUnreduced == {0, 1, 3, 6, 8}

\* values whose products leave an 8-bit word under a modulus near 2^8
LargeInputs == {0, 1, 9, 40, 250}
=============================================================================
