------------------------------ MODULE MCRebase ------------------------------
(* An instance of Rebase for TLC: the values of the set-valued constants.  *)
EXTENDS Rebase

\* residues modulo 13, and 14, which is congruent to 1
ResiduesAndUnreduced == {0, 1, 12, 14}
=============================================================================
