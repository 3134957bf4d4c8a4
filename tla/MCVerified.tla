----------------------------- MODULE MCVerified -----------------------------
(***************************************************************************)
(* Two logs with entries below, at and above the modulus, and a word that  *)
(* holds the modulus but not a sum of two residues.                        *)
(***************************************************************************)
EXTENDS Verified

Entries73 == {0, 1, 73}

Entries5 == {0, 1, 5}
=============================================================================
