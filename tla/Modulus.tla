------------------------------ MODULE Modulus ------------------------------
(***************************************************************************)
(* What every digest of the repository is computed with: a modulus p, the  *)
(* machine word it lives in, the residues and the powers of a base.        *)
(***************************************************************************)
EXTENDS Integers

CONSTANTS
    P,      \* the modulus p
    Word    \* number of values of the machine word that p lives in

(***************************************************************************)
(* KSentry::new asserts p > 1; the words are u64 and u128.                 *)
(***************************************************************************)
ASSUME ParamAssumption ==
    /\ P \in Nat /\ P > 1
    /\ Word \in Nat /\ Word > 1

Field == 0 .. (P - 1)

(***************************************************************************)
(* base^e modulo p in unbounded arithmetic, what the loops that compute a  *)
(* power are meant to return.                                              *)
(***************************************************************************)
Power(base, e) ==
    LET pow[n \in Nat] == IF n = 0 THEN 1 % P ELSE (base * pow[n - 1]) % P
    IN  pow[e]
=============================================================================
