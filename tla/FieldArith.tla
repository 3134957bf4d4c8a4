----------------------------- MODULE FieldArith -----------------------------
(***************************************************************************)
(* The arithmetic of timefence-core/src/ksentry.rs: the two modular        *)
(* helpers every digest is computed with, on machine words of Word values  *)
(* (2^128 for the u128 of the code), and the mathematical functions the    *)
(* comments of that file define the digest by.                             *)
(*                                                                         *)
(* The helpers reduce their arguments, then multiply (add) in the machine  *)
(* word and reduce again.  Nothing in them bounds the modulus, so the      *)
(* intermediate product can leave the word: a build without overflow       *)
(* checks (cargo run --release) wraps it, one with them (cargo test)       *)
(* panics.  mod_mul and mod_add are the wrapping forms, MulOverflows and   *)
(* AddOverflows say when the checked build panics.                         *)
(***************************************************************************)
EXTENDS Modulus

CONSTANT Q  \* the base q

(***************************************************************************)
(* What KSentry::new asserts of q; what it asserts of p is in Modulus.     *)
(***************************************************************************)
ASSUME BaseAssumption == Q \in Nat /\ Q > 0

-----------------------------------------------------------------------------
mod_mul(a, b, p) == (((a % p) * (b % p)) % Word) % p

mod_add(a, b, p) == (((a % p) + (b % p)) % Word) % p

\* A plausible bug of the next definition, for the mutation checks.
OverflowOffByOne(a, b, p) == (a % p) * (b % p) + 1 >= Word

MulOverflows(a, b, p) == (a % p) * (b % p) >= Word

AddOverflows(a, b, p) == (a % p) + (b % p) >= Word

triangular_exp(i) == (i * (i + 1)) \div 2

(***************************************************************************)
(* Pow[e] is q^e mod p, the value mod_pow(q, e, p) is meant to return, in  *)
(* unbounded arithmetic.                                                   *)
(***************************************************************************)
Pow[e \in Nat] == IF e = 0 THEN 1 ELSE (Pow[e - 1] * (Q % P)) % P

(***************************************************************************)
(* The moduli for which no intermediate result leaves the word.            *)
(***************************************************************************)
NoOverflow == (P - 1) * (P - 1) < Word /\ (P - 1) + (P - 1) < Word
=============================================================================
