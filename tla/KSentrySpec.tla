---------------------------- MODULE KSentrySpec ----------------------------
(***************************************************************************)
(* What a K-Sentry accumulator promises: after a stream x_0, ..., x_(n-1)  *)
(* its digest is the sum of x_i q^(T_i) modulo p, T_i = i (i + 1) / 2.     *)
(* One step is one iteration of the loop of ksentry_spec, which recomputes *)
(* the power of q for every element and keeps nothing but the sum.         *)
(***************************************************************************)
EXTENDS FieldArith, Sequences

CONSTANTS
    Inputs,     \* the field elements offered to the accumulator
    MaxLen      \* bound on the length of the stream

VARIABLES
    xs,         \* the elements taken in so far
    digest      \* the digest of xs

vars == <<xs, digest>>

Init == xs = << >> /\ digest = 0

Ingest(x) ==
    /\ Len(xs) < MaxLen
    /\ xs' = Append(xs, x)
    /\ digest' = (digest + (x % P) * Pow[triangular_exp(Len(xs))]) % P

Next == \E x \in Inputs : Ingest(x)

Spec == Init /\ [][Next]_vars
=============================================================================
