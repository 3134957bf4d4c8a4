------------------------------ MODULE KSentry ------------------------------
(***************************************************************************)
(* The O(1) accumulator of timefence-core/src/ksentry.rs as a state        *)
(* machine: a caller owns one KSentry struct, feeds it field elements with *)
(* update and takes checkpoints of it at any moment.                       *)
(***************************************************************************)
EXTENDS Accumulator

CONSTANTS
    Inputs,         \* the u128 values offered to update, reduced or not
    MaxLen,         \* bound on the length of the stream
    OverflowChecks  \* TRUE in a debug build, FALSE under cargo run --release

ASSUME KSentryAssumption ==
    /\ Inputs \subseteq Nat
    /\ MaxLen \in Nat
    /\ OverflowChecks \in BOOLEAN

VARIABLES
    xs,         \* the elements update was called with, in order
    ks,         \* the struct
    ckpts,      \* every checkpoint taken so far
    panicked    \* an update panicked: the program has ended

vars == <<xs, ks, ckpts, panicked>>

(***************************************************************************)
(* The builds in which update computes what it says or stops: a wrapped    *)
(* product is excluded by the parameters, or caught by the checks.         *)
(***************************************************************************)
SafeBuild == NoOverflow \/ OverflowChecks

TypeOK ==
    /\ xs \in Seq(Inputs)
    /\ ks \in [n : 0 .. MaxLen, acc : Field, weight : Field, step : Field]
    /\ ckpts \subseteq [end_seq : 0 .. MaxLen, digest : Field,
                        weight : Field, step : Field]
    /\ panicked \in BOOLEAN

-----------------------------------------------------------------------------
Init ==
    /\ xs = << >>
    /\ ks = new
    /\ ckpts = {}
    /\ panicked = FALSE

Update(x) ==
    /\ ~ panicked
    /\ ks.n < MaxLen
    /\ OverflowChecks => ~ UpdateOverflows(ks, x)
    /\ xs' = Append(xs, x)
    /\ ks' = update(ks, x)
    /\ UNCHANGED <<ckpts, panicked>>

(***************************************************************************)
(* An operation of update overflows in a build with overflow checks.  The  *)
(* struct is dropped as the panic unwinds, nobody sees it half updated.    *)
(***************************************************************************)
UpdatePanics(x) ==
    /\ ~ panicked
    /\ ks.n < MaxLen
    /\ OverflowChecks /\ UpdateOverflows(ks, x)
    /\ panicked' = TRUE
    /\ UNCHANGED <<xs, ks, ckpts>>

Checkpoint ==
    /\ ~ panicked
    /\ ckpts' = ckpts \cup {checkpoint(ks)}
    /\ UNCHANGED <<xs, ks, panicked>>

Next ==
    \/ \E x \in Inputs : Update(x)
    \/ \E x \in Inputs : UpdatePanics(x)
    \/ Checkpoint

Spec == Init /\ [][Next]_vars

-----------------------------------------------------------------------------
(***************************************************************************)
(* The invariant the header of ksentry.rs states: whatever was fed to it,  *)
(* the struct holds the sum of x_i q^(T_i), q^(T_n) and q^(n+1), modulo p. *)
(* The three fields are only ever updated from each other, so one product  *)
(* out of step or out of range spoils every later digest.                  *)
(***************************************************************************)
WeightAndStep ==
    /\ ks.n = Len(xs)
    /\ ks.weight = Pow[triangular_exp(ks.n)]
    /\ ks.step = Pow[ks.n + 1]

ClosedForm ==
    /\ WeightAndStep
    /\ ks.acc = ksentry_spec(xs)

(***************************************************************************)
(* A checkpoint stays true of the prefix it was taken of, and it carries   *)
(* enough (digest, weight, step, end_seq) to recompute the present state   *)
(* of the accumulator from the elements that came after it.                *)
(***************************************************************************)
After(c) == SubSeq(xs, c.end_seq + 1, Len(xs))

CheckpointsResume ==
    \A c \in ckpts :
        /\ c.end_seq <= Len(xs)
        /\ c.digest = ksentry_spec(SubSeq(xs, 1, c.end_seq))
        /\ updated(StateOf(c), After(c)) = ks

(***************************************************************************)
(* Order sensitivity, exactly: exchanging the neighbours at positions i    *)
(* and i + 1 (from 1) changes the digest if and only if the two elements   *)
(* differ modulo p and q^i is not 1 modulo p.  So a base whose order       *)
(* divides a position leaves the exchange there unseen, and new accepts    *)
(* any q > 0.                                                              *)
(***************************************************************************)
Exchanged(i) == [xs EXCEPT ![i] = xs[i + 1], ![i + 1] = xs[i]]

SwapSeenExactly ==
    \A i \in 1 .. (Len(xs) - 1) :
        (ksentry_fast(Exchanged(i)).acc # ks.acc)
            <=> (xs[i] % P # xs[i + 1] % P /\ Pow[i] # 1)

(***************************************************************************)
(* Any change of a single element to another residue changes the digest;   *)
(* a change within the residue class never does, so two events whose       *)
(* hashes are congruent modulo p are the same event to the digest.         *)
(***************************************************************************)
EditSeenExactly ==
    \A i \in 1 .. Len(xs) : \A y \in Inputs :
        (ksentry_fast([xs EXCEPT ![i] = y]).acc # ks.acc)
            <=> (xs[i] % P # y % P)

(***************************************************************************)
(* With overflow checks on and parameters that fit the word (the largest   *)
(* product is (p - 1)^2, never more), no update ever panics.               *)
(***************************************************************************)
NoPanic == NoOverflow => ~ panicked

(***************************************************************************)
(* The accumulator implements its specification, with acc as the digest.   *)
(***************************************************************************)
Abs == INSTANCE KSentrySpec WITH digest <- ks.acc

ImplementsSpec == Abs!Spec
=============================================================================
