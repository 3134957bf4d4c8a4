---------------------------- MODULE Accumulator ----------------------------
(***************************************************************************)
(* The KSentry struct of timefence-core/src/ksentry.rs and its methods, as *)
(* operators on records.  KSentry.tla runs them as a state machine; the    *)
(* evidence builder and the eBPF collector call them.                      *)
(*                                                                         *)
(* The parameters q and p of the struct never change after new, so they    *)
(* are the constants Q and P and not fields.                               *)
(***************************************************************************)
EXTENDS FieldArith, Sequences

-----------------------------------------------------------------------------
(***************************************************************************)
(* Plausible bugs of the definitions below, for the mutation checks.       *)
(***************************************************************************)
NewZeroWeight == [n |-> 0, acc |-> 0, weight |-> 0, step |-> Q % P]

StepBeforeWeight(ks, x) ==
    LET step == mod_mul(ks.step, Q % P, P)
    IN  [n      |-> ks.n + 1,
         acc    |-> mod_add(ks.acc, mod_mul(x % P, ks.weight, P), P),
         weight |-> mod_mul(ks.weight, step, P),
         step   |-> step]

RollingWeight(ks, x) ==
    [n      |-> ks.n + 1,
     acc    |-> mod_add(ks.acc, mod_mul(x % P, ks.weight, P), P),
     weight |-> mod_mul(ks.weight, Q % P, P),
     step   |-> ks.step]

UnreducedAcc(ks, x) ==
    [n      |-> ks.n + 1,
     acc    |-> ks.acc + mod_mul(x % P, ks.weight, P),
     weight |-> mod_mul(ks.weight, ks.step, P),
     step   |-> mod_mul(ks.step, Q % P, P)]

CheckpointSwapped(ks) ==
    [end_seq |-> ks.n, digest |-> ks.acc,
     weight |-> ks.step, step |-> ks.weight]

-----------------------------------------------------------------------------
(***************************************************************************)
(* KSentry::new                                                            *)
(***************************************************************************)
new == [n |-> 0, acc |-> 0, weight |-> 1, step |-> Q % P]

(***************************************************************************)
(* KSentry::update.  The three assignments are in the code's order: acc    *)
(* uses the old weight, weight the old step.                               *)
(***************************************************************************)
update(ks, x) ==
    [n      |-> ks.n + 1,
     acc    |-> mod_add(ks.acc, mod_mul(x % P, ks.weight, P), P),
     weight |-> mod_mul(ks.weight, ks.step, P),
     step   |-> mod_mul(ks.step, Q % P, P)]

(***************************************************************************)
(* Some arithmetic operation of update(ks, x) leaves the machine word: a   *)
(* build with overflow checks panics in it.                                *)
(***************************************************************************)
UpdateOverflows(ks, x) ==
    \/ MulOverflows(x % P, ks.weight, P)
    \/ AddOverflows(ks.acc, mod_mul(x % P, ks.weight, P), P)
    \/ MulOverflows(ks.weight, ks.step, P)
    \/ MulOverflows(ks.step, Q % P, P)

(***************************************************************************)
(* KSentry::checkpoint.  The stream_id and epoch it is given are labels    *)
(* that it copies and are left out.                                        *)
(***************************************************************************)
checkpoint(ks) ==
    [end_seq |-> ks.n, digest |-> ks.acc,
     weight |-> ks.weight, step |-> ks.step]

(***************************************************************************)
(* The struct a checkpoint describes.                                      *)
(***************************************************************************)
StateOf(c) ==
    [n |-> c.end_seq, acc |-> c.digest, weight |-> c.weight, step |-> c.step]

(***************************************************************************)
(* The loop of ksentry_fast: a struct updated with every element in order. *)
(***************************************************************************)
updated(ks, xs) ==
    LET after[n \in 0 .. Len(xs)] ==
          IF n = 0 THEN ks ELSE update(after[n - 1], xs[n])
    IN  after[Len(xs)]

ksentry_fast(xs) == updated(new, xs)

(***************************************************************************)
(* ksentry_spec: the sum of x_i q^(T_i) mod p that the file's header       *)
(* defines the digest by, every power recomputed, in unbounded arithmetic. *)
(***************************************************************************)
ksentry_spec(xs) ==
    LET sum[n \in 0 .. Len(xs)] ==
          IF n = 0 THEN 0
          ELSE (sum[n - 1] + (xs[n] % P) * Pow[triangular_exp(n - 1)]) % P
    IN  sum[Len(xs)]
=============================================================================
