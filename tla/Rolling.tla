------------------------------ MODULE Rolling ------------------------------
(***************************************************************************)
(* The rolling hash the K-Sentry digest is measured against                *)
(* (timefence-core/src/rolling.rs), the attempt to rebase a K-Sentry       *)
(* digest the way a rolling hash can be (antirebase.rs), and the power     *)
(* loop both of them call (mod_pow of ksentry.rs).                         *)
(*                                                                         *)
(* A function that computes with mod_pow returns, beside its value,        *)
(* whether an operation left the machine word on the way: there a build    *)
(* with overflow checks panics and one without wraps.                      *)
(***************************************************************************)
EXTENDS Accumulator

-----------------------------------------------------------------------------
\* Plausible bugs of the definitions below, for the mutation checks.
PowTurnLowBitsOnly(t) ==
    IF t.exp <= 1 THEN t
    ELSE [base   |-> mod_mul(t.base, t.base, P),
          exp    |-> t.exp \div 2,
          result |-> IF t.exp % 2 = 1 THEN mod_mul(t.result, t.base, P)
                     ELSE t.result,
          panics |-> t.panics]

RollingWeightFirst(rh, x) ==
    LET weight == mod_mul(rh.weight, Q % P, P)
    IN  [n      |-> rh.n + 1,
         acc    |-> mod_add(rh.acc, mod_mul(x % P, weight, P), P),
         weight |-> weight,
         panics |-> rh.panics]

-----------------------------------------------------------------------------
(***************************************************************************)
(* mod_pow: square and multiply.  The base is squared once more after the  *)
(* last bit of the exponent was used, so the loop can panic on a product   *)
(* that its result does not need.  Each turn halves the exponent, so after *)
(* as many turns as its value the loop has ended.                          *)
(***************************************************************************)
PowTurn(t) ==
    IF t.exp = 0 THEN t
    ELSE LET odd == t.exp % 2 = 1
         IN  [base   |-> mod_mul(t.base, t.base, P),
              exp    |-> t.exp \div 2,
              result |-> IF odd THEN mod_mul(t.result, t.base, P) ELSE t.result,
              panics |-> \/ t.panics
                         \/ MulOverflows(t.base, t.base, P)
                         \/ odd /\ MulOverflows(t.result, t.base, P)]

PowStart(base, exp) ==
    [base |-> base % P, exp |-> exp, result |-> 1, panics |-> FALSE]

PowEnd(base, exp) ==
    LET after[k \in 0 .. exp] ==
          IF k = 0 THEN PowStart(base, exp) ELSE PowTurn(after[k - 1])
    IN  after[exp]

mod_pow(base, exp) ==
    LET end == PowEnd(base, exp)
    IN  [value |-> end.result, panics |-> end.panics]

-----------------------------------------------------------------------------
(***************************************************************************)
(* RollingHash::new and RollingHash::update: the weight of the element at  *)
(* position i is q^i.                                                      *)
(***************************************************************************)
rolling_new == [n |-> 0, acc |-> 0, weight |-> 1, panics |-> FALSE]

RollingOverflows(rh, x) ==
    \/ MulOverflows(x % P, rh.weight, P)
    \/ AddOverflows(rh.acc, mod_mul(x % P, rh.weight, P), P)
    \/ MulOverflows(rh.weight, Q % P, P)

rolling_update(rh, x) ==
    [n      |-> rh.n + 1,
     acc    |-> mod_add(rh.acc, mod_mul(x % P, rh.weight, P), P),
     weight |-> mod_mul(rh.weight, Q % P, P),
     panics |-> rh.panics \/ RollingOverflows(rh, x)]

rolling_hash(xs) ==
    LET after[n \in 0 .. Len(xs)] ==
          IF n = 0 THEN rolling_new ELSE rolling_update(after[n - 1], xs[n])
    IN  after[Len(xs)]

(***************************************************************************)
(* The sum that rolling_shifted_spec and ksentry_shifted_spec compute, the *)
(* element at position i (from 1) weighed with q^(exponents[i]), every     *)
(* power by mod_pow; only the exponents differ.                            *)
(***************************************************************************)
AddWeighed(s, x, exponent) ==
    LET w    == mod_pow(Q, exponent)
        term == mod_mul(x, w.value, P)
    IN  [value  |-> mod_add(s.value, term, P),
         panics |-> \/ s.panics \/ w.panics
                    \/ MulOverflows(x, w.value, P)
                    \/ AddOverflows(s.value, term, P)]

WeighedSum(xs, exponents) ==
    LET sum[n \in 0 .. Len(xs)] ==
          IF n = 0 THEN [value |-> 0, panics |-> FALSE]
          ELSE AddWeighed(sum[n - 1], xs[n], exponents[n])
    IN  sum[Len(xs)]

rolling_shifted_spec(xs, shift) ==
    WeighedSum(xs, [i \in 1 .. Len(xs) |-> (i - 1) + shift])

\* A plausible bug of the next definition, for the mutation checks.
ShiftAfterTriangle(xs, shift) ==
    WeighedSum(xs, [i \in 1 .. Len(xs) |-> triangular_exp(i - 1) + shift])

ksentry_shifted_spec(xs, shift) ==
    WeighedSum(xs, [i \in 1 .. Len(xs) |-> triangular_exp((i - 1) + shift)])

(***************************************************************************)
(* rolling_rebase_digest, and fake_scalar_rebase, which is the same        *)
(* product tried on a K-Sentry digest.                                     *)
(***************************************************************************)
rolling_rebase_digest(local_digest, shift) ==
    LET scalar == mod_pow(Q, shift)
    IN  [value  |-> mod_mul(local_digest, scalar.value, P),
         panics |-> \/ scalar.panics
                    \/ MulOverflows(local_digest, scalar.value, P)]

fake_scalar_rebase(local_digest, scalar_exp) ==
    rolling_rebase_digest(local_digest, scalar_exp)

(***************************************************************************)
(* demo_ksentry_not_one_scalar_rebase: the scalar that moves a chunk with  *)
(* one event at index 0 by one position does not move a chunk with one     *)
(* event at index 1.                                                       *)
(***************************************************************************)
demo_ksentry_not_one_scalar_rebase ==
    LET a == <<1, 0>>
        b == <<0, 1>>
        Rebased(xs) == fake_scalar_rebase(ksentry_fast(xs).acc, 1).value
        Shifted(xs) == ksentry_shifted_spec(xs, 1).value
    IN  Rebased(a) = Shifted(a) /\ Rebased(b) # Shifted(b)
=============================================================================
