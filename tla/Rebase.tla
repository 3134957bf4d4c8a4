------------------------------- MODULE Rebase -------------------------------
(***************************************************************************)
(* What becomes of a digest that was computed locally, from position 0,    *)
(* over a chunk that lies at position s of its stream.  A caller updates   *)
(* the accumulator of KSentry.tla; the same elements are given to a        *)
(* RollingHash, and so are the chunks that the stream can be cut into (the *)
(* tests of rolling.rs and antirebase.rs build them with rolling_hash and  *)
(* ksentry_fast).  No checkpoints are taken here.                          *)
(***************************************************************************)
EXTENDS KSentry, Rolling

RebaseNext == \E x \in Inputs : Update(x) \/ UpdatePanics(x)

RebaseSpec == Init /\ [][RebaseNext]_vars

-----------------------------------------------------------------------------
Chunk(s) == SubSeq(xs, s + 1, Len(xs))

Before(s) == SubSeq(xs, 1, s)

(***************************************************************************)
(* "Rolling hash can rebase a local chunk digest by multiplying one scalar *)
(* q^s" (antirebase.rs): whatever the chunk and wherever it starts, one    *)
(* product turns its local digest into its share of the digest of the      *)
(* stream.  It needs both loops, of update and of mod_pow, to agree on     *)
(* every power.                                                            *)
(***************************************************************************)
RollingRebases ==
    \A s \in 0 .. Len(xs) :
        LET local   == rolling_hash(Chunk(s))
            stream  == rolling_hash(xs)
            rebased == rolling_rebase_digest(local.acc, s)
            shifted == rolling_shifted_spec(Chunk(s), s)
        IN  ~ (local.panics \/ stream.panics \/ rebased.panics) =>
              /\ mod_add(rolling_hash(Before(s)).acc, rebased.value, P)
                    = stream.acc
              /\ ~ shifted.panics => rebased.value = shifted.value

(***************************************************************************)
(* A K-Sentry digest composes only through the shifted sum: the digest of  *)
(* what came before the chunk and the chunk evaluated at its position add  *)
(* up to the digest of the stream, and at position 0 the shifted sum is    *)
(* the digest.                                                             *)
(***************************************************************************)
ShiftedComposes ==
    \A s \in 0 .. Len(xs) :
        LET shifted == ksentry_shifted_spec(Chunk(s), s)
        IN  ~ shifted.panics =>
              mod_add(ksentry_fast(Before(s)).acc, shifted.value, P) = ks.acc

(***************************************************************************)
(* "K-Sentry triangular exponents cannot do that in general"               *)
(* (antirebase.rs), exactly: one scalar rebases every one-event chunk of   *)
(* the length of the stream's rest if and only if the rest has no second   *)
(* position or q^s is 1 modulo p.  The demonstration, which tries shift 1, *)
(* succeeds unless q is 0 or 1 modulo p.                                   *)
(***************************************************************************)
OneEvent(length, n) == [k \in 1 .. length |-> IF k = n THEN 1 ELSE 0]

Rebases(e, events, s) ==
    fake_scalar_rebase(ksentry_fast(events).acc, e).value
        = ksentry_shifted_spec(events, s).value

AntiRebaseExactly ==
    /\ \A s \in 0 .. Len(xs) :
        LET length == Len(xs) - s
        IN  (\E e \in 0 .. (P - 2) : \A n \in 1 .. length :
                Rebases(e, OneEvent(length, n), s))
              <=> (length <= 1 \/ Pow[s] = 1)
    /\ demo_ksentry_not_one_scalar_rebase <=> Pow[1] \notin {0, 1}
=============================================================================
