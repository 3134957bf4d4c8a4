----------------------------- MODULE MCMetrics -----------------------------
(* An instance of Metrics for TLC: the values of the set-valued constants. *)
EXTENDS Metrics

\* 14 is congruent to 1 modulo 13 and has to be reduced first
EntriesOfAWord == {0, 1, 4, 14, 15}

\* 3 is of order 3 modulo 13, so that a reordering can go unseen
SmallBases == {2, 3}
=============================================================================
