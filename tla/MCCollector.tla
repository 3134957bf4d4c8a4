---------------------------- MODULE MCCollector ----------------------------
(* Instances of Collector for TLC: the hashes of the events.                *)
EXTENDS Collector

\* residues 3, 1, 6, 1 modulo 7: a collision among them
SomeHashes == [t \in 0 .. MaxHits |-> CASE t % 4 = 0 -> 10
                                        [] t % 4 = 1 -> 1
                                        [] t % 4 = 2 -> 6
                                        [] t % 4 = 3 -> 8]
=============================================================================
