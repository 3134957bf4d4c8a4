---------------------------- MODULE MerkleRoots ----------------------------
(***************************************************************************)
(* What the Merkle trees of Baselines cover.                               *)
(***************************************************************************)
EXTENDS Baselines
LOCAL INSTANCE SequencesExt

(***************************************************************************)
(* The events that a level of hashes covers, in order.  Opening a level    *)
(* puts its children in the place of every parent; each turn of the outer  *)
(* loop shortens the level, so as many openings as there are leaves leave  *)
(* only hashes of chunks.                                                  *)
(***************************************************************************)
Children(h) == IF h.hash = "parent" THEN h.of ELSE << h >>

Opened(level) == FlattenSeq([n \in DOMAIN level |-> Children(level[n])])

Bound(chunks) == FlattenSeq([n \in DOMAIN chunks |-> chunks[n].of])

Covered(level) ==
    LET opened[k \in 0 .. Len(Leaves)] ==
            IF k = 0 THEN level ELSE Opened(opened[k - 1])
    IN  Bound(opened[Len(Leaves)])

(***************************************************************************)
(* At every moment of the pairing, the level above and the leaves still to *)
(* be paired cover each event once and in order, and so does every root    *)
(* that is written: no chunk is lost or doubled where the number of leaves *)
(* is odd, on whatever level (bench_merkle_chunks).  A file of rows has    *)
(* one such root for each of its runs and no other, and the summary counts *)
(* every run of each of the five methods.                                  *)
(***************************************************************************)
RootsOfRuns(rs, f) ==
    LET roots == OfMethod(rs, "merkle_chunks")
    IN  /\ \A n \in roots : Covered(<< rs[n].digest >>) = make_events
        /\ {rs[n].run : n \in roots} = FirstRun(f) .. LastRun(f)
        /\ \A n, k \in roots : rs[n].run = rs[k].run => n = k

Methods == {"ksentry_triangular", "rolling_hash_affine", "blake3_batch",
            "hmac_sha256_batch", "merkle_chunks"}

AllRunsCounted(summary) ==
    /\ DOMAIN summary = Methods
    /\ \A m \in DOMAIN summary : summary[m].runs = Runs

RootBinds ==
    /\ bstep = "merkle" =>
         Covered(next \o SubSeq(leaves, i + 1, Len(leaves))) = make_events
    /\ \A f \in DOMAIN csvs :
         IF CsvOrder[f] = "baseline_bench_summary"
         THEN AllRunsCounted(csvs[f]) ELSE RootsOfRuns(csvs[f], f)
=============================================================================
