----------------------------- MODULE Baselines -----------------------------
(***************************************************************************)
(* The baseline evaluation of timefence-core/baseline.rs, the module that  *)
(* timefence-core/src/main.rs names baselines: write_all_baseline_outputs  *)
(* writes three CSV files, each from runs of its own of five methods over  *)
(* the same synthetic events.  Durations and throughputs are left out.     *)
(*                                                                         *)
(* BLAKE3 and HMAC are external and free: a hash is the record of what was *)
(* hashed.  The Merkle tree is built level by level, as in the code.       *)
(***************************************************************************)
EXTENDS Rolling, FiniteSets

CONSTANTS
    Synthetic,      \* the values of synthetic_event, for make_events to reduce
    ChunkSize,      \* the chunk_size of bench_merkle_chunks, 1024 in the code
    Runs            \* the number of repeated runs, 10 in the code

ASSUME BaselinesAssumption ==
    /\ Synthetic \in Seq(Nat)
    /\ ChunkSize \in Nat \ {0} /\ Runs \in Nat \ {0}

VARIABLES
    bstep,      \* idle | start | methods | merkle | write | done | failed
    csv,        \* the index in CsvOrder of the file being prepared
    benchRun,   \* the run of the methods for it
    rows,       \* the rows of the runs for it
    leaves,     \* the level of the Merkle tree being paired
    next,       \* the level above, as far as it is built
    i,          \* the index in leaves, from 0
    csvs        \* the contents of the files this program has written

baselineVars == <<bstep, csv, benchRun, rows, leaves, next, i, csvs>>

CsvOrder == <<"baseline_bench", "baseline_bench_repeated",
              "baseline_bench_summary">>

-----------------------------------------------------------------------------
make_events == [n \in DOMAIN Synthetic |-> Synthetic[n] % P]

Blake3(events) == [hash |-> "blake3", of |-> events]

Hmac(events) == [hash |-> "hmac", of |-> events]

merkle_parent(left, right) == [hash |-> "parent", of |-> <<left, right>>]

Row(method, digest) ==
    [method |-> method, run |-> benchRun, events |-> Len(make_events),
     digest |-> digest]

bench_ksentry == ksentry_fast(make_events).acc

bench_rolling_hash == rolling_hash(make_events).acc

\* The first four methods in the order of run_baseline_bench_once; BLAKE3 and
\* HMAC go over all events in one batch.
FlatRows ==
    << Row("ksentry_triangular", bench_ksentry),
       Row("rolling_hash_affine", bench_rolling_hash),
       Row("blake3_batch", Blake3(make_events)),
       Row("hmac_sha256_batch", Hmac(make_events)) >>

\* events.chunks(chunk_size), hashed; a stream without events has one leaf.
Leaves ==
    LET count == (Len(make_events) + ChunkSize - 1) \div ChunkSize
        End(c) == IF c = count THEN Len(make_events) ELSE c * ChunkSize
    IN  IF count = 0 THEN << Blake3(<< >>) >>
        ELSE [c \in 1 .. count |->
                Blake3(SubSeq(make_events, (c - 1) * ChunkSize + 1, End(c)))]

OfMethod(rs, m) == {n \in DOMAIN rs : rs[n].method = m}

summarize_rows(rs) ==
    [m \in {rs[n].method : n \in DOMAIN rs} |->
        LET group == OfMethod(rs, m)
            first == CHOOSE n \in group : \A k \in group : n <= k
        IN  [runs |-> Cardinality(group), events |-> rs[first].events]]

\* The runs are numbered 1..=runs, and the only run of the first file is 0.
FirstRun(f) == IF f = 1 THEN 0 ELSE 1

LastRun(f) == IF f = 1 THEN 0 ELSE Runs

Contents(f) == IF CsvOrder[f] = "baseline_bench_summary"
               THEN summarize_rows(rows) ELSE rows

-----------------------------------------------------------------------------
BaselinesInit ==
    /\ bstep = "idle" /\ csv = 1 /\ benchRun = 0 /\ rows = << >>
    /\ leaves = << >> /\ next = << >> /\ i = 0 /\ csvs = << >>

\* main calls write_all_baseline_outputs.
CallBaselines ==
    /\ bstep' = "start"
    /\ UNCHANGED <<csv, benchRun, rows, leaves, next, i, csvs>>

CreateDir ==
    /\ bstep = "start"
    /\ bstep' = "methods"
    /\ UNCHANGED <<csv, benchRun, rows, leaves, next, i, csvs>>

RunMethods ==
    /\ bstep = "methods"
    /\ rows' = rows \o FlatRows
    /\ leaves' = Leaves /\ next' = << >> /\ i' = 0
    /\ bstep' = "merkle"
    /\ UNCHANGED <<csv, benchRun, csvs>>

\* Plausible bugs of the next two definitions, for the mutation checks.
DropsTheOdd(level, n) ==
    IF n + 1 < Len(level)
    THEN << merkle_parent(level[n + 1], level[n + 2]) >> ELSE << >>

AtLeastOne(level) == Len(level) >= 1

MoreThanOne(level) == Len(level) > 1

Paired(level, n) ==
    IF n + 1 < Len(level)
    THEN << merkle_parent(level[n + 1], level[n + 2]) >>
    ELSE << level[n + 1] >>

\* One turn of the inner loop; an odd leaf at the end goes up unpaired.
PairStep ==
    /\ bstep = "merkle" /\ MoreThanOne(leaves) /\ i < Len(leaves)
    /\ next' = next \o Paired(leaves, i)
    /\ i' = i + 2
    /\ UNCHANGED <<bstep, csv, benchRun, rows, leaves, csvs>>

NextLevel ==
    /\ bstep = "merkle" /\ MoreThanOne(leaves) /\ i >= Len(leaves)
    /\ leaves' = next /\ next' = << >> /\ i' = 0
    /\ UNCHANGED <<bstep, csv, benchRun, rows, csvs>>

\* The root is the digest of the fifth row, and the run is over.
Root ==
    /\ bstep = "merkle" /\ ~ MoreThanOne(leaves)
    /\ rows' = Append(rows, Row("merkle_chunks", leaves[1]))
    /\ leaves' = << >>
    /\ IF benchRun < LastRun(csv)
       THEN benchRun' = benchRun + 1 /\ bstep' = "methods"
       ELSE bstep' = "write" /\ UNCHANGED benchRun
    /\ UNCHANGED <<csv, next, i, csvs>>

\* fs::write, then the next of the three writers.
WriteCsv ==
    /\ bstep = "write"
    /\ csvs' = Append(csvs, Contents(csv))
    /\ rows' = << >>
    /\ IF csv < Len(CsvOrder)
       THEN csv' = csv + 1 /\ benchRun' = FirstRun(csv + 1)
            /\ bstep' = "methods"
       ELSE bstep' = "done" /\ UNCHANGED <<csv, benchRun>>
    /\ UNCHANGED <<leaves, next, i>>

\* create_dir_all or fs::write fails: `?' leaves the files after it alone.
BaselinesFail ==
    /\ bstep \in {"start", "write"}
    /\ bstep' = "failed"
    /\ UNCHANGED <<csv, benchRun, rows, leaves, next, i, csvs>>

BaselinesStep ==
    \/ CreateDir \/ RunMethods \/ PairStep \/ NextLevel \/ Root \/ WriteCsv
    \/ BaselinesFail

=============================================================================
