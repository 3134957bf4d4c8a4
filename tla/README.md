# A TLA+ model of K-Sentry / TimeFence

K-Sentry keeps a tamper-evident digest of a stream of telemetry events in O(1)
work per event.  TimeFence is the evidence layer around it: checkpoints of
event windows, their comparison, and an eBPF collector that feeds live kernel
events into the digest.  This directory holds TLA+ modules of that code, the
TLC configurations that check them on small instances, and theorems about them
that TLAPS checks for every value of the constants.

All paths below are relative to the repository root.

## 1. Inventory

| Component | Source | State | Operations | Hard behaviour |
|---|---|---|---|---|
| K-Sentry accumulator | `timefence-core/src/ksentry.rs` | `n, acc, weight, step` (`q`, `p` fixed) | `new`, `update`, `checkpoint`, `ksentry_fast`, `ksentry_spec`, `mod_pow/mul/add` | three fields updated from each other; machine-word overflow; order sensitivity |
| Checkpoints, verifier | `checkpoint.rs`, `verifier.rs` | none (values) | `new`, `reason_mismatch`, `verify_checkpoint`, `verify_many` | order of the early returns; replayed windows |
| Chunking | `chunker.rs` | none | `chunk_stream`, `verify_chunked_streams`, `first_bad_chunk_index` | boundaries, short last chunk, lists of different lengths |
| Fault injector, incident suite | `fault.rs`, `incident.rs` | one recorded window | five faults, `build_case`, `run_incident_suite` | faults at any index, between equal or congruent events |
| Event canonicalisation | `events.rs` | none | `canonical_string`, `to_field_element` | hashes that collide modulo p |
| Tracepoint programs | `timefence-epbf/**/timefence_epbf_ebpf/src/main.rs` | per CPU: the event on its stack; shared: the ring buffer `EVENTS`, the counter `RINGBUF_OUTPUT_FAILURES` | `try_execve`, `try_openat`, `try_connect`, `emit_event` | several CPUs at once, full ring, unlocked counter, early returns |
| Collector | `timefence-epbf/timefence-epbf/timefence_epbf/src/main.rs` | `KSentry`, two counters, two excerpts | attach, drain, skip, keep, sleep, report | start-up that fails half-way, two nested loops with one limit |
| Rolling hash, anti-rebase | `rolling.rs`, `antirebase.rs` | `n, acc, weight` | `update`, shifted sums, rebase by one scalar | identities that hold for one hash and must fail for the other; the power loop's overflow |
| strace ingestion | `timefence-trace/src/main.rs`, `timefence-core/src/main.rs` | the two runs of a case | trace, parse, digest, compare, report | traced processes that interleave, lines that strace cuts; comparison by length, then digest |
| Baseline evaluation | `timefence-core/baseline.rs` | rows of the runs, the Merkle level | five methods, three CSV writers | odd numbers of leaves, a write that fails between two files |
| Artifact run | `scripts/run_all_local.sh` | output files, `artifacts/` | four stages, seven copies | any command failing, files of earlier runs |
| ksentry-metrics | `ksentry-metrics/src/main.rs`, `src/bin/main1.rs` | the sampled log, `state` | sample, ingest, prefix and shifted states, five attacks, localisation, composition | a prime just below the u64 word; judgement by the state alone; weights that repeat |
| Reports, benches, CSV | `report.rs`, `bench.rs`, `csv.rs` | none | formatting, timing | none |
| Verus file | `proofs/finaltest_timefence_core_verified.rs` | `state`, loop variables | digest, comparison; lemmas | a modulus near the word; statements that are trusted |

How they interact: the collector owns one `KSentry` and calls `update` for each
event it keeps; kernel and collector share the ring buffer, and nothing else
(the failure counter has no reader in the repository); the incident suite calls
`ksentry_fast` for both ends of a window, builds a `TimeFenceCheckpoint` for
each and hands both to `verify_checkpoint`.  The strace programs start traced
scripts as processes and read what strace prints after they end; the script
`run_all_local.sh` runs two programs one after the other and copies the files
they leave.  There is no other thread or process.  No program reads back a file
it has written, so there is no crash recovery to model; what a failed run leaves
behind is modelled where the script copies it.

State of the tree: two trees hold tracepoint programs.  The collector exists
only in the inner one (`timefence-epbf/timefence-epbf`) whose programs drop an
event in silence when the ring is full.  The outer tree's `main.rs` is the later
version that counts failures, but it starts with two lines of a shell session
and imports `DROP_COUNTER_KEY`, which the common crate does not define, so it
does not build as it stands.  The constant `CountsFailures` selects the version;
the collector does not depend on it.  The runs take the later version, the
theorems hold for both.  `timefence-core` has no `src/lib.rs` (one
lies in `artifacts/`) and its `main.rs` names a module `baselines` that lies one
directory up as `baseline.rs`: it does not build either, and
`run_all_local.sh` ends at its `cargo test`.  `RunAll` models the layout these
files name.

What makes each component correct:

* accumulator: after any stream the digest is the sum of `x_i q^(T_i)` modulo p,
  a checkpoint of it can be resumed, and edits and exchanges are seen exactly
  where the algebra says;
* evidence: a verdict blames a window if and only if its field elements changed,
  names the right kind of mismatch, refuses replayed windows, and localises;
* kernel side: what was lost is visible, what was delivered is ordered per CPU;
* collector: what it reports is exact for what it consumed, it consumes
  everything, and it ends;
* rolling hash: one scalar moves a local digest anywhere; for K-Sentry none does;
* strace ingestion: each call counts once, and a case gets its documented verdict;
* baselines and artifact run: a Merkle root covers every event, and a run that ends
  well leaves all outputs of its own programs in `artifacts/`, whole;
* Verus file: its executable digest is the closed form, and what it trusts of short
  logs and of collisions is true.

## 2. Modules

| Module | Models |
|---|---|
| `Modulus` | the modulus and the machine word that every digest has, residues, the powers of a base |
| `FieldArith` | `mod_mul`, `mod_add` on a machine word of `Word` values, their overflow, `triangular_exp`, and the power `mod_pow` returns |
| `Accumulator` | the `KSentry` struct and its methods as operators on records |
| `KSentry` | the accumulator as a state machine: a caller updates it and takes checkpoints at any moment, in a build with or without overflow checks |
| `KSentrySpec` | what the accumulator promises: the slow sum, every power recomputed |
| `Checkpoint` | checkpoints, their comparison, chunking |
| `Evidence` | a recorded window, one fault, both verdicts; the suite's next case |
| `Tracepoints` | the three tracepoint programs on several CPUs, ring buffer, counter |
| `Collector` | the collector, composed with `Tracepoints` and `Accumulator` |
| `Metrics` | the two telemetry experiments of `ksentry-metrics`, from sampling to the second section |
| `Rolling` | the rolling hash, both shifted sums, the rebase by a scalar, and the square-and-multiply loop of `mod_pow` with its overflow |
| `Rebase` | `KSentry` and `Rolling` over one stream and all its chunks |
| `Exponents` | the theory of weight schedules of the Verus file: affine, shift-equivariant, composable by one scalar |
| `Verified` | the executable functions of the Verus file as a state machine, its specification functions, its trusted statements |
| `Trace` | scripts under `strace -f`, the parse of the lines, the two runs of a case |
| `Baselines` | the baseline evaluation, the Merkle tree pair by pair |
| `MerkleRoots` | what its Merkle trees cover, by opening a level parent by parent, and what its files must hold |
| `RunAll` | `run_all_local.sh`, composed with `Trace` (twice) and `Baselines` |
| `MCKSentry`, `MCEvidence`, `MCCollector`, `MCMetrics`, `MCRebase`, `MCVerified`, `MCRunAll` | values of the constants for TLC |
| `ModulusLemmas` | lemmas that need no base of their own: induction, sequences and loops, division and remainders, powers, primes, sums of terms that change in few places, polynomials and their roots |
| `AccumulatorLemmas` | lemmas on `Pow`, on the struct, and on the weighed sums that its digests are |
| `KSentryProofs`, `CollectorProofs`, `EvidenceProofs`, `VerifiedProofs`, `RunAllProofs`, `MetricsProofs` | the theorems; `KSentryProofs` holds those about `Rebase` and `Exponents` too, `CollectorProofs` those about `Tracepoints` |

Definitions carry the names of the code.  Operators that are named as bugs
("plausible bug of the next definition") are not part of any specification; they
are mutated forms of the definition next to them, which the properties must
reject.

### Correspondence and abstractions

**Accumulator.** `update` is one step with its three assignments in order; no
other thread sees the struct between them.  `UpdatePanics` is the same call in a
build with overflow checks when one of its four modular operations leaves the
word.  `q` and `p` never change after `new` and are constants.  In the reference
digest `mod_pow` is represented by its value `Pow`, in unbounded arithmetic,
since that digest defines what is wanted; `Rolling` has its loop.

**Evidence.** An event is a natural number, its hash; reducing it modulo p gives
its field element, so distinct events may coincide.  The observed window may
carry the label of another epoch or stream: `new` takes both from its caller and
`reason_mismatch` compares them first, although the tests of `checkpoint.rs` and
every caller use one stream and epoch 0.  `Verify` compares the whole window as `build_case` does and the chunks as
the tests of `chunker.rs` do (no program calls `chunk_stream`).  Stream ids are
opaque, lists count from 1 and the code's indices from 0.

**Tracepoints.** A program is a process per CPU: `Enter` fills the event and
takes the time stamp, then `Output`, `OutputFails` or `Abandon`.  The programs
interleave between these steps.  `EVENTS.output` is atomic, because the kernel
reserves and commits records under a lock and the reader stops at a record not
yet committed.  The increment of the counter is a load and a store.  What an
event's comm or path says is abstracted to whether the collector's policy
names it.

**Collector.** One iteration of the inner loop is one step; the slot in the ring
is freed at its end, where the item is dropped.  `Attach` attaches one program
at a time, and a program already attached runs meanwhile.  `Fail` stands for
every `?` of `main`.  `parse_raw_kernel_event` cannot answer `None`, since both
sides share the struct.  The sleep between two polls is a state of its own: the
kernel side may do anything during it.  Console output is left out.

**Metrics.** One module for both programs, told apart by the variable `binary`;
they differ in the exponent of the weights (i i, or i (i + 1) / 2), in which
sample they drop, in the window they print and in the second log.  Each attack
is one step that digests the log before and after it and records what is
printed (`cases`), in the order of `main`.  `add_mod_u64` and the
square-and-multiply loop are translated as they stand.  A sample is a packed
word; how load and memory are packed is reduced to which words can come out.
The generated log of the second section of `main1.rs` is any log.  Left out: the
unshifted window states that are printed too, the exhaustive searches for
collisions (they test the digest on constants), timing and files, and the panic
of the exponent's `checked_mul` at index 2^32, which no log comes near.

**Rolling, Rebase.** A function that computes with `mod_pow` or a whole rolling
hash returns whether an operation left the word beside its value; where that
happens the program has panicked and the properties ask nothing.  `Rebase` has
`KSentry`'s actions without `Checkpoint` and asks about every cut of the stream.

**Verified.** One iteration of the inner loop (a power by repeated
multiplication) and the rest of an iteration of the outer loop are steps; then
the log is compared with another, entry by entry.  Preconditions (`requires`) are
assumptions or guards.  The counting functions that the file defines by
recursion are cardinalities of sets.

**Trace.** The scripts of `main` are constants of the model, their runs under bash
are external.  A script is a sequence of stages of processes that run at once; each
call is entered and returns in two steps, and strace completes the line of a
call only if no other line came between.  A line is what the parser can tell: a
call's first half, a resumed call, an exit.  Paths are opaque and the two lists
of patterns are sets.  What strace prints about signals and attached processes
holds no name of a traced call and is left out.

**Baselines.** A hash is the record of what it was given, so two are equal only
if their inputs are.  `synthetic_event` is a constant sequence that `make_events`
reduces.  Each of the three files is computed from runs of its own: the summary
does not summarise the rows of the repeated file.  One turn of the pairing loop
is a step.

**RunAll.** Each stage, write and copy may fail; a failed write or copy leaves
the file alone or cut short.  A file has an age, not contents: absent, old (from
before this run, whole or not), new, or partial, which is cut short by this run.
`Leftovers` says what may lie there at the start, where the programs write their
files and in `artifacts/`; these differ in a clone of the repository, which holds
all seven of the files in `artifacts/` and four of them at home.  Both programs
write a strace report, each in its own directory; the script copies the one of
`timefence-trace`.

## 3. What the runs check

| Run | Instance | Checks |
|---|---|---|
| `ksentry` | p = 7, q = 6, streams up to 4 of {0, 1, 3, 6, 8}, word of 37 values, overflow checks | `TypeOK`, `NoPanic`, `ClosedForm`, `CheckpointsResume`, `SwapSeenExactly`, `EditSeenExactly`, `ImplementsSpec` |
| `ksentry_wrap` | p = 251 in an 8-bit word, no overflow checks | `ClosedForm`, violated |
| `evidence` | windows up to 4 of {1, 3, 7, 8} modulo 7, chunks of 2, every fault at every index, three labels | `VerdictExact`, `VerdictKind`, `SwapLocalised`, `ChunksTile`, `TruncationSeenByChunks` |
| `evidence_zip` | the same | `LengthEditsSeenByChunks`, violated |
| `collector` | 2 CPUs, ring of 2, 4 hits, a window of 3 kept events, programs that count | `FailuresVisible`, `PerCpuOrder`, `LiveEvidence`, `Excerpts`, `ReportComplete`, `NothingCountedTwice`, `ImplementsKSentry`, `Drains`, `Concludes` |
| `metrics` | p = 13 in a word of 16, q in {2, 3}, logs of 3 of {0, 1, 4, 14, 15} | `DigestExact`, `AttackSeenExactly`, `PrefixLocalises`, `WindowCarriesChange`, `CollisionBound` |
| `collector_race` | 2 CPUs, ring of 1, 3 hits, programs that count | `FailuresMeasured`, violated |
| `rebase` | p = 13, q = 9, streams up to 6 of {0, 1, 12, 14}, word of 100, overflow checks | `ClosedForm`, `RollingRebases`, `ShiftedComposes`, `AntiRebaseExactly` |
| `verified` | p = 73, q = 3, all pairs of logs up to 4 of {0, 1, 73}, word of 100 | `MismatchLocalised`, `TrustedShort`, `FewBadBasesInField`, `ImplementsSpec` |
| `verified_axiom` | p = 5, logs up to 2 of {0, 1, 5} | `FewBadBases`, violated |
| `demo` | the three cases of `main` and two with two processes at once, one of them `Ordered`; nine events in five Merkle leaves, two runs; no file, those of a clone, or all of them there before | `CallsCountedOnce`, `Repeatable`, `DocumentedVerdicts`, `RootBinds`, `CopiedUpToFailure`, `Finishes` |
| `demo_clone` | the three cases of `main`, on a fresh clone | `ProducedAsListed`, violated |

Why these bounds are enough to meet the interesting cases:

* 6 has order 2 modulo 7, so an exchange at position 2 is one the digest cannot
  see and those at 1 and 3 it can; the inputs hold 0, and 1 and 8, which are
  congruent.  37 is the smallest word that holds 6 * 6, and 6 occurs both as an
  element and as a weight, so an off-by-one in an overflow test shows.
* 3 has order 6 modulo 7, above the longest window of `evidence`, as 7 has modulo
  1 000 000 007; the window of four is two chunks with a boundary to straddle, or
  one and a short one; 1 and 8 collide, and 7 is the zero of the field.
* 13 is as close to 16 as 2^64 - 59 is to 2^64 in kind: sums of residues leave
  the word; 3 has order 3 modulo 13, so the last weight of a log of three is 1 in
  `main1.rs` and that of a log of four in both, and the exchange goes unseen; 1
  and 14 are congruent; (x, 0, 0) is a log whose truncation is unseen.
* 9 has order 3 modulo 13, so shifts 0, 3 and 6 change nothing and the others do;
  12 * 9 leaves the word of 100 and no other product of the run does, so some
  updates panic and the streams that do not still meet every shift;
* 73 lies above the encoding of three entries below q = 3, which the trusted
  statements need, above every number of bases that collide, and so near 100 that
  the sum of two residues leaves the word; 73 and 0 are the same residue;
* five leaves are odd twice on the way up (5, 3, 2, 1); under p = 101 and q = 7 no
  two traces of the cases collide; one of two processes opens a watched file while
  the other connects, so their events may come in either order, and strace cuts
  lines of both; in the last case the other process makes no event, so `Repeatable`
  asks for one verdict although the lines of the two still mix;
* two CPUs suffice for every race on one counter and one ring; four hits fill a
  ring of two twice over; an excerpt of two in a window of three slides once.

All bounds: `MaxLen` (stream, window or log), `ChunkSize` (1024 in the
baselines), `Runs` (10 in the code), `Leftovers`, `MaxHits` (tracepoint hits), `RingCap`,
`Limit` (30 in the code), `ExcerptLen` (5 in the
code), `Samples` (20) and `BigLen` (1 000 000).

**Fairness.** `Collector` assumes weak fairness of the collector's own steps
taken together (`WF_vars(CollectorStep)`): it is one process that never blocks
except in a sleep of 100 ms, and the operating system schedules it.  Nothing is
assumed of tracepoints: no one has to run `execve`, and a program that started
on a CPU may be preempted for ever.  `Drains` and `Concludes` are therefore
conditional on what has entered the ring; `Drains` is stated for a bounded number
of hits, for a kernel that never pauses may keep the ring from being seen empty.
Fairness adds nothing to the safety properties, which are proved without it.

`RunAll` assumes weak fairness of `Next` as a whole: traced scripts and programs
keep running and every command ends, well or not.  The traced scripts block on
nothing, the programs only wait for what they started.  `Finishes` then says that
their loops end.

### What the violated runs show

* `ksentry_wrap`: `mod_mul` multiplies in u128 without a bound on p, and `new`
  asserts only p > 1.  A p above 2^64 makes a release build return digests that
  are not the documented sum.  All callers use p = 1 000 000 007, which is safe
  (`PanicFree`, `Refinement`).
* `evidence_zip`: the chunk comparison ends with the shorter list, so missing or
  extra chunks are not reported there.  `TruncationSeenByChunks` says exactly
  when that hides a truncation.  The comparison of whole windows catches every
  change of length (`VerdictKind`).
* `verified_axiom`: the collision theorem of the Verus file rests on a lemma that
  is trusted (`external_body`) and asks neither that p is prime nor that entries
  differ modulo p.  The logs <<0>> and <<p>> are distinct and collide under every
  base, where the theorem allows none.  `FewBadBasesInField` says what holds.
* `collector_race`: the failure counter loses increments that overlap.
  `FailuresVisible` says what is left of it: it is nonzero exactly if something
  was lost, and never too high.
* `demo_clone`: `ARTIFACT_SUMMARY.md:15-24` lists `timefence_report.json` and
  `bench.csv` as produced by `run_all_local.sh`, but the programs that it starts write
  neither.  The repository holds both where they were once written, and the script
  copies whatever is there: on a fresh clone, a run that ends well puts these old
  files beside its own new ones, and nothing in `artifacts/` tells them apart.  Where
  they are missing at home, it leaves what `artifacts/` has.  A run that fails while
  copying leaves a mixture too, new files up to the failing copy and old ones behind.
  `CopiedUpToFailure` says what is left: how such a mixture is laid out, and that a
  run that ends well has copied every output of its own programs.

## 4. What is proved

TLAPS checks these for every value of the constants that the named assumptions
allow: `ParamAssumption` and `BaseAssumption` (p > 1 and q > 0, what `new` asserts,
and a machine word), `MetricsAssumption` (p is below the word, bases lie between 1
and p - 1, entries are words, at least two samples and a second log of at least two),
`KSentryAssumption` (inputs are naturals), `EvidenceAssumption` (events are
hashes, chunks are not empty, a label is a stream and an epoch),
`TracepointsAssumption` (finitely many CPUs, a ring that holds a record),
`CollectorAssumption` (a window and an excerpt of at least one event),
`VerifiedAssumption` (the `requires` clauses of the Verus file), `TraceAssumption`
(at least one case) and `BaselinesAssumption` (the synthetic values are naturals,
chunks are not empty, at least one repeated run).  Hypotheses beyond these are named in the
theorems:

| Hypothesis | Says |
|---|---|
| `NoOverflow` | (p - 1)^2 and 2 (p - 1) fit the word, as they do for p = 1 000 000 007 in u128 |
| `SafeBuild` | `NoOverflow`, or the build checks overflow |
| `SumsFit` | 2 (p - 1) fits the word: part of `NoOverflow`, alone where a panicking product is no part of the claim |
| `PrimeParams` | `NoOverflow`, p is prime and does not divide q |
| `SoundParams` | `PrimeParams`, and q^k is not 1 modulo p for 0 < k < `MaxLen`, so the order of q is at least the length of a window |
| `IsPrime` | p is prime, as 2^64 - 59 is in both programs of `ksentry-metrics` |
| `is_domain_mod_p(P)`, `IsDomain` | the Verus file's own hypothesis: no zero divisors modulo p (primes have none, `PrimesAreDomains`) |
| `CasesAsDocumented` | the scripts of the three documented cases, run in turn, come to the documented verdicts, and no stage has two processes that make events |

**Accumulator** (`KSentryProofs`).

* `TypeCorrect`, and `PanicFree`: `Spec => []NoPanic`.
* `DigestIsSpec`: `SafeBuild /\ Spec => []ClosedForm`.  The struct after a stream
  is the one the recursive definition of its digest gives; typing is part of the
  invariant because `mod_mul` is exact only for residues.  The step is
  q^(T_n) q^(n+1) = q^(T_(n+1)), from `PowAdd` and `TriangularStep`.  `Lockstep` is
  its half about `weight` and `step`.
* `Resumable`: a checkpoint fed the rest of the stream ends in the state of the
  stream (`CheckpointsResume`), under `SafeBuild`.
* `EditsSeen`, `SwapsSeen`: under `PrimeParams`, an edit or an exchange of neighbours
  changes the digest exactly when the algebra says.  The difference of two sums
  whose terms agree from some place on is carried through the rest
  (`SumsCarryDifference`), and a product with a power of q is zero only if its other
  factor is (`PowNeverZero`, `FieldCancel`, both from Euclid's lemma).
* `Refinement`: `SafeBuild /\ Spec => ImplementsSpec`: an update is an `Ingest` of
  `KSentrySpec`, a checkpoint or a panic is a stutter.

**Evidence** (`EvidenceProofs`).  The invariant is `StreamInv`: the observed
window is the recorded one after its fault, and the report and the chunk reports
are those of the two.

* `VerdictsByKind`, `ChunksAlwaysTile`, `TruncationsSeen`: what follows from the
  order of the early returns and from the boundaries alone, for every modulus,
  build, window and chunk size.
* `VerdictsExact`, `SwapsLocalised`: under `SoundParams`.  A drop or a duplication
  moves a whole tail and is caught by its length; a swap reduces to `SwapSpec`, in
  one chunk or, straddling two, as an edit of each.

**Tracepoints and collector** (`CollectorProofs`), for any number of CPUs, any ring
and any window.

* `FailuresStayVisible`: the property is not inductive: a CPU between load and
  store holds an old value.  `CounterInv` adds that every such value, and the counter itself, plus
  the number of CPUs in an increment, is at most the number of failures, and that
  failures not yet counted have an increment under way.
* `EventsInOrder`: `OrderInv` adds that stamps are behind the clock and that an event
  in flight is later than all that its CPU has delivered.
* `CountedOnce` (`NothingCountedTwice`): `HitsInv` adds the number of events in
  flight to what has been counted.
* `EvidenceExact` (`LiveEvidence`), `ReportsComplete`, `ExcerptsExact`: under
  `NoOverflow`, which the collector's parameters satisfy.  `EventInv` says what can be
  in the ring, `AccountInv` ties the two counters to the events consumed,
  `EvidenceInv` the digest to those kept, `WindowInv` says that no window is
  overfilled and when a report is written, and `ExcerptInv` that each excerpt is a
  stretch of the kept events at its place.
* `CollectorRefines`: what the collector feeds its accumulator is a behaviour of
  `KSentry` (`ImplementsKSentry`).

**Rolling hash and rebase** (`KSentryProofs`), for streams and chunks of any length.

* `RollingAlwaysRebases` (`RollingRebases`), under `SumsFit`, in every build and for
  every p: where no operation panics, one product moves the digest of a chunk to its
  place.  The loop of `mod_pow` returns `Pow`: in each turn `base` is q^m and
  `result` q^r for some m and r with r + m * `exp` the exponent asked for.  Both
  sums are then weighed sums, which split at a cut and scale with their weights.
* `ShiftedAlwaysComposes` (`ShiftedComposes`), under `SafeBuild` and `SumsFit`.
  `ClosedForm` is not enough: the property also asks for the digest of each
  beginning of the stream, which `BeginningsExact` adds to the invariant.
* `AntiRebaseAlways` (`AntiRebaseExactly`), under `PrimeParams`, on the digests
  that the code computes.  T_(a+b) = T_a + T_b + a b, so the scalar for one event at
  the first position moves one at the second only if q^s is 1.  A scalar exists among
  the exponents 0 to p - 2 because the powers of q repeat (a pigeonhole on the
  residues).
* `OneScalarExactlyAffine`: exponents by which one scalar rebases every chunk at
  every shift are exactly the affine ones; `TriangularNotAffine` and
  `TriangularNeverRebases`: the triangular ones are none of them, at any shift but 0.
  These are the statements of `antirebase.rs` and of the Verus file about exponents;
  `AntiRebaseAlways` is about powers, which may repeat where exponents do not.
* `RebaseDigestIsSpec`: the digest is the documented sum here, too, since the steps
  of `Rebase` are steps of `KSentry`.

**Verus file** (`VerifiedProofs`), for logs, moduli and words of any size.

* `AddModExact`: its addition is exact for every p that fits the word, while the
  `mod_mul` of `ksentry.rs` needs (p - 1)^2 to fit.
* `LoopInvariants`, `VerifiedRefines` (`ImplementsSpec`), `VerifiedDigest`: the digest
  loop implements `KSentrySpec` and returns the closed form as a sum.  The inductive
  invariant adds to `TypeOK` that the inner loop holds q^curr modulo p and never
  passes its target, and that the logs agree before the index of the comparison.
* `FirstMismatchFound`, `MismatchesLocalised`: the comparison returns the first place
  where two logs differ, and over a domain the digests of logs that differ in one
  residue differ.
* `TrustedStatements` (`TrustedShort`): what the file takes on trust of logs of up to
  three entries is true: its three helpers (`lemma_ramanujan_seq1` to `seq3`, for
  every base) and its five theorems, three of which say the same.
* `FewRoots` (in `ModulusLemmas`), `FewBasesCollide` (`FewBadBasesInField`): the
  collision theorem with the hypotheses it lacks.  A polynomial is the function of its coefficients, with one
  that is not zero; dividing it by x - a leaves one of lower degree with the other
  roots.  So every property of the run `verified` is a theorem.

**ksentry-metrics** (`MetricsProofs`), for both programs, every modulus below the
word, logs of any length.  All five invariants of the run `metrics` are theorems.

* `MetricsInvariant`: the inductive invariant `IInv`.  Sampling takes at most
  `Samples` entries and leaves a log that is not empty (`TypesHold`); the base is one
  of `Bases` once there is a `KSentry` (`BaseChosen`); the n cases so far are the
  first n attacks, each with the report of that attack on the log that is there
  (`CasesReported`, `SeenBy` says how many n a section may have); and the composition
  was computed from the same log (`HalvesComposed`).  The properties of `Metrics` are
  about reports, so without it nothing would tie a report to its log.
* `StatesAreDigests` (`DigestExact`): `AddExact` and the invariant of the
  square-and-multiply loop (base is b^m, result b^r, and r + m `exp` is the exponent)
  make each state a sum of terms modulo p, which never leaves the residues although
  p may be the largest value of the word.
* `AttacksSeen` (`AttackSeenExactly`): the states of a log and of the damaged log are
  sums whose terms differ at one place, at the two ends, or from one place on.  One
  term that differs is a change that a weight cannot hide (`SingleChange`); the
  exchange leaves (x - y) (1 - w) with w the last weight; a truncation loses the
  sum of the rest at its offset.
* `PrefixesLocalise` (`PrefixLocalises`): below the first differing residue both lists
  of prefix states agree, there they differ by one term.
* `WindowsCarryChange` (`WindowCarriesChange`), for composite p also: the sum over the
  window carries the whole drift, the sum over the halves is that of the whole.
* `FewBasesCollide` (`CollisionBound`): colliding bases are roots of the polynomial
  whose coefficient at e is the difference of the entries whose exponent is e; the
  exponents are distinct, so it is not zero, and its degree is the printed bound.
  `FewRoots` does the rest.

**Artifact run and baselines** (`RunAllProofs`), with nothing assumed of the
scheduler, and of the scripts only what a theorem names.

* `CountedOnce` (`CallsCountedOnce`): `TracingInv` splits the lines that strace has
  written, and those its processes are still to write, by process; parsing them
  yields the events in the order in which their calls were entered.
* `VerdictsRepeat` (`Repeatable`): the events of a script are, for each stage, a
  merge of its processes' events, so their number is always that of the script run
  in turn; where at most one process of a stage makes events this leaves one order,
  whichever way the scheduler went, and so one digest and one verdict.
* `DocumentedAlways` (`DocumentedVerdicts`): the three verdicts of `MASTER_REPORT.md`
  depend on the hashes and the scripts, so the theorem takes `CasesAsDocumented`,
  which looks at the scripts run in turn only.  TLC evaluates it for the cases of
  `main` (`CasesOfMainDocumented` in `MCRunAll`); the theorem adds that no
  interleaving and no cut line leads to another verdict.
* `RootsBind` (`RootBinds`): a hash has a height, and opening a level of height n
  leaves one of height n - 1 or, at the leaves, the same level.  `Pairing` says that a
  level of height h and the one above it, as far as it is built, open to the events,
  and that h and the number of leaves still to be joined stay within the number of
  leaves, so the openings of `Covered` are always enough.  `PairingStep` is one turn of
  the inner loop, an odd leaf included.  `RowsInv` counts, method by method, the runs
  whose rows are there, which gives the files of rows and the summary.
* `CopiedInOrder` (`CopiedUpToFailure`): `FilesInv` says at every step of the script
  which files of this run exist at home, whole or cut, and which have been copied;
  that no two copy commands copy one file keeps a failing copy from spoiling an
  earlier one.  Nothing is assumed of `Leftovers`.

Both theorems called `CountedOnce`, and both called `FewBasesCollide`, are about their
own component.

**How the lemmas go.**  `ModulusLemmas` derives what is needed of `%` and of powers
from the prover's axioms of integer division: a remainder is unique, so products and
sums can be reduced in any order.  Induction is carried out as the exclusion of a
smallest counterexample (`NatMinimum`, `SetInduction`, `SequenceInduction`).  A recursive
function equals its own right-hand side only once some function that does is known
to exist; `LoopExists` and `IterationExists` construct it from bounded approximations.

**Only model-checked.**

* Liveness (`Drains`, `Concludes`, `Finishes`): the prover handles no fairness.

## 5. Not modelled, and the plan

Every safety invariant, every action property and every refinement that a passing
run checks is a theorem; liveness is not (end of section 4).

Not modelled, and why:

* `report.rs`, `bench.rs`, `csv.rs`: formatting, timing and one write each; the
  timing columns of the baselines likewise.
* The canonical string of an event and SipHash: an event is its hash.  The text of
  connect targets.
* The exhaustive collision searches and the packing of a sample in
  `ksentry-metrics`: the first test the digest on constants.
* The proof scripts of the Verus file, by far most of its 4125 lines: Verus reads
  them and nothing runs them.  Its executable functions, its definitions and the
  trusted statements on short logs and on roots are modelled.  Its other trusted
  lemmas (`lemma_u128_mod_lt`, `lemma_term_u64_matches_int`, `lemma_one_mod_p`,
  `lemma_spec_pow_three`, `lemma_mod_add_multiple`, `lemma_triangle_fits_u64`) are
  arithmetic that the model has built in, and no property states them; the last one
  is the reason for the bound on k in `VerifiedAssumption`.
* What a plot looks like (`plot_baselines.py`) and recorded outputs.
* Copies: `timefence-core-local-complete/src`, `proofs-local-complete`,
  `timefence-trace/timefence-trace` and `verus-x86-win/finaltest2.rs` are files of
  the modelled trees once more.
* `verus-x86-win`: the Verus distribution with its standard library.  It is third
  party and no program of the repository is linked with it.

In numbers: of about 87,000 lines of Rust some 71,000 are that distribution and
6,000 to 7,000 are copies, which leaves about 9,600 lines of the repository's own,
4,125 of them the Verus file.  The models stand for about 2,900 lines.  What is
left of the programs is tests, console output, formatting and the items above.

## 6. Running

    tlc -workers 2 -config KSentry.cfg MCKSentry.tla
    tlc -workers 2 -config Evidence.cfg MCEvidence.tla
    tlc -workers 2 -config Collector.cfg MCCollector.tla
    tlc -workers 2 -config Metrics.cfg MCMetrics.tla
    tlc -workers 2 -config Rebase.cfg MCRebase.tla
    tlc -workers 2 -config Verified.cfg MCVerified.tla
    tlc -workers 2 -config RunAll.cfg MCRunAll.tla
    tlc -workers 2 -config RunAllClone.cfg MCRunAll.tla
    tlapm KSentryProofs.tla
    tlapm EvidenceProofs.tla
    tlapm CollectorProofs.tla
    tlapm VerifiedProofs.tla
    tlapm RunAllProofs.tla
    tlapm MetricsProofs.tla

and likewise for the other configurations and proof modules.  The deadlock check
is off only where the program stops: a panic, a collector that has exited, an
experiment, a comparison or a script that is done.
No configuration uses symmetry: that of the CPUs would not be sound for the
liveness properties of `Collector.cfg`, the longest of the runs (some four
minutes).
