------------------------------ MODULE Evidence ------------------------------
(***************************************************************************)
(* The evidence path of timefence-core: a source records a stream of       *)
(* events, the stream suffers at most one telemetry fault on its way       *)
(* (fault.rs, incident.rs), both ends are checkpointed as a whole window   *)
(* and in chunks, and the verifier compares the checkpoints (build_case of *)
(* incident.rs, verify_chunked_streams of chunker.rs).                     *)
(*                                                                         *)
(* An event is represented by its 64-bit hash: to_field_element reduces it *)
(* modulo p, so distinct events may become the same field element.         *)
(***************************************************************************)
EXTENDS Checkpoint
LOCAL INSTANCE FiniteSetsExt

CONSTANTS
    Events,     \* hashes of the events that occur
    Old,        \* the earlier stream a splice takes its prefix from
    MaxLen,     \* bound on the length of the recorded stream
    ChunkSize,  \* the chunk_size argument of chunk_stream
    Label,      \* stream id and epoch of the recorded window
    Labels      \* stream ids and epochs an observed window can carry

ASSUME EvidenceAssumption ==
    /\ Events \subseteq Nat
    /\ Old \in Seq(Events)
    /\ MaxLen \in Nat
    /\ ChunkSize \in Nat /\ ChunkSize > 0   \* asserted by chunk_stream
    /\ Label \in Labels
    /\ \A l \in Labels : l = [stream_id |-> l.stream_id, epoch |-> l.epoch]

VARIABLES
    phase,      \* "recording", "transit" or "verified"
    original,   \* the recorded events
    observed,   \* the events that arrived downstream
    fault,      \* the FaultKind injected, and where
    label,      \* the label of the observed window
    report,     \* the verdict on the whole window
    chunkReports  \* the verdicts on the chunks

vars == <<phase, original, observed, fault, label, report, chunkReports>>

NoFault == [kind |-> "None", at |-> 0]
NoReport == [reason |-> "None", status |-> "Pending"]

field_stream(events) == [i \in DOMAIN events |-> events[i] % P]

-----------------------------------------------------------------------------
(***************************************************************************)
(* The fault functions of fault.rs.  Indices count from 0; an index past   *)
(* the end leaves the stream as it is.                                     *)
(***************************************************************************)
drop_one(xs, index) ==
    IF index < Len(xs)
    THEN SubSeq(xs, 1, index) \o SubSeq(xs, index + 2, Len(xs))
    ELSE xs

swap_adjacent(xs, index) ==
    IF index + 1 < Len(xs)
    THEN [xs EXCEPT ![index + 1] = xs[index + 2],
                    ![index + 2] = xs[index + 1]]
    ELSE xs

duplicate_one(xs, index) ==
    IF index < Len(xs)
    THEN SubSeq(xs, 1, index + 1) \o SubSeq(xs, index + 1, Len(xs))
    ELSE xs

truncate_tail(xs, new_len) == SubSeq(xs, 1, Min({new_len, Len(xs)}))

splice_old_prefix(current, old, prefix_len) ==
    SubSeq(old, 1, Min({prefix_len, Len(old)}))
        \o SubSeq(current, prefix_len + 1, Len(current))

inject(xs, f) ==
    CASE f.kind = "DropOne"         -> drop_one(xs, f.at)
      [] f.kind = "SwapAdjacent"    -> swap_adjacent(xs, f.at)
      [] f.kind = "DuplicateOne"    -> duplicate_one(xs, f.at)
      [] f.kind = "TruncateTail"    -> truncate_tail(xs, f.at)
      [] f.kind = "SpliceOldPrefix" -> splice_old_prefix(xs, Old, f.at)

FaultKinds == {"DropOne", "SwapAdjacent", "DuplicateOne", "TruncateTail",
               "SpliceOldPrefix"}

-----------------------------------------------------------------------------
Init ==
    /\ phase = "recording"
    /\ original = << >>
    /\ observed = << >>
    /\ fault = NoFault
    /\ label = Label
    /\ report = NoReport
    /\ chunkReports = << >>

Record(e) ==
    /\ phase = "recording"
    /\ Len(original) < MaxLen
    /\ original' = Append(original, e)
    /\ UNCHANGED <<phase, observed, fault, label, report, chunkReports>>

(***************************************************************************)
(* The recorded window goes downstream: as it is, or with one fault.       *)
(***************************************************************************)
Deliver ==
    /\ phase = "recording"
    /\ phase' = "transit"
    /\ observed' = original
    /\ UNCHANGED <<original, fault, label, report, chunkReports>>

InjectFault(kind, at) ==
    /\ phase = "transit"
    /\ fault = NoFault
    /\ fault' = [kind |-> kind, at |-> at]
    /\ observed' = inject(original, fault')
    /\ UNCHANGED <<phase, original, label, report, chunkReports>>

(***************************************************************************)
(* The observed window is checkpointed under the label it carries, and     *)
(* compared with the expected one, as a whole and chunk by chunk.          *)
(***************************************************************************)
WholeCheckpoint(l, events) ==
    LET xs == field_stream(events)
    IN  NewCheckpoint(l, 0, Len(xs), ksentry_fast(xs).acc)

ChunkCheckpoints(l, events) == chunk_stream(l, field_stream(events), ChunkSize)

Verify(l) ==
    /\ phase = "transit"
    /\ phase' = "verified"
    /\ label' = l
    /\ report' = verify_checkpoint(WholeCheckpoint(Label, original),
                                   WholeCheckpoint(l, observed))
    /\ chunkReports' = verify_chunked_streams(ChunkCheckpoints(Label, original),
                                              ChunkCheckpoints(l, observed))
    /\ UNCHANGED <<original, observed, fault>>

(***************************************************************************)
(* run_incident_suite builds its next case from the same recorded events.  *)
(***************************************************************************)
NextCase ==
    /\ phase = "verified"
    /\ phase' = "transit"
    /\ observed' = original
    /\ fault' = NoFault
    /\ label' = Label
    /\ report' = NoReport
    /\ chunkReports' = << >>
    /\ UNCHANGED original

Next ==
    \/ \E e \in Events : Record(e)
    \/ Deliver
    \/ \E kind \in FaultKinds, at \in 0 .. MaxLen : InjectFault(kind, at)
    \/ \E l \in Labels : Verify(l)
    \/ NextCase

Spec == Init /\ [][Next]_vars

-----------------------------------------------------------------------------
Verified == phase = "verified" /\ label = Label

SameStream == field_stream(original) = field_stream(observed)

(***************************************************************************)
(* One drop, swap, duplication or truncation, wherever it strikes, is      *)
(* reported if and only if it changed the field elements of the window:    *)
(* none is missed, none is reported that did nothing.  A splice replaces   *)
(* several elements at once, so for it only the second half holds.         *)
(* (incident.rs; the base must have an order above the window's length.)   *)
(***************************************************************************)
VerdictExact ==
    Verified =>
        /\ SameStream => ~ is_suspicious(report)
        /\ (fault.kind # "SpliceOldPrefix" /\ ~ SameStream)
               => is_suspicious(report)

\* A window with the label of another stream or epoch, such as a replayed one.
ReplayRefused ==
    phase = "verified" /\ label # Label =>
        /\ report.status = "MetadataMismatch"
        /\ \A k \in DOMAIN chunkReports :
              chunkReports[k].status = "MetadataMismatch"

(***************************************************************************)
(* "length-changing edits are caught by metadata, same-length/order/       *)
(* content edits are checked by digest" (checkpoint.rs): on the whole      *)
(* window a length mismatch is reported if and only if the fault changed   *)
(* the length, and the digest is blamed only for windows of equal length.  *)
(* A window with another label is a metadata mismatch in the whole and in  *)
(* every chunk that is compared, whatever its contents and digests are.    *)
(***************************************************************************)
VerdictKind ==
    /\ Verified =>
        /\ report.reason = "Length" <=> Len(original) # Len(observed)
        /\ report.reason \in {"None", "Digest", "Length"}
    /\ ReplayRefused

(***************************************************************************)
(* A swap is localised: the first suspicious chunk is the one that holds   *)
(* the first element that moved, also where the swap straddles two chunks. *)
(***************************************************************************)
FirstDifference ==
    Min({i \in DOMAIN original : field_stream(original)[i]
                                     # field_stream(observed)[i]})

SwapLocalised ==
    Verified /\ fault.kind = "SwapAdjacent" /\ ~ SameStream =>
        first_bad_chunk_index(chunkReports)
            = (FirstDifference - 1) \div ChunkSize

(***************************************************************************)
(* The chunk checkpoints of either end tile its window: each starts where  *)
(* the one before it ends, from 0 to the length, none is empty and only    *)
(* the last may be short.                                                  *)
(***************************************************************************)
Tiles(ckpts, events) ==
    /\ \A k \in 1 .. (Len(ckpts) - 1) :
          adjacent_to(ckpts[k], ckpts[k + 1]) /\ ckpts[k].len = ChunkSize
    /\ \A k \in DOMAIN ckpts : ckpts[k].len \in 1 .. ChunkSize
    /\ (IF ckpts = << >> THEN 0 ELSE ckpts[Len(ckpts)].end_seq) = Len(events)

ChunksTile ==
    phase = "verified" =>
        /\ Tiles(ChunkCheckpoints(Label, original), original)
        /\ Tiles(ChunkCheckpoints(label, observed), observed)

(***************************************************************************)
(* How much of a truncation the chunk comparison sees: nothing at all if   *)
(* and only if the cut falls between two chunks, because the list of       *)
(* reports ends with the shorter of the two lists of checkpoints.          *)
(***************************************************************************)
TruncationSeenByChunks ==
    Verified /\ fault.kind = "TruncateTail" /\ Len(observed) < Len(original) =>
        (first_bad_chunk_index(chunkReports) = -1)
            <=> (Len(observed) % ChunkSize = 0)

(***************************************************************************)
(* What checkpoint.rs says of every length-changing edit, asked of the     *)
(* chunk comparison: where chunks are compared at all, one is suspicious.  *)
(* The code does not do this.                                              *)
(***************************************************************************)
LengthEditsSeenByChunks ==
    Verified /\ chunkReports # << >> /\ Len(original) # Len(observed) =>
        first_bad_chunk_index(chunkReports) # -1
=============================================================================
