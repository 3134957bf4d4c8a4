----------------------------- MODULE Checkpoint -----------------------------
(***************************************************************************)
(* The evidence checkpoint of timefence-core/src/checkpoint.rs, its        *)
(* comparison (verifier.rs) and the chunking of a stream into checkpoints  *)
(* (chunker.rs), as operators.                                             *)
(*                                                                         *)
(* Sequence positions inside a checkpoint count from 0 as in the code;     *)
(* TLA+ sequences count from 1.                                            *)
(***************************************************************************)
EXTENDS Accumulator
LOCAL INSTANCE FiniteSetsExt

-----------------------------------------------------------------------------
(***************************************************************************)
(* Plausible bugs of the definitions below, for the mutation checks.       *)
(***************************************************************************)
CheckedDigestFirst ==
    << [reason |-> "Digest",   fields |-> {"digest"}],
       [reason |-> "StreamId", fields |-> {"stream_id"}],
       [reason |-> "Epoch",    fields |-> {"epoch"}],
       [reason |-> "StartSeq", fields |-> {"start_seq"}],
       [reason |-> "Length",   fields |-> {"len"}],
       [reason |-> "EndSeq",   fields |-> {"end_seq"}],
       [reason |-> "Params",   fields |-> {"q", "p"}] >>

CheckedWithoutDigest ==
    << [reason |-> "StreamId", fields |-> {"stream_id"}],
       [reason |-> "Epoch",    fields |-> {"epoch"}],
       [reason |-> "StartSeq", fields |-> {"start_seq"}],
       [reason |-> "Length",   fields |-> {"len"}],
       [reason |-> "EndSeq",   fields |-> {"end_seq"}] >>

CheckedWithoutLabels ==
    << [reason |-> "StartSeq", fields |-> {"start_seq"}],
       [reason |-> "Length",   fields |-> {"len"}],
       [reason |-> "EndSeq",   fields |-> {"end_seq"}],
       [reason |-> "Params",   fields |-> {"q", "p"}],
       [reason |-> "Digest",   fields |-> {"digest"}] >>

CheckedWithoutLength ==
    << [reason |-> "StreamId", fields |-> {"stream_id"}],
       [reason |-> "Epoch",    fields |-> {"epoch"}],
       [reason |-> "StartSeq", fields |-> {"start_seq"}],
       [reason |-> "Params",   fields |-> {"q", "p"}],
       [reason |-> "Digest",   fields |-> {"digest"}] >>

ChunksDroppingTail(xs, size) ==
    [k \in 1 .. (Len(xs) \div size) |->
        SubSeq(xs, (k - 1) * size + 1, k * size)]

LastBad(reports) ==
    LET bad == {k \in 1 .. Len(reports) : reports[k].status # "Clean"}
    IN  IF bad = {} THEN -1 ELSE Max(bad) - 1

-----------------------------------------------------------------------------
(***************************************************************************)
(* TimeFenceCheckpoint::new                                                *)
(***************************************************************************)
NewCheckpoint(label, start, len, digest) ==
    [stream_id |-> label.stream_id, epoch |-> label.epoch,
     start_seq |-> start, end_seq |-> start + len, len |-> len,
     digest |-> digest, q |-> Q, p |-> P]

(***************************************************************************)
(* reason_mismatch: the first of these comparisons that fails, in the      *)
(* order of the code's early returns.                                      *)
(***************************************************************************)
Checked ==
    << [reason |-> "StreamId", fields |-> {"stream_id"}],
       [reason |-> "Epoch",    fields |-> {"epoch"}],
       [reason |-> "StartSeq", fields |-> {"start_seq"}],
       [reason |-> "Length",   fields |-> {"len"}],
       [reason |-> "EndSeq",   fields |-> {"end_seq"}],
       [reason |-> "Params",   fields |-> {"q", "p"}],
       [reason |-> "Digest",   fields |-> {"digest"}] >>

reason_mismatch(c, o) ==
    LET differs == {i \in 1 .. Len(Checked) :
                       \E f \in Checked[i].fields : c[f] # o[f]}
    IN  IF differs = {} THEN "None" ELSE Checked[Min(differs)].reason

adjacent_to(c, next) ==
    /\ c.stream_id = next.stream_id
    /\ c.epoch = next.epoch
    /\ c.end_seq = next.start_seq

(***************************************************************************)
(* verify_checkpoint: the status of a report, with the reason a metadata   *)
(* mismatch carries.  The report's other fields are copies of the two      *)
(* checkpoints' and are left out.                                          *)
(***************************************************************************)
verify_checkpoint(expected, observed) ==
    LET reason == reason_mismatch(expected, observed)
    IN  [reason |-> reason,
         status |-> CASE reason = "None"   -> "Clean"
                      [] reason = "Digest" -> "DigestMismatch"
                      [] OTHER             -> "MetadataMismatch"]

is_suspicious(report) == report.status # "Clean"

-----------------------------------------------------------------------------
(***************************************************************************)
(* xs.chunks(size): consecutive pieces of size elements, the last one      *)
(* shorter if size does not divide the length; no piece of an empty slice. *)
(***************************************************************************)
chunks(xs, size) ==
    [k \in 1 .. ((Len(xs) + size - 1) \div size) |->
        SubSeq(xs, (k - 1) * size + 1,
               IF k * size < Len(xs) THEN k * size ELSE Len(xs))]

(***************************************************************************)
(* chunk_stream: each chunk is digested by an accumulator of its own, and  *)
(* its checkpoint starts where the chunk starts in the stream.             *)
(***************************************************************************)
chunk_stream(label, xs, size) ==
    LET cs == chunks(xs, size)
    IN  [k \in DOMAIN cs |->
            NewCheckpoint(label, (k - 1) * size, Len(cs[k]),
                          ksentry_fast(cs[k]).acc)]

(***************************************************************************)
(* verify_chunked_streams and verify_many: the two lists are zipped, so    *)
(* the comparison ends with the shorter of them.                           *)
(***************************************************************************)
verify_chunked_streams(expected, observed) ==
    [k \in 1 .. Min({Len(expected), Len(observed)}) |->
        verify_checkpoint(expected[k], observed[k])]

(***************************************************************************)
(* first_bad_chunk_index, -1 for None.                                     *)
(***************************************************************************)
first_bad_chunk_index(reports) ==
    LET bad == {k \in 1 .. Len(reports) : is_suspicious(reports[k])}
    IN  IF bad = {} THEN -1 ELSE Min(bad) - 1
=============================================================================
