--------------------------- MODULE EvidenceProofs ---------------------------
(***************************************************************************)
(* Theorems about the evidence path: what the verifier says of a window    *)
(* and of its chunks, for every stream, every fault at every place, every  *)
(* chunk size and every set of labels.                                     *)
(***************************************************************************)
EXTENDS Evidence, AccumulatorLemmas
LOCAL INSTANCE FiniteSetsExt

-----------------------------------------------------------------------------
(***************************************************************************)
(* The invariant: the observed window is what the fault made of the        *)
(* recorded one, and the reports are those of the two.                     *)
(***************************************************************************)
Faults == [kind : FaultKinds, at : 0 .. MaxLen]

StreamInv ==
    /\ phase \in {"recording", "transit", "verified"}
    /\ original \in Seq(Events) /\ Len(original) <= MaxLen
    /\ phase # "recording" =>
           \/ fault = NoFault /\ observed = original
           \/ fault \in Faults /\ observed = inject(original, fault)
    /\ phase = "recording" => fault = NoFault
    /\ phase = "verified" =>
           /\ label \in Labels
           /\ report = verify_checkpoint(WholeCheckpoint(Label, original),
                                         WholeCheckpoint(label, observed))
           /\ chunkReports =
                  verify_chunked_streams(ChunkCheckpoints(Label, original),
                                         ChunkCheckpoints(label, observed))

LEMMA StreamInit == Init => StreamInv
  BY EvidenceAssumption, EmptySeq DEF Init, StreamInv

LEMMA StreamStep == StreamInv /\ [Next]_vars => StreamInv'
<1> SUFFICES ASSUME StreamInv, [Next]_vars PROVE StreamInv'
  OBVIOUS
<1>1. ASSUME NEW e \in Events, Record(e) PROVE StreamInv'
  <2>1. /\ original' = Append(original, e) /\ Len(original) < MaxLen
        /\ phase = "recording" /\ phase' = phase /\ fault' = fault
        /\ original \in Seq(Events) /\ fault = NoFault
    BY <1>1 DEF Record, StreamInv
  <2>2. original' \in Seq(Events) /\ Len(original') = Len(original) + 1
    BY <2>1, AppendProperties
  <2>3. Len(original') <= MaxLen
    BY <2>1, <2>2, EvidenceAssumption, LenProperties
  <2> QED
    BY <2>1, <2>2, <2>3 DEF StreamInv
<1>2. CASE Deliver
  BY <1>2 DEF Deliver, StreamInv
<1>3. ASSUME NEW kind \in FaultKinds, NEW at \in 0 .. MaxLen,
             InjectFault(kind, at)
      PROVE  StreamInv'
  <2>1. /\ fault' \in Faults /\ observed' = inject(original, fault')
        /\ original' = original /\ phase' = "transit"
    BY <1>3 DEF InjectFault, Faults
  <2> QED
    BY <2>1 DEF StreamInv
<1>4. ASSUME NEW l \in Labels, Verify(l) PROVE StreamInv'
  <2>1. /\ phase = "transit" /\ phase' = "verified" /\ label' = l
        /\ UNCHANGED <<original, observed, fault>>
        /\ report' = verify_checkpoint(WholeCheckpoint(Label, original),
                                       WholeCheckpoint(l, observed))
        /\ chunkReports' =
               verify_chunked_streams(ChunkCheckpoints(Label, original),
                                      ChunkCheckpoints(l, observed))
    BY <1>4 DEF Verify
  <2> QED
    BY <2>1 DEF StreamInv
<1>5. CASE NextCase
  BY <1>5 DEF NextCase, StreamInv
<1>6. CASE UNCHANGED vars
  BY <1>6 DEF vars, StreamInv
<1> QED
  BY <1>1, <1>2, <1>3, <1>4, <1>5, <1>6 DEF Next

LEMMA StreamAlways == Spec => []StreamInv
  BY StreamInit, StreamStep, PTL DEF Spec

-----------------------------------------------------------------------------
(***************************************************************************)
(* The faults: what they leave is a stream of events, and all but a swap   *)
(* and a splice change its length or nothing.                              *)
(***************************************************************************)
LEMMA MinIs ==
    ASSUME NEW S, S \subseteq Int, NEW m \in S, \A k \in S : m <= k
    PROVE  Min(S) = m
<1> DEFINE x == CHOOSE x \in S : \A y \in S : x =< y
<1>1. x \in S /\ \A y \in S : x =< y
  OBVIOUS
<1> HIDE DEF x
<1>2. x <= m /\ m <= x /\ x \in Int /\ m \in Int
  BY <1>1
<1>3. x = m
  BY <1>2
<1> QED
  BY <1>3 DEF Min, x

LEMMA MinOfTwo ==
    ASSUME NEW a \in Int, NEW b \in Int
    PROVE  Min({a, b}) = IF a <= b THEN a ELSE b
<1>1. CASE a <= b
  <2>1. {a, b} \subseteq Int /\ a \in {a, b} /\ \A k \in {a, b} : a <= k
    BY <1>1
  <2> QED
    BY <1>1, <2>1, MinIs
<1>2. CASE ~ (a <= b)
  <2>1. {a, b} \subseteq Int /\ b \in {a, b} /\ \A k \in {a, b} : b <= k
    BY <1>2
  <2> QED
    BY <1>2, <2>1, MinIs
<1> QED
  BY <1>1, <1>2

\* A piece of a sequence, from its n-th element to its m-th.
LEMMA Piece ==
    ASSUME NEW S, NEW xs \in Seq(S), NEW n \in Nat, NEW m \in Nat,
           n >= 1, m <= Len(xs)
    PROVE  /\ SubSeq(xs, n, m) \in Seq(S)
           /\ Len(SubSeq(xs, n, m)) = IF n <= m THEN (m - n) + 1 ELSE 0
           /\ \A i \in 1 .. ((m - n) + 1) :
                 SubSeq(xs, n, m)[i] = xs[(n - 1) + i]
<1>1. Len(xs) \in Nat
  BY LenProperties
<1>2. \A i \in n .. m : xs[i] \in S
  BY <1>1, ElementOfSeq
<1>3. /\ SubSeq(xs, n, m) \in Seq(S)
      /\ Len(SubSeq(xs, n, m)) = IF n <= m THEN m - n + 1 ELSE 0
      /\ \A i \in 1 .. (m - n + 1) : SubSeq(xs, n, m)[i] = xs[n + i - 1]
  BY <1>2, SubSeqProperties
<1>4. \A i \in 1 .. ((m - n) + 1) : n + i - 1 = (n - 1) + i
  OBVIOUS
<1> QED
  BY <1>3, <1>4

LEMMA InjectTyped ==
    ASSUME NEW es \in Seq(Events), Len(es) <= MaxLen, NEW f \in Faults
    PROVE  inject(es, f) \in Seq(Events)
<1> DEFINE a == f.at
           n == Len(es)
<1>1. /\ n \in Nat /\ a \in Nat /\ f.kind \in FaultKinds
      /\ Old \in Seq(Events) /\ Len(Old) \in Nat
  BY EvidenceAssumption, LenProperties DEF Faults
<1>2. ASSUME NEW k \in Nat, NEW m \in Nat, k >= 1, m <= n
      PROVE  SubSeq(es, k, m) \in Seq(Events)
  BY <1>2, Piece
<1> HIDE DEF a
<1>3. drop_one(es, a) \in Seq(Events)
  <2>1. ASSUME a < n
        PROVE  SubSeq(es, 1, a) \o SubSeq(es, a + 2, n) \in Seq(Events)
    <3>1. SubSeq(es, 1, a) \in Seq(Events) /\ SubSeq(es, a + 2, n) \in Seq(Events)
      BY <1>1, <1>2, <2>1
    <3> QED
      BY <3>1, ConcatProperties
  <2> QED
    BY <2>1 DEF drop_one
<1>4. swap_adjacent(es, a) \in Seq(Events)
  <2>1. ASSUME a + 1 < n
        PROVE  [es EXCEPT ![a + 1] = es[a + 2], ![a + 2] = es[a + 1]]
                   \in Seq(Events)
    <3>1. a + 1 \in 1 .. n /\ a + 2 \in 1 .. n
      BY <1>1, <2>1
    <3>2. es[a + 1] \in Events /\ es[a + 2] \in Events
      BY <3>1, ElementOfSeq
    <3>3. [es EXCEPT ![a + 1] = es[a + 2]] \in Seq(Events)
          /\ Len([es EXCEPT ![a + 1] = es[a + 2]]) = n
      BY <3>1, <3>2, ExceptSeq
    <3> QED
      BY <3>1, <3>2, <3>3, ExceptSeq
  <2> QED
    BY <2>1 DEF swap_adjacent
<1>5. duplicate_one(es, a) \in Seq(Events)
  <2>1. ASSUME a < n
        PROVE  SubSeq(es, 1, a + 1) \o SubSeq(es, a + 1, n) \in Seq(Events)
    <3>1. SubSeq(es, 1, a + 1) \in Seq(Events) /\ SubSeq(es, a + 1, n) \in Seq(Events)
      BY <1>1, <1>2, <2>1
    <3> QED
      BY <3>1, ConcatProperties
  <2> QED
    BY <2>1 DEF duplicate_one
<1>6. truncate_tail(es, a) \in Seq(Events)
  <2>1. PICK m \in Nat : m = Min({a, n}) /\ m <= n
    BY <1>1, MinOfTwo
  <2>2. 1 \in Nat /\ 1 >= 1
    OBVIOUS
  <2>3. SubSeq(es, 1, m) \in Seq(Events)
    BY <1>2, <2>1, <2>2
  <2>4. truncate_tail(es, a) = SubSeq(es, 1, m)
    BY <2>1 DEF truncate_tail
  <2> QED
    BY <2>3, <2>4
<1>7. splice_old_prefix(es, Old, a) \in Seq(Events)
  <2>1. PICK m \in Nat : m = Min({a, Len(Old)}) /\ m <= Len(Old)
    BY <1>1, MinOfTwo
  <2>2. SubSeq(Old, 1, m) \in Seq(Events)
    <3>1. 1 \in Nat /\ 1 >= 1 /\ Old \in Seq(Events)
      BY <1>1
    <3> QED
      BY <2>1, <3>1, Piece
  <2>3. SubSeq(es, a + 1, n) \in Seq(Events)
    BY <1>1, <1>2
  <2> QED
    BY <2>1, <2>2, <2>3, ConcatProperties DEF splice_old_prefix
<1> QED
  BY <1>1, <1>3, <1>4, <1>5, <1>6, <1>7 DEF inject, FaultKinds, a

(***************************************************************************)
(* The faults that change the length of the stream or nothing.             *)
(***************************************************************************)
LEMMA DropLength ==
    ASSUME NEW es \in Seq(Events), NEW a \in Nat
    PROVE  drop_one(es, a) = es \/ Len(drop_one(es, a)) # Len(es)
<1> DEFINE n == Len(es)
<1> SUFFICES ASSUME a < n
             PROVE  Len(SubSeq(es, 1, a) \o SubSeq(es, a + 2, n)) # n
  BY DEF drop_one
<1>1. n \in Nat
  BY LenProperties
<1>2. SubSeq(es, 1, a) \in Seq(Events) /\ Len(SubSeq(es, 1, a)) = a
  BY <1>1, Piece
<1>3. /\ SubSeq(es, a + 2, n) \in Seq(Events)
      /\ Len(SubSeq(es, a + 2, n)) = (n - a) - 1
  BY <1>1, Piece
<1> DEFINE before == SubSeq(es, 1, a)
           after == SubSeq(es, a + 2, n)
<1> HIDE DEF before, after, n
<1>4. Len(before \o after) = a + ((n - a) - 1)
  BY <1>2, <1>3, ConcatProperties DEF before, after
<1>5. Len(before \o after) # n
  BY <1>1, <1>4
<1> QED
  BY <1>5 DEF before, after, n

LEMMA DuplicateLength ==
    ASSUME NEW es \in Seq(Events), NEW a \in Nat
    PROVE  duplicate_one(es, a) = es \/ Len(duplicate_one(es, a)) # Len(es)
<1> DEFINE n == Len(es)
<1> SUFFICES ASSUME a < n
             PROVE  Len(SubSeq(es, 1, a + 1) \o SubSeq(es, a + 1, n)) # n
  BY DEF duplicate_one
<1>1. n \in Nat
  BY LenProperties
<1>2. SubSeq(es, 1, a + 1) \in Seq(Events) /\ Len(SubSeq(es, 1, a + 1)) = a + 1
  BY <1>1, Piece
<1>3. /\ SubSeq(es, a + 1, n) \in Seq(Events)
      /\ Len(SubSeq(es, a + 1, n)) = n - a
  BY <1>1, Piece
<1> DEFINE before == SubSeq(es, 1, a + 1)
           after == SubSeq(es, a + 1, n)
<1> HIDE DEF before, after, n
<1>4. Len(before \o after) = (a + 1) + (n - a)
  BY <1>2, <1>3, ConcatProperties DEF before, after
<1>5. Len(before \o after) # n
  BY <1>1, <1>4
<1> QED
  BY <1>5 DEF before, after, n

LEMMA TruncateKeeps ==
    ASSUME NEW es \in Seq(Events), NEW a \in Nat
    PROVE  LET ds == truncate_tail(es, a)
           IN  /\ ds \in Seq(Events) /\ Len(ds) <= Len(es)
               /\ \A i \in 1 .. Len(ds) : ds[i] = es[i]
<1> DEFINE n == Len(es)
           m == Min({a, n})
           ds == SubSeq(es, 1, m)
<1>1. n \in Nat
  BY LenProperties
<1>2. m \in Nat /\ m <= n
  BY <1>1, MinOfTwo
<1> HIDE DEF m
<1>3. /\ ds \in Seq(Events) /\ Len(ds) = m
      /\ \A i \in 1 .. ((m - 1) + 1) : ds[i] = es[(1 - 1) + i]
  BY <1>2, Piece
<1>4. \A i \in 1 .. m : i \in 1 .. ((m - 1) + 1) /\ (1 - 1) + i = i
  BY <1>2
<1>5. \A i \in 1 .. m : ds[i] = es[i]
  BY <1>3, <1>4, Zenon
<1> QED
  BY <1>2, <1>3, <1>5 DEF truncate_tail, m

LEMMA SwapMoves ==
    ASSUME NEW es \in Seq(Events), NEW a \in Nat
    PROVE  LET ds == swap_adjacent(es, a)
           IN  \/ ds = es
               \/ /\ a + 1 \in 1 .. (Len(es) - 1)
                  /\ ds \in Seq(Events) /\ Len(ds) = Len(es)
                  /\ ds[a + 1] = es[(a + 1) + 1] /\ ds[(a + 1) + 1] = es[a + 1]
                  /\ \A k \in 1 .. Len(es) :
                        k # a + 1 /\ k # (a + 1) + 1 => ds[k] = es[k]
<1> DEFINE n == Len(es)
           i == a + 1
           cs == [es EXCEPT ![i] = es[a + 2]]
           ds == [cs EXCEPT ![a + 2] = es[i]]
<1> SUFFICES ASSUME a + 1 < n
             PROVE  /\ i \in 1 .. (n - 1)
                    /\ ds \in Seq(Events) /\ Len(ds) = n
                    /\ ds[i] = es[i + 1] /\ ds[i + 1] = es[i]
                    /\ \A k \in 1 .. n : k # i /\ k # i + 1 => ds[k] = es[k]
  BY DEF swap_adjacent
<1>1. n \in Nat /\ i \in 1 .. (n - 1) /\ i + 1 = a + 2 /\ i # i + 1
      /\ i \in 1 .. n /\ i + 1 \in 1 .. n
  BY LenProperties
<1>2. es[i] \in Events /\ es[i + 1] \in Events
  BY <1>1, ElementOfSeq
<1>3. /\ cs \in Seq(Events) /\ Len(cs) = n /\ cs[i] = es[i + 1]
      /\ \A k \in 1 .. n : k # i => cs[k] = es[k]
  BY <1>1, <1>2, ExceptSeq
<1> HIDE DEF cs, n, i
<1>4. /\ ds \in Seq(Events) /\ Len(ds) = n /\ ds[i + 1] = es[i]
      /\ \A k \in 1 .. n : k # i + 1 => ds[k] = cs[k]
  BY <1>1, <1>2, <1>3, ExceptSeq
<1> QED
  BY <1>1, <1>3, <1>4

LEMMA FieldStream ==
    ASSUME NEW es \in Seq(Events)
    PROVE  /\ field_stream(es) \in Seq(Nat)
           /\ Len(field_stream(es)) = Len(es)
           /\ \A i \in 1 .. Len(es) : field_stream(es)[i] = es[i] % P
           /\ \A i \in 1 .. Len(es) : es[i] \in Nat /\ es[i] % P \in Field
<1>1. DOMAIN es = 1 .. Len(es) /\ Len(es) \in Nat
  BY LenProperties
<1>2. \A i \in 1 .. Len(es) : es[i] \in Nat /\ es[i] % P \in Field
  <2> SUFFICES ASSUME NEW i \in 1 .. Len(es)
               PROVE  es[i] \in Nat /\ es[i] % P \in Field
    OBVIOUS
  <2>1. es[i] \in Nat
    BY EvidenceAssumption, ElementOfSeq
  <2>2. PICK y \in Int : y = es[i]
    BY <2>1
  <2> QED
    BY <2>1, <2>2, ResidueInField
<1>3. field_stream(es) \in [1 .. Len(es) -> Nat]
  BY <1>1, <1>2, FieldIsNat DEF field_stream
<1>4. field_stream(es) \in Seq(Nat)
  BY <1>1, <1>3, SeqDef
<1>5. Len(field_stream(es)) = Len(es)
  BY <1>1, <1>3, <1>4, LenProperties
<1> QED
  BY <1>1, <1>2, <1>4, <1>5 DEF field_stream

-----------------------------------------------------------------------------
(***************************************************************************)
(* The comparison of two checkpoints: the first field that differs, in     *)
(* the order of Checked, decides.                                          *)
(***************************************************************************)
Differs(c, o, i) == \E f \in Checked[i].fields : c[f] # o[f]

LEMMA CheckedIs ==
    /\ Len(Checked) = 7
    /\ Checked[1] = [reason |-> "StreamId", fields |-> {"stream_id"}]
    /\ Checked[2] = [reason |-> "Epoch",    fields |-> {"epoch"}]
    /\ Checked[3] = [reason |-> "StartSeq", fields |-> {"start_seq"}]
    /\ Checked[4] = [reason |-> "Length",   fields |-> {"len"}]
    /\ Checked[5] = [reason |-> "EndSeq",   fields |-> {"end_seq"}]
    /\ Checked[6] = [reason |-> "Params",   fields |-> {"q", "p"}]
    /\ Checked[7] = [reason |-> "Digest",   fields |-> {"digest"}]
  BY DEF Checked

LEMMA FirstReason ==
    ASSUME NEW c, NEW o, NEW i \in 1 .. 7, Differs(c, o, i),
           \A k \in 1 .. (i - 1) : ~ Differs(c, o, k)
    PROVE  reason_mismatch(c, o) = Checked[i].reason
<1> DEFINE D == {k \in 1 .. 7 : Differs(c, o, k)}
<1>1. D \subseteq Int /\ i \in D
  OBVIOUS
<1>2. \A k \in D : i <= k
  <2> SUFFICES ASSUME NEW k \in D, k < i PROVE FALSE
    OBVIOUS
  <2>1. k \in 1 .. (i - 1)
    OBVIOUS
  <2> QED
    BY <2>1
<1>3. Min(D) = i
  BY <1>1, <1>2, MinIs
<1>4. reason_mismatch(c, o) = IF D = {} THEN "None" ELSE Checked[Min(D)].reason
  BY CheckedIs DEF reason_mismatch, Differs
<1> QED
  BY <1>1, <1>3, <1>4

LEMMA NoReason ==
    ASSUME NEW c, NEW o, \A k \in 1 .. 7 : ~ Differs(c, o, k)
    PROVE  reason_mismatch(c, o) = "None"
<1> DEFINE D == {k \in 1 .. 7 : Differs(c, o, k)}
<1>1. reason_mismatch(c, o) = IF D = {} THEN "None" ELSE Checked[Min(D)].reason
  BY CheckedIs DEF reason_mismatch, Differs
<1> QED
  BY <1>1

(***************************************************************************)
(* Two checkpoints of one label that start at one place: the lengths are   *)
(* compared before the digests, and the ends differ only with the lengths. *)
(***************************************************************************)
LEMMA SameLabelVerdict ==
    ASSUME NEW l, NEW s \in Nat, NEW n \in Nat, NEW m \in Nat, NEW d, NEW e
    PROVE  verify_checkpoint(NewCheckpoint(l, s, n, d), NewCheckpoint(l, s, m, e))
               = IF n # m THEN [reason |-> "Length", status |-> "MetadataMismatch"]
                 ELSE IF d # e THEN [reason |-> "Digest", status |-> "DigestMismatch"]
                 ELSE [reason |-> "None", status |-> "Clean"]
<1> DEFINE c == NewCheckpoint(l, s, n, d)
           o == NewCheckpoint(l, s, m, e)
<1>1. /\ c = [stream_id |-> l.stream_id, epoch |-> l.epoch,
              start_seq |-> s, end_seq |-> s + n, len |-> n,
              digest |-> d, q |-> Q, p |-> P]
      /\ o = [stream_id |-> l.stream_id, epoch |-> l.epoch,
              start_seq |-> s, end_seq |-> s + m, len |-> m,
              digest |-> e, q |-> Q, p |-> P]
  BY DEF NewCheckpoint
<1> HIDE DEF c, o
<1>2. ~ Differs(c, o, 1) /\ ~ Differs(c, o, 2) /\ ~ Differs(c, o, 3)
  BY <1>1, CheckedIs DEF Differs
<1>3. ~ Differs(c, o, 6)
  BY <1>1, CheckedIs DEF Differs
<1>4. Differs(c, o, 4) <=> n # m
  BY <1>1, CheckedIs DEF Differs
<1>5. Differs(c, o, 5) <=> s + n # s + m
  BY <1>1, CheckedIs DEF Differs
<1>6. Differs(c, o, 7) <=> d # e
  BY <1>1, CheckedIs DEF Differs
<1>7. CASE n # m
  <2>1. \A k \in 1 .. (4 - 1) : ~ Differs(c, o, k)
    BY <1>2
  <2>2. reason_mismatch(c, o) = "Length"
    BY <1>4, <1>7, <2>1, FirstReason, CheckedIs
  <2> QED
    BY <1>7, <2>2 DEF verify_checkpoint, c, o
<1>8. CASE n = m /\ d # e
  <2>1. \A k \in 1 .. (7 - 1) : ~ Differs(c, o, k)
    BY <1>2, <1>3, <1>4, <1>5, <1>8
  <2>2. reason_mismatch(c, o) = "Digest"
    BY <1>6, <1>8, <2>1, FirstReason, CheckedIs
  <2> QED
    BY <1>8, <2>2 DEF verify_checkpoint, c, o
<1>9. CASE n = m /\ d = e
  <2>1. \A k \in 1 .. 7 : ~ Differs(c, o, k)
    BY <1>2, <1>3, <1>4, <1>5, <1>6, <1>9
  <2>2. reason_mismatch(c, o) = "None"
    BY <2>1, NoReason
  <2> QED
    BY <1>9, <2>2 DEF verify_checkpoint, c, o
<1> QED
  BY <1>7, <1>8, <1>9

LEMMA OtherLabelVerdict ==
    ASSUME NEW l \in Labels, l # Label, NEW s, NEW n, NEW t, NEW m, NEW d, NEW e
    PROVE  verify_checkpoint(NewCheckpoint(Label, s, n, d),
                             NewCheckpoint(l, t, m, e)).status = "MetadataMismatch"
<1> DEFINE c == NewCheckpoint(Label, s, n, d)
           o == NewCheckpoint(l, t, m, e)
<1>1. l.stream_id # Label.stream_id \/ l.epoch # Label.epoch
  BY EvidenceAssumption
<1>2. /\ c.stream_id = Label.stream_id /\ c.epoch = Label.epoch
      /\ o.stream_id = l.stream_id /\ o.epoch = l.epoch
  BY DEF NewCheckpoint
<1> HIDE DEF c, o
<1>3. Differs(c, o, 1) <=> c.stream_id # o.stream_id
  BY CheckedIs DEF Differs
<1>4. Differs(c, o, 2) <=> c.epoch # o.epoch
  BY CheckedIs DEF Differs
<1>5. reason_mismatch(c, o) \in {"StreamId", "Epoch"}
  <2>1. CASE Differs(c, o, 1)
    <3>1. \A k \in 1 .. (1 - 1) : ~ Differs(c, o, k)
      OBVIOUS
    <3> QED
      BY <2>1, <3>1, FirstReason, CheckedIs
  <2>2. CASE ~ Differs(c, o, 1)
    <3>1. \A k \in 1 .. (2 - 1) : ~ Differs(c, o, k)
      BY <2>2
    <3>2. Differs(c, o, 2)
      BY <1>1, <1>2, <1>3, <1>4, <2>2
    <3> QED
      BY <3>1, <3>2, FirstReason, CheckedIs
  <2> QED
    BY <2>1, <2>2
<1> QED
  BY <1>5 DEF verify_checkpoint, c, o

-----------------------------------------------------------------------------
(***************************************************************************)
(* The chunks of a stream of n elements: how many there are, where the     *)
(* k-th starts, and that it holds what the stream holds there.             *)
(***************************************************************************)
Count(n) == (n + ChunkSize - 1) \div ChunkSize

Start(k) == (k - 1) * ChunkSize

Stop(n, k) == IF k * ChunkSize < n THEN k * ChunkSize ELSE n

LEMMA ProductOrder ==
    ASSUME NEW a \in Nat, NEW b \in Nat, NEW c \in Nat, a <= b
    PROVE  a * c <= b * c
<1>1. PICK d \in Nat : b = a + d
  <2>1. b - a \in Nat /\ b = a + (b - a)
    OBVIOUS
  <2> QED
    BY <2>1
<1>2. (a + d) * c = a * c + d * c /\ d * c \in Nat /\ a * c \in Nat
  OBVIOUS
<1> QED
  BY <1>1, <1>2

LEMMA CountBounds ==
    ASSUME NEW n \in Nat
    PROVE  /\ Count(n) \in Nat
           /\ n <= Count(n) * ChunkSize
           /\ Count(n) * ChunkSize < n + ChunkSize
<1> DEFINE C == ChunkSize
           a == n + C - 1
<1>1. C \in Nat /\ C > 0
  BY EvidenceAssumption
<1> HIDE DEF C
<1>2. a \in Nat
  BY <1>1
<1> HIDE DEF a
<1>3. /\ a = (a \div C) * C + (a % C)
      /\ a % C \in 0 .. (C - 1)
      /\ a \div C \in Int
  BY <1>1, <1>2, Division
<1>4. PICK k \in Int, r \in 0 .. (C - 1) : k = a \div C /\ a = k * C + r
  BY <1>3
<1>5. k >= 0
  <2>1. SUFFICES ASSUME k <= -1 PROVE FALSE
    BY <1>4
  <2>2. PICK j \in Nat : k = -1 - j
    <3>1. -1 - k \in Nat /\ k = -1 - (-1 - k)
      BY <1>4, <2>1
    <3> QED
      BY <3>1
  <2>3. (-1 - j) * C = - C - j * C /\ j * C \in Nat
    BY <1>1
  <2> QED
    BY <1>1, <1>2, <1>4, <2>2, <2>3
<1>6. k * C \in Int /\ n <= k * C /\ k * C < n + C
  BY <1>1, <1>4 DEF a
<1> QED
  BY <1>4, <1>5, <1>6 DEF Count, a, C

LEMMA BlockBounds ==
    ASSUME NEW n \in Nat, NEW k \in 1 .. Count(n)
    PROVE  /\ k \in Nat /\ k * ChunkSize = Start(k) + ChunkSize
           /\ Start(k) \in Nat /\ Start(k) < n
           /\ Stop(n, k) \in Nat /\ Stop(n, k) <= n
           /\ Stop(n, k) - Start(k) \in 1 .. ChunkSize
<1> DEFINE C == ChunkSize
           N == Count(n)
<1>1. C \in Nat /\ C > 0 /\ N \in Nat /\ n <= N * C /\ N * C < n + C
  BY EvidenceAssumption, CountBounds
<1> HIDE DEF C, N
<1>2. PICK j \in Nat : k = j + 1 /\ j + 1 <= N
  <2>1. k - 1 \in Nat /\ k = (k - 1) + 1 /\ k \in 1 .. N
    BY <1>1 DEF N
  <2> QED
    BY <2>1
<1>3. (j + 1) * C = j * C + C /\ j * C \in Nat
  BY <1>1
<1>4. (j + 1) * C <= N * C
  BY <1>1, <1>2, ProductOrder
<1>5. Start(k) = j * C
  <2>1. k - 1 = j
    BY <1>2
  <2> QED
    BY <2>1 DEF Start, C
<1>6. j * C < n
  BY <1>1, <1>3, <1>4
<1>7. Stop(n, k) = IF j * C + C < n THEN j * C + C ELSE n
  BY <1>2, <1>3 DEF Stop, C
<1> QED
  BY <1>1, <1>2, <1>3, <1>5, <1>6, <1>7 DEF C

(***************************************************************************)
(* All chunks but the last are full, and the last ends where the stream    *)
(* does.                                                                   *)
(***************************************************************************)
LEMMA LastBlock ==
    ASSUME NEW n \in Nat, NEW k \in 1 .. Count(n)
    PROVE  IF k < Count(n) THEN Stop(n, k) = k * ChunkSize /\ k * ChunkSize < n
           ELSE Stop(n, k) = n
<1> DEFINE C == ChunkSize
           N == Count(n)
<1>1. /\ C \in Nat /\ C > 0 /\ N \in Nat /\ n <= N * C /\ N * C < n + C
      /\ k \in Nat
  BY EvidenceAssumption, CountBounds
<1>2. CASE k < N
  <2>1. (k + 1) * C <= N * C
    BY <1>1, <1>2, ProductOrder
  <2>2. (k + 1) * C = k * C + C /\ k * C \in Nat
    BY <1>1
  <2>3. k * C < n
    BY <1>1, <2>1, <2>2
  <2> QED
    BY <1>2, <2>3 DEF Stop
<1>3. CASE ~ (k < N)
  <2>1. k = N
    BY <1>1, <1>3
  <2> QED
    BY <1>1, <2>1 DEF Stop
<1> QED
  BY <1>2, <1>3

LEMMA ChunkIs ==
    ASSUME NEW S, NEW xs \in Seq(S), NEW k \in 1 .. Count(Len(xs))
    PROVE  /\ chunks(xs, ChunkSize)[k] \in Seq(S)
           /\ Len(chunks(xs, ChunkSize)[k]) = Stop(Len(xs), k) - Start(k)
           /\ \A i \in 1 .. (Stop(Len(xs), k) - Start(k)) :
                 chunks(xs, ChunkSize)[k][i] = xs[Start(k) + i]
<1> DEFINE n == Len(xs)
           a == Start(k)
           b == Stop(n, k)
           p == SubSeq(xs, a + 1, b)
<1>1. n \in Nat /\ a \in Nat /\ b \in Nat /\ b <= n /\ b - a >= 1
  BY LenProperties, BlockBounds
<1>2. chunks(xs, ChunkSize)[k] = p
  BY DEF chunks, Count, Start, Stop
<1> HIDE DEF a, b, n
<1>3. a + 1 \in Nat /\ a + 1 >= 1 /\ b <= Len(xs)
  BY <1>1 DEF n
<1>4. /\ p \in Seq(S)
      /\ Len(p) = IF a + 1 <= b THEN (b - (a + 1)) + 1 ELSE 0
      /\ \A i \in 1 .. ((b - (a + 1)) + 1) : p[i] = xs[((a + 1) - 1) + i]
  BY <1>1, <1>3, Piece
<1>5. /\ (b - (a + 1)) + 1 = b - a /\ a + 1 <= b /\ (a + 1) - 1 = a
  BY <1>1
<1>6. Len(p) = b - a /\ \A i \in 1 .. (b - a) : p[i] = xs[a + i]
  BY <1>4, <1>5
<1> HIDE DEF p
<1> QED
  BY <1>2, <1>4, <1>6 DEF n, a, b

(***************************************************************************)
(* The checkpoints of the chunks, one for each, and the reports on them.   *)
(***************************************************************************)
ChunkOf(es, k) == chunks(field_stream(es), ChunkSize)[k]

LEMMA CheckpointsOf ==
    ASSUME NEW es \in Seq(Events), NEW l
    PROVE  /\ Len(ChunkCheckpoints(l, es)) = Count(Len(es))
           /\ DOMAIN ChunkCheckpoints(l, es) = 1 .. Count(Len(es))
           /\ \A k \in 1 .. Count(Len(es)) :
                 ChunkCheckpoints(l, es)[k]
                     = NewCheckpoint(l, Start(k), Len(ChunkOf(es, k)),
                                     ksentry_fast(ChunkOf(es, k)).acc)
<1> DEFINE xs == field_stream(es)
           N == Count(Len(es))
<1>1. Len(xs) = Len(es) /\ Len(es) \in Nat /\ N \in Nat
  BY FieldStream, LenProperties, CountBounds
<1>2. DOMAIN chunks(xs, ChunkSize) = 1 .. N
  BY <1>1 DEF chunks, Count
<1>3. ChunkCheckpoints(l, es)
          = [k \in 1 .. N |-> NewCheckpoint(l, Start(k), Len(ChunkOf(es, k)),
                                            ksentry_fast(ChunkOf(es, k)).acc)]
  BY <1>2 DEF ChunkCheckpoints, chunk_stream, Start, ChunkOf
<1> HIDE DEF N, xs
<1> QED
  BY <1>1, <1>3 DEF N

LEMMA ChunkOfIs ==
    ASSUME NEW es \in Seq(Events), NEW k \in 1 .. Count(Len(es))
    PROVE  /\ ChunkOf(es, k) \in Seq(Nat)
           /\ Len(ChunkOf(es, k)) = Stop(Len(es), k) - Start(k)
           /\ \A i \in 1 .. (Stop(Len(es), k) - Start(k)) :
                 ChunkOf(es, k)[i] = es[Start(k) + i] % P
<1> DEFINE xs == field_stream(es)
<1>1. /\ xs \in Seq(Nat) /\ Len(xs) = Len(es) /\ Len(es) \in Nat
      /\ \A i \in 1 .. Len(es) : xs[i] = es[i] % P
  BY FieldStream, LenProperties
<1>2. k \in 1 .. Count(Len(xs))
  BY <1>1
<1>3. /\ ChunkOf(es, k) \in Seq(Nat)
      /\ Len(ChunkOf(es, k)) = Stop(Len(es), k) - Start(k)
      /\ \A i \in 1 .. (Stop(Len(es), k) - Start(k)) :
            ChunkOf(es, k)[i] = xs[Start(k) + i]
  BY <1>1, <1>2, ChunkIs DEF ChunkOf
<1>4. \A i \in 1 .. (Stop(Len(es), k) - Start(k)) : Start(k) + i \in 1 .. Len(es)
  BY <1>1, BlockBounds
<1> HIDE DEF xs
<1> QED
  BY <1>1, <1>3, <1>4

ReportsAre(r, l, es, fs, N) ==
    /\ N <= Count(Len(es)) /\ N <= Count(Len(fs))
    /\ N = Count(Len(es)) \/ N = Count(Len(fs))
    /\ Len(r) = N /\ DOMAIN r = 1 .. N
    /\ \A k \in 1 .. N :
          r[k] = verify_checkpoint(
                     NewCheckpoint(Label, Start(k), Len(ChunkOf(es, k)),
                                   ksentry_fast(ChunkOf(es, k)).acc),
                     NewCheckpoint(l, Start(k), Len(ChunkOf(fs, k)),
                                   ksentry_fast(ChunkOf(fs, k)).acc))

LEMMA ReportsOn ==
    ASSUME NEW es \in Seq(Events), NEW fs \in Seq(Events), NEW l,
           NEW r, r = verify_chunked_streams(ChunkCheckpoints(Label, es),
                                             ChunkCheckpoints(l, fs))
    PROVE  \E N \in Nat : ReportsAre(r, l, es, fs, N)
<1> DEFINE c == ChunkCheckpoints(Label, es)
           o == ChunkCheckpoints(l, fs)
           n == Count(Len(es))
           m == Count(Len(fs))
           ce(k) == NewCheckpoint(Label, Start(k), Len(ChunkOf(es, k)),
                                  ksentry_fast(ChunkOf(es, k)).acc)
           oe(k) == NewCheckpoint(l, Start(k), Len(ChunkOf(fs, k)),
                                  ksentry_fast(ChunkOf(fs, k)).acc)
<1>1. n \in Nat /\ m \in Nat
  BY LenProperties, CountBounds
<1>2. /\ Len(c) = n /\ \A k \in 1 .. n : c[k] = ce(k)
      /\ Len(o) = m /\ \A k \in 1 .. m : o[k] = oe(k)
  BY CheckpointsOf
<1> HIDE DEF ce, oe, n, m, c, o
<1>3. PICK N \in Nat : /\ N = Min({n, m}) /\ N <= n /\ N <= m
                       /\ N = n \/ N = m
  BY <1>1, MinOfTwo
<1>4. r = [k \in 1 .. N |-> verify_checkpoint(c[k], o[k])]
  BY <1>2, <1>3 DEF verify_chunked_streams, c, o
<1>5. \A k \in 1 .. N : r[k] = verify_checkpoint(ce(k), oe(k))
  BY <1>1, <1>2, <1>3, <1>4
<1>6. Len(r) = N /\ DOMAIN r = 1 .. N
  BY <1>3, <1>4
<1> QED
  BY <1>3, <1>5, <1>6 DEF ce, oe, n, m, ReportsAre

-----------------------------------------------------------------------------
LEMMA ObservedTyped ==
    ASSUME StreamInv, phase = "verified"
    PROVE  /\ original \in Seq(Events) /\ observed \in Seq(Events)
           /\ Len(original) \in Nat /\ Len(observed) \in Nat
<1>1. original \in Seq(Events) /\ Len(original) <= MaxLen
  BY DEF StreamInv
<1>2. CASE fault = NoFault /\ observed = original
  BY <1>1, <1>2, LenProperties
<1>3. CASE fault \in Faults /\ observed = inject(original, fault)
  <2>1. observed \in Seq(Events)
    BY <1>1, <1>3, InjectTyped
  <2> QED
    BY <1>1, <2>1, LenProperties
<1> QED
  BY <1>2, <1>3 DEF StreamInv

LEMMA WholeVerdict ==
    ASSUME StreamInv, Verified
    PROVE  LET d == ksentry_fast(field_stream(original)).acc
               e == ksentry_fast(field_stream(observed)).acc
           IN  report = IF Len(original) # Len(observed)
                        THEN [reason |-> "Length", status |-> "MetadataMismatch"]
                        ELSE IF d # e
                        THEN [reason |-> "Digest", status |-> "DigestMismatch"]
                        ELSE [reason |-> "None", status |-> "Clean"]
<1> DEFINE d == ksentry_fast(field_stream(original)).acc
           e == ksentry_fast(field_stream(observed)).acc
           n == Len(original)
           m == Len(observed)
<1>1. /\ original \in Seq(Events) /\ observed \in Seq(Events)
      /\ n \in Nat /\ m \in Nat
  BY ObservedTyped DEF Verified
<1>2. Len(field_stream(original)) = n /\ Len(field_stream(observed)) = m
  BY <1>1, FieldStream
<1> HIDE DEF d, e, n, m
<1>3. report = verify_checkpoint(NewCheckpoint(Label, 0, n, d),
                                 NewCheckpoint(Label, 0, m, e))
  BY <1>2 DEF StreamInv, Verified, WholeCheckpoint, d, e
<1>4. report = IF n # m THEN [reason |-> "Length", status |-> "MetadataMismatch"]
               ELSE IF d # e THEN [reason |-> "Digest", status |-> "DigestMismatch"]
               ELSE [reason |-> "None", status |-> "Clean"]
  BY <1>1, <1>3, SameLabelVerdict
<1> QED
  BY <1>4 DEF d, e, n, m

(***************************************************************************)
(* In every build and for every modulus: on a window of the right label    *)
(* the verifier says "Length" exactly where the fault changed the length,  *)
(* and a window or a chunk with another label is a metadata mismatch       *)
(* whatever it contains.                                                   *)
(***************************************************************************)
THEOREM VerdictsByKind == Spec => []VerdictKind
<1>1. ASSUME StreamInv PROVE VerdictKind
  <2>1. ASSUME Verified
        PROVE  /\ report.reason = "Length" <=> Len(original) # Len(observed)
               /\ report.reason \in {"None", "Digest", "Length"}
    BY <1>1, <2>1, WholeVerdict
  <2>2. ASSUME phase = "verified", label # Label
        PROVE  /\ report.status = "MetadataMismatch"
               /\ \A k \in DOMAIN chunkReports :
                     chunkReports[k].status = "MetadataMismatch"
    <3>1. /\ original \in Seq(Events) /\ observed \in Seq(Events)
          /\ label \in Labels
      BY <1>1, <2>2, ObservedTyped DEF StreamInv
    <3>2. report.status = "MetadataMismatch"
      BY <1>1, <2>2, <3>1, OtherLabelVerdict DEF StreamInv, WholeCheckpoint
    <3>3. chunkReports = verify_chunked_streams(ChunkCheckpoints(Label, original),
                                                ChunkCheckpoints(label, observed))
      BY <1>1, <2>2 DEF StreamInv
    <3>4. PICK N \in Nat : ReportsAre(chunkReports, label, original, observed, N)
      BY <3>1, <3>3, ReportsOn
    <3> QED
      BY <2>2, <3>1, <3>2, <3>4, OtherLabelVerdict DEF ReportsAre
  <2> QED
    BY <2>1, <2>2 DEF VerdictKind, ReplayRefused
<1> QED
  BY <1>1, StreamAlways, PTL

(***************************************************************************)
(* For every length, divisible by the chunk size or not: the checkpoints   *)
(* of the chunks tile the window.                                          *)
(***************************************************************************)
LEMMA TilesStream ==
    ASSUME NEW es \in Seq(Events), NEW l
    PROVE  Tiles(ChunkCheckpoints(l, es), es)
<1> DEFINE c == ChunkCheckpoints(l, es)
           n == Len(es)
           N == Count(n)
<1>1. /\ n \in Nat /\ N \in Nat /\ Len(c) = N /\ DOMAIN c = 1 .. N
      /\ n <= N * ChunkSize /\ N * ChunkSize < n + ChunkSize
      /\ ChunkSize \in Nat
  BY LenProperties, CheckpointsOf, CountBounds, EvidenceAssumption
<1>2. \A k \in 1 .. N :
          /\ c[k].stream_id = l.stream_id /\ c[k].epoch = l.epoch
          /\ c[k].start_seq = Start(k) /\ c[k].end_seq = Stop(n, k)
          /\ c[k].len = Stop(n, k) - Start(k)
  <2> SUFFICES ASSUME NEW k \in 1 .. N
               PROVE  /\ c[k].stream_id = l.stream_id /\ c[k].epoch = l.epoch
                      /\ c[k].start_seq = Start(k) /\ c[k].end_seq = Stop(n, k)
                      /\ c[k].len = Stop(n, k) - Start(k)
    OBVIOUS
  <2>1. c[k] = NewCheckpoint(l, Start(k), Len(ChunkOf(es, k)),
                             ksentry_fast(ChunkOf(es, k)).acc)
    BY CheckpointsOf
  <2>2. Len(ChunkOf(es, k)) = Stop(n, k) - Start(k)
    BY ChunkOfIs
  <2>3. Start(k) \in Nat /\ Stop(n, k) \in Nat
    BY <1>1, BlockBounds
  <2>4. Start(k) + (Stop(n, k) - Start(k)) = Stop(n, k)
    BY <2>3
  <2> QED
    BY <2>1, <2>2, <2>4 DEF NewCheckpoint
<1> HIDE DEF c
<1>3. \A k \in 1 .. N : c[k].len \in 1 .. ChunkSize
  BY <1>1, <1>2, BlockBounds
<1>4. ASSUME NEW k \in 1 .. (N - 1)
      PROVE  adjacent_to(c[k], c[k + 1]) /\ c[k].len = ChunkSize
  <2>1. k \in 1 .. N /\ k + 1 \in 1 .. N /\ k < N /\ (k + 1) - 1 = k
    BY <1>1
  <2>2. Stop(n, k) = k * ChunkSize /\ k * ChunkSize = Start(k) + ChunkSize
    BY <1>1, <2>1, LastBlock, BlockBounds
  <2>3. Start(k + 1) = k * ChunkSize
    BY <2>1 DEF Start
  <2>4. Start(k) \in Nat
    BY <1>1, <2>1, BlockBounds
  <2> QED
    BY <1>1, <1>2, <2>1, <2>2, <2>3, <2>4 DEF adjacent_to
<1>5. (IF c = << >> THEN 0 ELSE c[Len(c)].end_seq) = n
  <2>1. CASE N = 0
    <3>1. n = 0
      BY <1>1, <2>1
    <3>2. c = << >>
      <4>1. Len(<< >>) = 0
        OBVIOUS
      <4>2. \E S : c \in Seq(S)
        <5> DEFINE S == {c[k] : k \in 1 .. N}
        <5>1. c \in [1 .. N -> S]
          BY <1>1 DEF c, ChunkCheckpoints, chunk_stream
        <5> HIDE DEF S
        <5>2. c \in Seq(S)
          BY <1>1, <5>1, SeqDef
        <5> QED
          BY <5>2
      <4> QED
        BY <1>1, <2>1, <4>2, EmptySeq
    <3> QED
      BY <3>1, <3>2
  <2>2. CASE N # 0
    <3>1. N \in 1 .. N /\ c # << >>
      BY <1>1, <2>2
    <3>2. Stop(n, N) = n
      BY <1>1, <3>1, LastBlock
    <3> QED
      BY <1>1, <1>2, <3>1, <3>2
  <2> QED
    BY <2>1, <2>2
<1> QED
  BY <1>1, <1>3, <1>4, <1>5 DEF Tiles, c

THEOREM ChunksAlwaysTile == Spec => []ChunksTile
<1>1. StreamInv => ChunksTile
  BY ObservedTyped, TilesStream DEF ChunksTile
<1> QED
  BY <1>1, StreamAlways, PTL

-----------------------------------------------------------------------------
(***************************************************************************)
(* The parameters the digests are meant for: a prime modulus whose         *)
(* products fit the word, and a base whose order is above the length of    *)
(* a window less one, so that no two weights in a window are the same.     *)
(***************************************************************************)
SoundParams ==
    /\ NoOverflow
    /\ IsPrime
    /\ Q % P # 0
    /\ \A k \in 1 .. (MaxLen - 1) : Pow[k] # 1

LEMMA SoundParamsStay == SoundParams => []SoundParams
<1>1. SoundParams => SoundParams'
  BY DEF SoundParams, NoOverflow, IsPrime
<1> QED
  BY <1>1, PTL

LEMMA FieldElements ==
    ASSUME NEW xs \in Seq(Field)
    PROVE  /\ xs \in Seq(Nat)
           /\ \A i \in 1 .. Len(xs) : xs[i] \in Field /\ xs[i] % P = xs[i]
<1>1. xs \in Seq(Nat)
  BY FieldIsNat, SeqMonotonic
<1>2. \A i \in 1 .. Len(xs) : xs[i] \in Field
  BY ElementOfSeq
<1>3. \A y \in Field : y % P = y
  BY ModSmall DEF Field
<1> QED
  BY <1>1, <1>2, <1>3

(***************************************************************************)
(* One changed element, or two neighbours exchanged, change the digest.    *)
(***************************************************************************)
LEMMA EditChanges ==
    ASSUME SoundParams, NEW xs \in Seq(Field), NEW ys \in Seq(Field),
           Len(ys) = Len(xs), NEW i \in 1 .. Len(xs), xs[i] # ys[i],
           \A n \in 1 .. Len(xs) : n # i => xs[n] = ys[n]
    PROVE  ksentry_fast(xs).acc # ksentry_fast(ys).acc
<1>1. /\ xs \in Seq(Nat) /\ ys \in Seq(Nat)
      /\ xs[i] % P = xs[i] /\ ys[i] % P = ys[i]
  BY FieldElements
<1>2. \A n \in 1 .. Len(xs) : n # i => xs[n] % P = ys[n] % P
  OBVIOUS
<1>3. ksentry_spec(xs) = ksentry_spec(ys) <=> xs[i] % P = ys[i] % P
  BY <1>1, <1>2, EditSpec DEF SoundParams
<1>4. ksentry_fast(xs).acc = ksentry_spec(xs) /\ ksentry_fast(ys).acc = ksentry_spec(ys)
  BY <1>1, FastIsSpec DEF SoundParams, IsStateAfter
<1> QED
  BY <1>1, <1>3, <1>4

LEMMA SwapChanges ==
    ASSUME SoundParams, NEW xs \in Seq(Field), NEW ys \in Seq(Field),
           Len(ys) = Len(xs), Len(xs) <= MaxLen,
           NEW i \in 1 .. (Len(xs) - 1), xs[i] # xs[i + 1],
           ys[i] = xs[i + 1], ys[i + 1] = xs[i],
           \A n \in 1 .. Len(xs) : n # i /\ n # i + 1 => xs[n] = ys[n]
    PROVE  ksentry_fast(xs).acc # ksentry_fast(ys).acc
<1>0. Len(xs) \in Nat /\ MaxLen \in Nat
  BY LenProperties, EvidenceAssumption
<1>1. /\ xs \in Seq(Nat) /\ ys \in Seq(Nat)
      /\ xs[i] % P = xs[i] /\ xs[i + 1] % P = xs[i + 1]
  BY <1>0, FieldElements
<1>2. i \in 1 .. (MaxLen - 1)
  BY <1>0
<1>3. ksentry_spec(xs) = ksentry_spec(ys)
          <=> (xs[i] % P = xs[i + 1] % P \/ Pow[i] = 1)
  BY <1>1, SwapSpec DEF SoundParams
<1>4. ksentry_fast(xs).acc = ksentry_spec(xs) /\ ksentry_fast(ys).acc = ksentry_spec(ys)
  BY <1>1, FastIsSpec DEF SoundParams, IsStateAfter
<1>5. Pow[i] # 1
  BY <1>2 DEF SoundParams
<1> QED
  BY <1>1, <1>3, <1>4, <1>5

LEMMA FieldStreamTyped ==
    ASSUME NEW es \in Seq(Events)
    PROVE  field_stream(es) \in Seq(Field)
<1> DEFINE xs == field_stream(es)
           n == Len(es)
<1>1. /\ xs \in Seq(Nat) /\ Len(xs) = n /\ n \in Nat
      /\ \A i \in 1 .. n : xs[i] = es[i] % P /\ es[i] % P \in Field
  BY FieldStream, LenProperties
<1> HIDE DEF xs, n
<1>2. xs \in [1 .. n -> Field]
  <2>1. DOMAIN xs = 1 .. n /\ xs \in [1 .. n -> Nat]
    BY <1>1, LenProperties, SeqDef
  <2> QED
    BY <1>1, <2>1
<1> QED
  BY <1>1, <1>2, SeqDef DEF xs

(***************************************************************************)
(* A swap that is seen by the field elements at all: where it is, and what *)
(* it does there.                                                          *)
(***************************************************************************)
LEMMA SwapSeen ==
    ASSUME NEW es \in Seq(Events), NEW a \in Nat,
           NEW fs, fs = swap_adjacent(es, a), field_stream(es) # field_stream(fs)
    PROVE  LET xs == field_stream(es)
               ys == field_stream(fs)
               i  == a + 1
           IN  /\ Len(fs) = Len(es) /\ fs \in Seq(Events)
               /\ i \in 1 .. (Len(es) - 1)
               /\ xs[i] # xs[i + 1] /\ ys[i] = xs[i + 1] /\ ys[i + 1] = xs[i]
               /\ \A n \in 1 .. Len(es) : n # i /\ n # i + 1 => xs[n] = ys[n]
<1> DEFINE xs == field_stream(es)
           ys == field_stream(fs)
           i  == a + 1
           L  == Len(es)
<1>1. /\ i \in 1 .. (L - 1)
      /\ fs \in Seq(Events) /\ Len(fs) = L
      /\ fs[i] = es[i + 1] /\ fs[i + 1] = es[i]
      /\ \A k \in 1 .. L : k # i /\ k # i + 1 => fs[k] = es[k]
  BY SwapMoves
<1>2. /\ xs \in Seq(Nat) /\ ys \in Seq(Nat) /\ Len(xs) = L /\ Len(ys) = L
      /\ \A k \in 1 .. L : xs[k] = es[k] % P
      /\ \A k \in 1 .. L : ys[k] = fs[k] % P
      /\ L \in Nat
  BY <1>1, FieldStream, LenProperties
<1>3. xs # ys
  OBVIOUS
<1> HIDE DEF xs, ys, L, i
<1>4. i \in 1 .. L /\ i + 1 \in 1 .. L
  BY <1>1, <1>2
<1>5. /\ ys[i] = xs[i + 1] /\ ys[i + 1] = xs[i]
      /\ \A n \in 1 .. L : n # i /\ n # i + 1 => xs[n] = ys[n]
  BY <1>1, <1>2, <1>4
<1>6. xs[i] # xs[i + 1]
  <2>1. SUFFICES ASSUME xs[i] = xs[i + 1] PROVE FALSE
    OBVIOUS
  <2>2. \A n \in 1 .. L : xs[n] = ys[n]
    BY <1>5, <2>1
  <2>3. xs = ys
    BY <1>2, <2>2, SeqEqual
  <2> QED
    BY <1>3, <2>3
<1> QED
  BY <1>1, <1>5, <1>6 DEF xs, ys, L, i

(***************************************************************************)
(* One drop, swap, duplication or truncation, at any place of a window of  *)
(* any length up to the order of the base: reported if and only if the     *)
(* field elements changed; and a window that did not change is clean.      *)
(***************************************************************************)
THEOREM VerdictsExact == SoundParams /\ Spec => []VerdictExact
<1>1. ASSUME SoundParams, StreamInv, Verified PROVE
             /\ SameStream => ~ is_suspicious(report)
             /\ (fault.kind # "SpliceOldPrefix" /\ ~ SameStream)
                    => is_suspicious(report)
  <2> DEFINE xs == field_stream(original)
             ys == field_stream(observed)
  <2>1. /\ original \in Seq(Events) /\ observed \in Seq(Events)
        /\ Len(original) \in Nat /\ Len(observed) \in Nat
        /\ Len(original) <= MaxLen
    BY <1>1, ObservedTyped DEF Verified, StreamInv
  <2>2. /\ Len(xs) = Len(original) /\ Len(ys) = Len(observed)
        /\ xs \in Seq(Field) /\ ys \in Seq(Field)
    BY <2>1, FieldStream, FieldStreamTyped
  <2>3. report = IF Len(original) # Len(observed)
                 THEN [reason |-> "Length", status |-> "MetadataMismatch"]
                 ELSE IF ksentry_fast(xs).acc # ksentry_fast(ys).acc
                 THEN [reason |-> "Digest", status |-> "DigestMismatch"]
                 ELSE [reason |-> "None", status |-> "Clean"]
    BY <1>1, WholeVerdict
  <2>4. SameStream => ~ is_suspicious(report)
    BY <2>2, <2>3 DEF SameStream, is_suspicious
  <2>5. ASSUME Len(original) # Len(observed) PROVE is_suspicious(report)
    BY <2>3, <2>5 DEF is_suspicious
  <2>6. ASSUME fault.kind # "SpliceOldPrefix", ~ SameStream
        PROVE  is_suspicious(report)
    <3>1. observed # original
      BY <2>6 DEF SameStream
    <3>2. /\ fault \in Faults /\ observed = inject(original, fault)
          /\ fault.at \in Nat /\ fault.kind \in FaultKinds
      BY <1>1, <3>1 DEF StreamInv, Verified, Faults
    <3>3. CASE fault.kind = "DropOne"
      <4>1. observed = drop_one(original, fault.at)
        BY <3>2, <3>3 DEF inject
      <4> QED
        BY <2>1, <2>5, <3>1, <3>2, <4>1, DropLength
    <3>4. CASE fault.kind = "DuplicateOne"
      <4>1. observed = duplicate_one(original, fault.at)
        BY <3>2, <3>4 DEF inject
      <4> QED
        BY <2>1, <2>5, <3>1, <3>2, <4>1, DuplicateLength
    <3>5. CASE fault.kind = "TruncateTail"
      <4>1. observed = truncate_tail(original, fault.at)
        BY <3>2, <3>5 DEF inject
      <4>2. \A n \in 1 .. Len(observed) : observed[n] = original[n]
        BY <2>1, <3>2, <4>1, TruncateKeeps
      <4>3. Len(original) # Len(observed)
        <5>1. SUFFICES ASSUME Len(observed) = Len(original) PROVE FALSE
          OBVIOUS
        <5>2. observed = original
          BY <2>1, <4>2, <5>1, SeqEqual
        <5> QED
          BY <3>1, <5>2
      <4> QED
        BY <2>5, <4>3
    <3>6. CASE fault.kind = "SwapAdjacent"
      <4> DEFINE i == fault.at + 1
      <4>1. observed = swap_adjacent(original, fault.at) /\ xs # ys
        BY <2>6, <3>2, <3>6 DEF inject, SameStream
      <4>2. /\ Len(observed) = Len(original)
            /\ i \in 1 .. (Len(original) - 1)
            /\ xs[i] # xs[i + 1] /\ ys[i] = xs[i + 1] /\ ys[i + 1] = xs[i]
            /\ \A n \in 1 .. Len(original) : n # i /\ n # i + 1 => xs[n] = ys[n]
        BY <2>1, <3>2, <4>1, SwapSeen
      <4> HIDE DEF xs, ys, i
      <4>3. ksentry_fast(xs).acc # ksentry_fast(ys).acc
        BY <1>1, <2>1, <2>2, <4>2, SwapChanges
      <4> QED
        BY <2>3, <4>2, <4>3 DEF is_suspicious
    <3> QED
      BY <2>6, <3>2, <3>3, <3>4, <3>5, <3>6 DEF FaultKinds
  <2> QED
    BY <2>4, <2>6
<1>2. SoundParams /\ StreamInv => VerdictExact
  BY <1>1 DEF VerdictExact
<1> QED
  BY <1>2, StreamAlways, SoundParamsStay, PTL

-----------------------------------------------------------------------------
(***************************************************************************)
(* The comparison chunk by chunk.                                          *)
(***************************************************************************)
LEMMA NoneBad ==
    ASSUME NEW r, NEW N \in Nat, Len(r) = N,
           \A k \in 1 .. N : ~ is_suspicious(r[k])
    PROVE  first_bad_chunk_index(r) = -1
  BY DEF first_bad_chunk_index

LEMMA FirstBad ==
    ASSUME NEW r, NEW N \in Nat, Len(r) = N,
           NEW k \in 1 .. N, is_suspicious(r[k]),
           \A j \in 1 .. (k - 1) : ~ is_suspicious(r[j])
    PROVE  first_bad_chunk_index(r) = k - 1
<1> DEFINE B == {j \in 1 .. N : is_suspicious(r[j])}
<1>1. B \subseteq Int /\ k \in B /\ \A j \in B : k <= j
  <2> SUFFICES ASSUME NEW j \in B, j < k PROVE FALSE
    OBVIOUS
  <2>1. j \in 1 .. (k - 1)
    OBVIOUS
  <2> QED
    BY <2>1
<1>2. Min(B) = k
  BY <1>1, MinIs
<1>3. first_bad_chunk_index(r) = IF B = {} THEN -1 ELSE Min(B) - 1
  BY DEF first_bad_chunk_index
<1> QED
  BY <1>1, <1>2, <1>3

LEMMA ChunkReport ==
    ASSUME NEW es \in Seq(Events), NEW fs \in Seq(Events), NEW r,
           NEW N \in Nat, ReportsAre(r, Label, es, fs, N), NEW k \in 1 .. N
    PROVE  r[k] = IF Len(ChunkOf(es, k)) # Len(ChunkOf(fs, k))
                  THEN [reason |-> "Length", status |-> "MetadataMismatch"]
                  ELSE IF ksentry_fast(ChunkOf(es, k)).acc
                              # ksentry_fast(ChunkOf(fs, k)).acc
                  THEN [reason |-> "Digest", status |-> "DigestMismatch"]
                  ELSE [reason |-> "None", status |-> "Clean"]
<1>1. /\ Count(Len(es)) \in Nat /\ Count(Len(fs)) \in Nat
      /\ Len(es) \in Nat /\ Len(fs) \in Nat
  BY CountBounds, LenProperties
<1>2. k \in 1 .. Count(Len(es)) /\ k \in 1 .. Count(Len(fs))
  BY <1>1 DEF ReportsAre
<1>3. /\ Start(k) \in Nat
      /\ Len(ChunkOf(es, k)) \in Nat /\ Len(ChunkOf(fs, k)) \in Nat
  BY <1>1, <1>2, BlockBounds, ChunkOfIs, LenProperties
<1> QED
  BY <1>3, SameLabelVerdict DEF ReportsAre

LEMMA ChunkInField ==
    ASSUME NEW es \in Seq(Events), NEW k \in 1 .. Count(Len(es))
    PROVE  /\ ChunkOf(es, k) \in Seq(Field)
           /\ Len(ChunkOf(es, k)) = Stop(Len(es), k) - Start(k)
           /\ \A i \in 1 .. (Stop(Len(es), k) - Start(k)) :
                 ChunkOf(es, k)[i] = field_stream(es)[Start(k) + i]
<1>1. field_stream(es) \in Seq(Field) /\ Len(field_stream(es)) = Len(es)
  BY FieldStream, FieldStreamTyped
<1>2. k \in 1 .. Count(Len(field_stream(es)))
  BY <1>1
<1> QED
  BY <1>1, <1>2, ChunkIs DEF ChunkOf

(***************************************************************************)
(* Two streams that agree up to where the k-th chunk ends in both.         *)
(***************************************************************************)
LEMMA SameChunk ==
    ASSUME NEW es \in Seq(Events), NEW fs \in Seq(Events),
           NEW k \in 1 .. Count(Len(es)), k \in 1 .. Count(Len(fs)),
           Stop(Len(es), k) = Stop(Len(fs), k),
           \A i \in 1 .. Stop(Len(es), k) :
              field_stream(es)[i] = field_stream(fs)[i]
    PROVE  ChunkOf(es, k) = ChunkOf(fs, k)
<1> DEFINE xs == field_stream(es)
           ys == field_stream(fs)
           s  == Start(k)
           t  == Stop(Len(es), k)
           u  == ChunkOf(es, k)
           v  == ChunkOf(fs, k)
<1>1. /\ u \in Seq(Field) /\ Len(u) = t - s
      /\ \A i \in 1 .. (t - s) : u[i] = xs[s + i]
  BY ChunkInField
<1>2. /\ v \in Seq(Field) /\ Len(v) = t - s
      /\ \A i \in 1 .. (t - s) : v[i] = ys[s + i]
  BY ChunkInField
<1>3. s \in Nat /\ t \in Nat
  BY LenProperties, BlockBounds
<1>4. \A i \in 1 .. t : xs[i] = ys[i]
  OBVIOUS
<1> HIDE DEF xs, ys, s, t, u, v
<1>5. \A i \in 1 .. Len(u) : u[i] = v[i]
  <2> SUFFICES ASSUME NEW i \in 1 .. (t - s) PROVE u[i] = v[i]
    BY <1>1
  <2>1. s + i \in 1 .. t
    BY <1>3
  <2> QED
    BY <1>1, <1>2, <1>4, <2>1
<1>6. u = v
  BY <1>1, <1>2, <1>5, SeqEqual
<1> QED
  BY <1>6 DEF u, v

LEMMA CleanChunk ==
    ASSUME NEW es \in Seq(Events), NEW fs \in Seq(Events), NEW r,
           NEW N \in Nat, ReportsAre(r, Label, es, fs, N), NEW k \in 1 .. N,
           ChunkOf(es, k) = ChunkOf(fs, k)
    PROVE  ~ is_suspicious(r[k])
  BY ChunkReport DEF is_suspicious

LEMMA MultipleOfSize ==
    ASSUME NEW n \in Nat, NEW k \in Nat
    PROVE  n = k * ChunkSize => n % ChunkSize = 0
<1> DEFINE C == ChunkSize
<1>1. C \in Nat /\ C > 0
  BY EvidenceAssumption
<1> HIDE DEF C
<1>2. /\ n = (n \div C) * C + (n % C)
      /\ n % C \in 0 .. (C - 1)
      /\ n \div C \in Int
  BY <1>1, Division
<1>3. PICK q \in Int, r \in 0 .. (C - 1) : r = n % C /\ n = q * C + r
  BY <1>2
<1> SUFFICES ASSUME n = k * C PROVE n % C = 0
  BY DEF C
<1>4. PICK d \in Int : d = k - q
  BY <1>3
<1>5. k = q + d
  BY <1>3, <1>4
<1>6. (q + d) * C = q * C + d * C
  BY <1>1, <1>3, <1>4
<1>7. d * C = r
  <2>1. n = (q + d) * C
    BY <1>5
  <2> QED
    BY <1>1, <1>3, <1>4, <1>6, <2>1
<1>8. d = 0
  <2>1. CASE d >= 1
    <3>1. 1 * C <= d * C
      BY <1>1, <1>4, <2>1, ProductOrder
    <3> QED
      BY <1>1, <1>3, <1>7, <3>1
  <2>2. CASE d <= -1
    <3>1. 1 * C <= (-d) * C
      BY <1>1, <1>4, <2>2, ProductOrder
    <3>2. (-d) * C = - (d * C)
      BY <1>1, <1>4
    <3> QED
      BY <1>1, <1>3, <1>7, <3>1, <3>2
  <2> QED
    BY <1>4, <2>1, <2>2
<1> QED
  BY <1>1, <1>3, <1>7, <1>8

LEMMA CountOrder ==
    ASSUME NEW m \in Nat, NEW n \in Nat, m <= n
    PROVE  Count(m) <= Count(n)
<1> DEFINE C == ChunkSize
           M == Count(m)
           N == Count(n)
<1>1. /\ C \in Nat /\ C > 0 /\ M \in Nat /\ N \in Nat
      /\ n <= N * C /\ M * C < m + C
  BY CountBounds, EvidenceAssumption
<1> HIDE DEF C, M, N
<1>2. SUFFICES ASSUME N + 1 <= M PROVE FALSE
  BY <1>1 DEF M, N
<1>3. (N + 1) * C <= M * C
  BY <1>1, <1>2, ProductOrder
<1>4. (N + 1) * C = N * C + C /\ N * C \in Nat /\ M * C \in Nat
  BY <1>1
<1> QED
  BY <1>1, <1>3, <1>4

(***************************************************************************)
(* For every chunk size and every modulus, in every build: a truncation is *)
(* seen by the chunks unless the cut falls between two of them.            *)
(***************************************************************************)
THEOREM TruncationsSeen == Spec => []TruncationSeenByChunks
<1>1. ASSUME StreamInv, Verified, fault.kind = "TruncateTail",
             Len(observed) < Len(original)
      PROVE  (first_bad_chunk_index(chunkReports) = -1)
                 <=> (Len(observed) % ChunkSize = 0)
  <2> DEFINE C == ChunkSize
             es == original
             fs == observed
             n == Len(original)
             m == Len(observed)
             r == chunkReports
             M == Count(m)
  <2>1. /\ es \in Seq(Events) /\ fs \in Seq(Events) /\ n \in Nat /\ m \in Nat
        /\ m < n
    BY <1>1, ObservedTyped DEF Verified
  <2>2. \A i \in 1 .. m : fs[i] = es[i]
    <3>1. observed # original
      BY <1>1, <2>1
    <3>2. /\ fault \in Faults /\ observed = inject(original, fault)
      BY <1>1, <3>1 DEF StreamInv, Verified
    <3>3. fault.at \in Nat /\ observed = truncate_tail(original, fault.at)
      BY <1>1, <3>2 DEF Faults, inject
    <3> QED
      BY <2>1, <3>3, TruncateKeeps
  <2>3. \A i \in 1 .. m : field_stream(es)[i] = field_stream(fs)[i]
    <3> SUFFICES ASSUME NEW i \in 1 .. m
                 PROVE  field_stream(es)[i] = field_stream(fs)[i]
      OBVIOUS
    <3>1. i \in 1 .. n
      BY <2>1
    <3> QED
      BY <2>1, <2>2, <3>1, FieldStream
  <2>4. r = verify_chunked_streams(ChunkCheckpoints(Label, es),
                                   ChunkCheckpoints(Label, fs))
    BY <1>1 DEF StreamInv, Verified
  <2>5. PICK N \in Nat : ReportsAre(r, Label, es, fs, N)
    BY <2>1, <2>4, ReportsOn
  <2>6. /\ C \in Nat /\ C > 0 /\ M \in Nat /\ m <= M * C /\ M * C < m + C
        /\ Count(n) \in Nat /\ M <= Count(n)
    BY <2>1, CountBounds, EvidenceAssumption, CountOrder
  <2>7. N = M /\ Len(r) = M
    BY <2>5, <2>6 DEF ReportsAre, M
  <2> HIDE DEF C, es, fs, n, m, r, M
  <2>8. ASSUME m % C = 0 PROVE first_bad_chunk_index(r) = -1
    <3>1. PICK q \in Nat : m = q * C
      <4>1. m = (m \div C) * C + (m % C) /\ m \div C \in Int
        BY <2>1, <2>6, Division
      <4>2. PICK q \in Int : m = q * C
        <5>1. PICK q \in Int : q = m \div C
          BY <4>1
        <5>2. m = q * C + 0
          BY <2>8, <4>1, <5>1
        <5> QED
          BY <2>6, <5>1, <5>2
      <4>3. q >= 0
        <5>1. SUFFICES ASSUME q <= -1 PROVE FALSE
          BY <4>2
        <5>2. 1 * C <= (-q) * C
          BY <2>6, <4>2, <5>1, ProductOrder
        <5>3. (-q) * C = - (q * C)
          BY <2>6, <4>2
        <5> QED
          BY <2>1, <2>6, <4>2, <5>2, <5>3
      <4> QED
        BY <4>2, <4>3
    <3>2. M <= q
      <4>1. SUFFICES ASSUME q + 1 <= M PROVE FALSE
        BY <2>6, <3>1
      <4>2. (q + 1) * C <= M * C
        BY <2>6, <3>1, <4>1, ProductOrder
      <4>3. (q + 1) * C = q * C + C /\ M * C \in Nat
        BY <2>6, <3>1
      <4> QED
        BY <2>1, <2>6, <3>1, <4>2, <4>3
    <3>3. ASSUME NEW k \in 1 .. M PROVE ~ is_suspicious(r[k])
      <4>1. k \in Nat /\ k <= q /\ k * C \in Nat
        BY <2>6, <3>2
      <4>2. k * C <= m
        BY <2>6, <3>1, <4>1, ProductOrder
      <4>3. Stop(m, k) = k * C /\ Stop(n, k) = k * C
        BY <2>1, <4>1, <4>2 DEF Stop, C
      <4>4. k \in 1 .. Count(n) /\ k \in 1 .. Count(m)
        BY <2>6 DEF M
      <4>5. \A i \in 1 .. Stop(n, k) : field_stream(es)[i] = field_stream(fs)[i]
        BY <2>1, <2>3, <4>1, <4>2, <4>3
      <4>6. ChunkOf(es, k) = ChunkOf(fs, k)
        BY <2>1, <4>3, <4>4, <4>5, SameChunk DEF n, m, es, fs
      <4> QED
        BY <2>1, <2>5, <2>7, <4>6, CleanChunk
    <3> QED
      BY <2>6, <2>7, <3>3, NoneBad
  <2>9. ASSUME m % C # 0 PROVE first_bad_chunk_index(r) # -1
    <3>1. m # 0
      BY <2>1, <2>6, <2>9, MultipleOfSize DEF C
    <3>2. M * C # m
      BY <2>1, <2>6, <2>9, MultipleOfSize DEF C
    <3>3. M \in 1 .. M /\ M \in 1 .. Count(n) /\ M \in 1 .. Count(m)
      <4>1. M # 0
        BY <2>1, <2>6, <3>1
      <4> QED
        BY <2>6, <4>1 DEF M
    <3>4. Stop(m, M) = m /\ Stop(n, M) > m
      BY <2>1, <2>6, <3>2 DEF Stop, C
    <3>5. /\ Len(ChunkOf(es, M)) = Stop(n, M) - Start(M)
          /\ Len(ChunkOf(fs, M)) = Stop(m, M) - Start(M)
          /\ Start(M) \in Nat /\ Stop(n, M) \in Nat
      BY <2>1, <3>3, ChunkOfIs, BlockBounds DEF n, m, es, fs
    <3>6. Len(ChunkOf(es, M)) # Len(ChunkOf(fs, M))
      BY <2>1, <3>4, <3>5
    <3>7. is_suspicious(r[M])
      BY <2>1, <2>5, <2>7, <3>3, <3>6, ChunkReport DEF is_suspicious
    <3>8. PICK k \in 1 .. M : /\ is_suspicious(r[k])
                              /\ \A j \in 1 .. (k - 1) : ~ is_suspicious(r[j])
      <4> DEFINE B == {k \in Nat : k \in 1 .. M /\ is_suspicious(r[k])}
      <4>1. M \in B
        BY <2>6, <3>3, <3>7
      <4>2. PICK k \in B : \A j \in B : k <= j
        BY <4>1, NatMinimum
      <4>3. \A j \in 1 .. (k - 1) : j \in Nat /\ j \in 1 .. M /\ j < k
        BY <2>6, <4>2
      <4> QED
        BY <4>2, <4>3
    <3>9. first_bad_chunk_index(r) = k - 1
      BY <2>6, <2>7, <3>8, FirstBad
    <3> QED
      BY <2>6, <3>8, <3>9
  <2> QED
    BY <2>8, <2>9 DEF r, m, C
<1>2. StreamInv => TruncationSeenByChunks
  BY <1>1 DEF TruncationSeenByChunks
<1> QED
  BY <1>2, StreamAlways, PTL

-----------------------------------------------------------------------------
(***************************************************************************)
(* Where a swap is first seen: position i = a + 1 is in chunk k, the       *)
(* chunks before it hold the same elements in both streams, and chunk k    *)
(* does not, whether it holds both of the swapped elements or only the     *)
(* first of them.                                                          *)
(***************************************************************************)
Block(a) == (a \div ChunkSize) + 1

LEMMA BlockOf ==
    ASSUME NEW n \in Nat, NEW a \in Nat, a < n
    PROVE  /\ Block(a) \in 1 .. Count(n)
           /\ Start(Block(a)) <= a
           /\ a < Stop(n, Block(a))
           /\ \A j \in 1 .. (Block(a) - 1) : Stop(n, j) <= a
<1> DEFINE C == ChunkSize
           N == Count(n)
           k == Block(a)
<1>1. /\ C \in Nat /\ C > 0 /\ N \in Nat /\ n <= N * C
  BY CountBounds, EvidenceAssumption
<1>2. /\ a = (a \div C) * C + (a % C)
      /\ a % C \in 0 .. (C - 1)
      /\ a \div C \in Int
  BY <1>1, Division
<1>3. PICK q \in Int, r \in 0 .. (C - 1) :
         k = q + 1 /\ q = a \div C /\ a = q * C + r
  BY <1>2 DEF Block, k
<1> HIDE DEF C, N, k
<1>4. q \in Nat
  <2>1. SUFFICES ASSUME q <= -1 PROVE FALSE
    BY <1>3
  <2>2. 1 * C <= (-q) * C
    BY <1>1, <1>3, <2>1, ProductOrder
  <2>3. (-q) * C = - (q * C)
    BY <1>1, <1>3
  <2> QED
    BY <1>1, <1>3, <2>2, <2>3
<1>5. q * C \in Nat /\ k * C = q * C + C /\ k \in Nat
  BY <1>1, <1>3, <1>4
<1>6. Start(k) = q * C
  <2>1. k - 1 = q
    BY <1>3, <1>4
  <2> QED
    BY <2>1 DEF Start, C
<1>7. k <= N
  <2>1. SUFFICES ASSUME N <= q PROVE FALSE
    BY <1>1, <1>3, <1>4
  <2>2. N * C <= q * C
    BY <1>1, <1>4, <2>1, ProductOrder
  <2> QED
    BY <1>1, <1>3, <1>5, <2>2
<1>8. a < Stop(n, k)
  BY <1>1, <1>3, <1>5 DEF Stop, C
<1>9. ASSUME NEW j \in 1 .. (k - 1) PROVE Stop(n, j) <= a
  <2>1. j \in Nat /\ j <= q
    BY <1>3, <1>4
  <2>2. j * C <= q * C /\ j * C \in Nat
    BY <1>1, <1>4, <2>1, ProductOrder
  <2>3. j * C <= a
    BY <1>1, <1>3, <1>5, <2>2
  <2> QED
    BY <2>2, <2>3 DEF Stop, C
<1> QED
  BY <1>1, <1>3, <1>4, <1>5, <1>6, <1>7, <1>8, <1>9 DEF k, N

LEMMA SwappedChunk ==
    ASSUME SoundParams,
           NEW es \in Seq(Events), NEW fs \in Seq(Events),
           Len(fs) = Len(es), Len(es) <= MaxLen,
           NEW i \in 1 .. (Len(es) - 1), NEW k \in 1 .. Count(Len(es)),
           Start(k) < i, i <= Stop(Len(es), k),
           field_stream(es)[i] # field_stream(es)[i + 1],
           field_stream(fs)[i] = field_stream(es)[i + 1],
           field_stream(fs)[i + 1] = field_stream(es)[i],
           \A n \in 1 .. Len(es) : n # i /\ n # i + 1 =>
               field_stream(es)[n] = field_stream(fs)[n]
    PROVE  /\ Len(ChunkOf(es, k)) = Len(ChunkOf(fs, k))
           /\ ksentry_fast(ChunkOf(es, k)).acc # ksentry_fast(ChunkOf(fs, k)).acc
<1> DEFINE L  == Len(es)
           xs == field_stream(es)
           ys == field_stream(fs)
           s  == Start(k)
           t  == Stop(L, k)
           u  == ChunkOf(es, k)
           v  == ChunkOf(fs, k)
<1>1. /\ L \in Nat /\ s \in Nat /\ t \in Nat /\ t <= L /\ MaxLen \in Nat
  BY LenProperties, BlockBounds, EvidenceAssumption
<1>2. /\ u \in Seq(Field) /\ Len(u) = t - s
      /\ \A n \in 1 .. (t - s) : u[n] = xs[s + n]
  BY ChunkInField
<1>3. /\ v \in Seq(Field) /\ Len(v) = t - s
      /\ \A n \in 1 .. (t - s) : v[n] = ys[s + n]
  BY ChunkInField
<1>4. /\ i \in 1 .. (L - 1) /\ s < i /\ i <= t /\ L <= MaxLen
      /\ xs[i] # xs[i + 1] /\ ys[i] = xs[i + 1] /\ ys[i + 1] = xs[i]
      /\ \A n \in 1 .. L : n # i /\ n # i + 1 => xs[n] = ys[n]
  OBVIOUS
<1> HIDE DEF L, xs, ys, s, t, u, v
<1>5. PICK d \in Nat : i = s + d /\ d \in 1 .. (t - s)
  <2>1. i - s \in Nat /\ i = s + (i - s) /\ i - s \in 1 .. (t - s)
    BY <1>1, <1>4
  <2> QED
    BY <2>1
<1>6. u[d] = xs[i] /\ v[d] = ys[i]
  BY <1>2, <1>3, <1>5
<1>7. ASSUME NEW n \in 1 .. (t - s), n # d, n # d + 1 PROVE u[n] = v[n]
  <2>1. s + n \in 1 .. L /\ s + n # i /\ s + n # i + 1
    BY <1>1, <1>5, <1>7
  <2> QED
    BY <1>2, <1>3, <1>4, <2>1
<1>8. CASE d < t - s
  <2>1. d + 1 \in 1 .. (t - s) /\ s + (d + 1) = i + 1 /\ d \in 1 .. (Len(u) - 1)
    BY <1>1, <1>2, <1>5, <1>8
  <2>2. u[d + 1] = xs[i + 1] /\ v[d + 1] = ys[i + 1]
    BY <1>2, <1>3, <2>1
  <2>3. u[d] # u[d + 1] /\ v[d] = u[d + 1] /\ v[d + 1] = u[d]
    BY <1>4, <1>6, <2>2
  <2>4. Len(v) = Len(u) /\ Len(u) <= MaxLen
    BY <1>1, <1>2, <1>3, <1>4
  <2>5. \A n \in 1 .. Len(u) : n # d /\ n # d + 1 => u[n] = v[n]
    BY <1>2, <1>7
  <2>6. ksentry_fast(u).acc # ksentry_fast(v).acc
    BY <1>2, <1>3, <2>1, <2>3, <2>4, <2>5, SwapChanges
  <2> QED
    BY <2>4, <2>6 DEF u, v
<1>9. CASE d = t - s
  <2>1. u[d] # v[d]
    BY <1>4, <1>6
  <2>2. \A n \in 1 .. Len(u) : n # d => u[n] = v[n]
    BY <1>1, <1>2, <1>7, <1>9
  <2>3. Len(v) = Len(u) /\ d \in 1 .. Len(u)
    BY <1>2, <1>3, <1>5
  <2>4. ksentry_fast(u).acc # ksentry_fast(v).acc
    BY <1>2, <1>3, <2>1, <2>2, <2>3, EditChanges
  <2> QED
    BY <2>3, <2>4 DEF u, v
<1> QED
  BY <1>1, <1>5, <1>8, <1>9

(***************************************************************************)
(* For every chunk size and every place of the swap: the first suspicious  *)
(* chunk is the one of the first element that moved, also where the swap   *)
(* straddles two chunks.                                                   *)
(***************************************************************************)
THEOREM SwapsLocalised == SoundParams /\ Spec => []SwapLocalised
<1>1. ASSUME SoundParams, StreamInv, Verified, fault.kind = "SwapAdjacent",
             ~ SameStream
      PROVE  first_bad_chunk_index(chunkReports)
                 = (FirstDifference - 1) \div ChunkSize
  <2> DEFINE es == original
             fs == observed
             xs == field_stream(original)
             ys == field_stream(observed)
             L  == Len(original)
             a  == fault.at
             i  == a + 1
             k  == Block(a)
             r  == chunkReports
  <2>1. /\ es \in Seq(Events) /\ fs \in Seq(Events) /\ L \in Nat
        /\ L <= MaxLen /\ xs # ys
    BY <1>1, ObservedTyped DEF Verified, StreamInv, SameStream
  <2>2. a \in Nat /\ fs = swap_adjacent(es, a)
    <3>1. observed # original
      BY <2>1
    <3>2. fault \in Faults /\ observed = inject(original, fault)
      BY <1>1, <3>1 DEF StreamInv, Verified
    <3> QED
      BY <1>1, <3>2 DEF Faults, inject
  <2>3. /\ Len(fs) = L
        /\ i \in 1 .. (L - 1)
        /\ xs[i] # xs[i + 1] /\ ys[i] = xs[i + 1] /\ ys[i + 1] = xs[i]
        /\ \A n \in 1 .. L : n # i /\ n # i + 1 => xs[n] = ys[n]
    BY <2>1, <2>2, SwapSeen
  <2>4. r = verify_chunked_streams(ChunkCheckpoints(Label, es),
                                   ChunkCheckpoints(Label, fs))
    BY <1>1 DEF StreamInv, Verified
  <2>5. PICK N \in Nat : ReportsAre(r, Label, es, fs, N)
    BY <2>1, <2>4, ReportsOn
  <2>6. N = Count(L) /\ Len(r) = N
    BY <2>3, <2>5 DEF ReportsAre
  <2>7. a < L /\ i = a + 1 /\ a \in Nat
    BY <2>1, <2>2, <2>3
  <2>8. /\ k \in 1 .. N /\ Start(k) <= a /\ a < Stop(L, k)
        /\ \A j \in 1 .. (k - 1) : Stop(L, j) <= a
    BY <2>1, <2>6, <2>7, BlockOf
  <2>9. FirstDifference = i
    <3> DEFINE D == {n \in 1 .. L : xs[n] # ys[n]}
    <3>1. DOMAIN original = 1 .. L
      BY <2>1, LenProperties
    <3>2. FirstDifference = Min(D)
      BY <3>1 DEF FirstDifference
    <3> HIDE DEF xs, ys, L, i
    <3>3. i \in D /\ \A n \in D : i <= n
      BY <2>1, <2>3, <2>7
    <3>4. D \subseteq Int
      OBVIOUS
    <3> HIDE DEF D
    <3> QED
      BY <3>2, <3>3, <3>4, MinIs
  <2>10. k - 1 = a \div ChunkSize /\ i - 1 = a
    <3>1. ChunkSize \in Nat /\ ChunkSize > 0
      BY EvidenceAssumption
    <3> HIDE DEF a
    <3>2. a \div ChunkSize \in Int
      BY <2>7, <3>1, Division
    <3> QED
      BY <2>7, <3>2 DEF Block, k, i
  <2> HIDE DEF es, fs, xs, ys, L, a, i, k, r
  <2>11. ASSUME NEW j \in 1 .. (k - 1) PROVE ~ is_suspicious(r[j])
    <3>1. j \in 1 .. N /\ Stop(L, j) <= a /\ Stop(L, j) \in Nat
      <4>1. j \in 1 .. N
        BY <2>8
      <4> QED
        BY <2>1, <2>6, <2>8, <4>1, BlockBounds
    <3>2. \A n \in 1 .. Stop(L, j) : xs[n] = ys[n]
      BY <2>1, <2>3, <2>7, <3>1
    <3>3. ChunkOf(es, j) = ChunkOf(fs, j)
      BY <2>1, <2>3, <2>6, <3>1, <3>2, SameChunk DEF es, fs, xs, ys, L
    <3> QED
      BY <2>1, <2>5, <3>1, <3>3, CleanChunk
  <2>12. is_suspicious(r[k])
    <3>1. Start(k) < i /\ i <= Stop(L, k)
      <4>1. Start(k) \in Nat /\ Stop(L, k) \in Nat
        BY <2>1, <2>6, <2>8, BlockBounds
      <4> QED
        BY <2>7, <2>8, <4>1
    <3>2. /\ Len(ChunkOf(es, k)) = Len(ChunkOf(fs, k))
          /\ ksentry_fast(ChunkOf(es, k)).acc # ksentry_fast(ChunkOf(fs, k)).acc
      BY <1>1, <2>1, <2>3, <2>6, <2>8, <3>1, SwappedChunk DEF es, fs, xs, ys, L
    <3>3. r[k].status = "DigestMismatch"
      BY <2>1, <2>5, <2>8, <3>2, ChunkReport, SMTT(30)
    <3> QED
      BY <3>3 DEF is_suspicious
  <2>13. first_bad_chunk_index(r) = k - 1
    BY <2>6, <2>8, <2>11, <2>12, FirstBad
  <2> QED
    BY <2>9, <2>10, <2>13 DEF r
<1>2. SoundParams /\ StreamInv => SwapLocalised
  BY <1>1 DEF SwapLocalised
<1> QED
  BY <1>2, StreamAlways, SoundParamsStay, PTL
=============================================================================
