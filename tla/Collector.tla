----------------------------- MODULE Collector -----------------------------
(***************************************************************************)
(* The userspace collector of timefence-epbf (timefence_epbf/src/main.rs)  *)
(* on top of the kernel side: it attaches the three programs one after the *)
(* other, opens the ring buffer, and drains it into a K-Sentry accumulator *)
(* until it has kept Limit events (30 in the code); then it writes its     *)
(* report and exits.                                                       *)
(*                                                                         *)
(* A ring record is released when the item of the loop body is dropped, at *)
(* the end of the body, so one iteration is one step that empties one slot *)
(* at its end.  Every record is a whole RawKernelEvent (both sides share   *)
(* the struct), so parse_raw_kernel_event never answers None.              *)
(***************************************************************************)
EXTENDS Tracepoints, Accumulator

CONSTANTS
    Limit,      \* kept events after which the collector stops (30)
    ExcerptLen, \* events in the first and the last excerpt of the report (5)
    Hash        \* the hash of an event, by its time stamp, which is part of it

ASSUME CollectorAssumption ==
    /\ Limit \in Nat /\ Limit > 0
    /\ ExcerptLen \in Nat /\ ExcerptLen > 0
    /\ Hash \in [0 .. MaxHits -> Nat]

VARIABLES
    cpc,            \* where the collector is
    ks,             \* its accumulator
    kept_events,
    skipped_events,
    first_events,   \* records of the first kept events
    last_events,    \* records of the last kept events
    report          \* what the report file says, NoReport before

collectorVars == <<cpc, ks, kept_events, skipped_events, first_events,
                   last_events, report>>
vars == <<kernelVars, collectorVars>>

AttachOrder == <<"exec", "openat", "connect">>

Stopped == cpc \in {"done", "failed"}

NoReport == [digest |-> -1]

(***************************************************************************)
(* should_keep_event: execve of a listed command, openat of a watched      *)
(* path, every connect.                                                    *)
(***************************************************************************)
should_keep_event(e) == e.kind = "connect" \/ e.match

to_field_element(e) == Hash[e.ts] % P

-----------------------------------------------------------------------------
Init ==
    /\ KernelInit
    /\ cpc = "attach"
    /\ ks = new
    /\ kept_events = 0
    /\ skipped_events = 0
    /\ first_events = << >>
    /\ last_events = << >>
    /\ report = NoReport

(***************************************************************************)
(* load and attach, one program at a time: a program already attached runs *)
(* while the next one is still being loaded.                               *)
(***************************************************************************)
Attach ==
    /\ cpc = "attach"
    /\ LET k == Cardinality(attached) + 1
       IN  /\ attached' = attached \cup {AttachOrder[k]}
           /\ cpc' = IF k = Len(AttachOrder) THEN "open" ELSE "attach"
    /\ UNCHANGED <<clock, pc, ev, reg, ring, failures, delivered, failed,
                   ks, kept_events, skipped_events, first_events, last_events, report>>

OpenRing ==
    /\ cpc = "open"
    /\ cpc' = "drain"
    /\ UNCHANGED <<kernelVars, ks, kept_events, skipped_events, first_events,
                   last_events, report>>

(***************************************************************************)
(* A load, an attach, the opening of the ring or the writing of the report *)
(* fails: main returns the error, and dropping Ebpf detaches the programs. *)
(***************************************************************************)
Fail ==
    /\ cpc \in {"attach", "open", "report"}
    /\ cpc' = "failed"
    /\ attached' = {}
    /\ UNCHANGED <<clock, pc, ev, reg, ring, failures, delivered, failed,
                   ks, kept_events, skipped_events, first_events, last_events, report>>

\* A plausible bug of the next definition, for the mutation checks.
LeavesTheLast == Len(ring) > 1

(***************************************************************************)
(* ring_buf.next() has an item.                                            *)
(***************************************************************************)
HasItem == ring # << >>

Release ==
    /\ ring' = Tail(ring)
    /\ UNCHANGED <<attached, clock, pc, ev, reg, failures, delivered, failed>>

(***************************************************************************)
(* The loop body for an event the policy does not keep.                    *)
(***************************************************************************)
Skip ==
    /\ cpc = "drain"
    /\ HasItem
    /\ ~ should_keep_event(Head(ring))
    /\ skipped_events' = skipped_events + 1
    /\ Release
    /\ UNCHANGED <<cpc, ks, kept_events, first_events, last_events, report>>

\* A plausible bug of LiveEventRecord, for the mutation checks.
DigestBefore(e, after) == [ts |-> e.ts, x |-> to_field_element(e),
                           digest_after |-> ks.acc]

(***************************************************************************)
(* LiveEventRecord, without the fields it copies from the event.           *)
(***************************************************************************)
LiveEventRecord(e, after) == [ts |-> e.ts, x |-> to_field_element(e),
                              digest_after |-> after.acc]

PushLast(records, r) ==
    Append(IF Len(records) = ExcerptLen THEN Tail(records) ELSE records, r)

(***************************************************************************)
(* The loop body for an event that is kept; at the limit it ends the inner *)
(* loop, and main sleeps once more before the outer loop ends.             *)
(***************************************************************************)
Keep ==
    /\ cpc = "drain"
    /\ HasItem
    /\ should_keep_event(Head(ring))
    /\ LET e == Head(ring)
           after == update(ks, to_field_element(e))
           r == LiveEventRecord(e, after)
       IN  /\ ks' = after
           /\ first_events' = IF Len(first_events) < ExcerptLen
                              THEN Append(first_events, r) ELSE first_events
           /\ last_events' = PushLast(last_events, r)
    /\ kept_events' = kept_events + 1
    /\ cpc' = IF kept_events' >= Limit THEN "sleep" ELSE "drain"
    /\ Release
    /\ UNCHANGED <<skipped_events, report>>

Empty ==
    /\ cpc = "drain"
    /\ ~ HasItem
    /\ cpc' = "sleep"
    /\ UNCHANGED <<kernelVars, ks, kept_events, skipped_events, first_events,
                   last_events, report>>

\* A plausible bug of the next definition, for the mutation checks.
WakeOffByOne ==
    /\ cpc = "sleep"
    /\ cpc' = IF kept_events <= Limit THEN "drain" ELSE "report"
    /\ UNCHANGED <<kernelVars, ks, kept_events, skipped_events, first_events,
                   last_events, report>>

(***************************************************************************)
(* The sleep is over: the condition of the outer loop.                     *)
(***************************************************************************)
Wake ==
    /\ cpc = "sleep"
    /\ cpc' = IF kept_events < Limit THEN "drain" ELSE "report"
    /\ UNCHANGED <<kernelVars, ks, kept_events, skipped_events, first_events,
                   last_events, report>>

WriteReport ==
    /\ cpc = "report"
    /\ cpc' = "done"
    /\ report' = [kept |-> kept_events, skipped |-> skipped_events,
                  digest |-> ks.acc, first |-> first_events, last |-> last_events]
    /\ attached' = {}
    /\ UNCHANGED <<clock, pc, ev, reg, ring, failures, delivered, failed,
                   ks, kept_events, skipped_events, first_events, last_events>>

CollectorStep == Attach \/ OpenRing \/ Fail \/ Skip \/ Keep \/ Empty \/ Wake
                     \/ WriteReport

Next ==
    \/ Kernel /\ UNCHANGED collectorVars
    \/ CollectorStep

SafetySpec == Init /\ [][Next]_vars

(***************************************************************************)
(* The operating system keeps scheduling the collector.  Nothing is        *)
(* assumed of the tracepoints: they may never be hit again.                *)
(***************************************************************************)
Spec == SafetySpec /\ WF_vars(CollectorStep)

-----------------------------------------------------------------------------
(***************************************************************************)
(* What has left the ring, and the part of it that the policy keeps.       *)
(***************************************************************************)
ConsumedCount == Len(delivered) - Len(ring)
Consumed == SubSeq(delivered, 1, ConsumedCount)

KeptOf(events) ==
    LET kept[n \in 0 .. Len(events)] ==
          IF n = 0 THEN << >>
          ELSE IF should_keep_event(events[n]) THEN Append(kept[n - 1], events[n])
          ELSE kept[n - 1]
    IN  kept[Len(events)]

Kept == KeptOf(Consumed)
Elements(events) == [i \in DOMAIN events |-> to_field_element(events[i])]

(***************************************************************************)
(* The live evidence is exact for what was consumed: the digest is the     *)
(* K-Sentry digest of the kept events in the order of the ring, none left  *)
(* out or taken twice, and every other consumed event is counted as        *)
(* skipped.  What the ring refused leaves no trace in it.                  *)
(***************************************************************************)
LiveEvidence ==
    /\ ks.acc = ksentry_spec(Elements(Kept))
    /\ kept_events = Len(Kept)
    /\ skipped_events = ConsumedCount - Len(Kept)

(***************************************************************************)
(* The excerpts: the first and the last records are those of the first and *)
(* the last kept events, each with the digest of the stream up to it.      *)
(***************************************************************************)
RecordOf(i) == [ts |-> Kept[i].ts, x |-> to_field_element(Kept[i]),
                digest_after |-> ksentry_spec(Elements(SubSeq(Kept, 1, i)))]

Least(a, b) == IF a < b THEN a ELSE b

Excerpts ==
    LET n == Least(ExcerptLen, Len(Kept))
    IN  /\ first_events = [i \in 1 .. n |-> RecordOf(i)]
        /\ last_events = [i \in 1 .. n |-> RecordOf(Len(Kept) - n + i)]

(***************************************************************************)
(* The report is written only of a complete window: Limit events kept, the *)
(* last of them the last event taken from the ring, and what the file says *)
(* never differs from the collector's final state.                         *)
(***************************************************************************)
ReportComplete ==
    /\ cpc \in {"report", "done"} =>
           /\ kept_events = Limit
           /\ should_keep_event(Consumed[ConsumedCount])
    /\ cpc = "done" =>
           report = [kept |-> Limit, skipped |-> skipped_events,
                     digest |-> ksentry_spec(Elements(Kept)),
                     first |-> first_events, last |-> last_events]

(***************************************************************************)
(* No tracepoint hit shows up twice: the events kept, skipped, waiting in  *)
(* the ring or still in a program, and the failures counted, are together  *)
(* never more than the hits.  They can be fewer, for a program that gives  *)
(* up before the output is counted nowhere, and increments can be lost.    *)
(***************************************************************************)
NothingCountedTwice ==
    kept_events + skipped_events + Len(ring) + Cardinality(InFlight) + failures
        <= clock

(***************************************************************************)
(* Every event that enters the ring is eventually consumed, or the         *)
(* collector stops.  Only MaxHits events ever enter it, so this is to say  *)
(* that the ring is again and again found empty.                           *)
(***************************************************************************)
Drains == []<>(ring = << >> \/ Stopped)

(***************************************************************************)
(* Enough events worth keeping in the ring bring the collector to its end, *)
(* however many others are mixed with them.                                *)
(***************************************************************************)
Concludes == Len(KeptOf(delivered)) >= Limit ~> Stopped

(***************************************************************************)
(* The collector's digest is a K-Sentry digest: what it does to its        *)
(* accumulator implements KSentrySpec over the elements it kept.           *)
(***************************************************************************)
KS == INSTANCE KSentrySpec
          WITH xs <- Elements(Kept), digest <- ks.acc,
               Inputs <- {Hash[t] % P : t \in 0 .. MaxHits}, MaxLen <- Limit

ImplementsKSentry == KS!Spec
=============================================================================
