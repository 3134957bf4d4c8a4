---------------------------- MODULE Tracepoints ----------------------------
(***************************************************************************)
(* The kernel side of timefence-epbf: the three tracepoint programs of     *)
(* timefence_epbf_ebpf/src/main.rs (execve, openat, connect), running on   *)
(* several CPUs at once, the ring buffer EVENTS they write to, and the map *)
(* RINGBUF_OUTPUT_FAILURES that counts what did not fit.                   *)
(*                                                                         *)
(* A program runs to its end on its CPU, but the programs of two CPUs      *)
(* interleave between their accesses to what they share: the clock, the    *)
(* ring buffer, and the counter, which one plain load and one plain store  *)
(* increment.  EVENTS.output is one step: the kernel reserves and commits  *)
(* a record under a lock, and a reader stops at an uncommitted one.        *)
(***************************************************************************)
EXTENDS Naturals, Sequences, FiniteSets

CONSTANTS
    CPUS,           \* the processors
    RingCap,        \* records that fit in EVENTS
    MaxHits,        \* bound on the number of tracepoint hits
    CountsFailures  \* the program has RINGBUF_OUTPUT_FAILURES (its older
                    \* version drops an event that does not fit in silence)

ASSUME TracepointsAssumption ==
    /\ IsFiniteSet(CPUS)
    /\ RingCap \in Nat /\ RingCap > 0
    /\ MaxHits \in Nat
    /\ CountsFailures \in BOOLEAN

VARIABLES
    attached,   \* the tracepoints a program is attached to
    clock,      \* bpf_ktime_get_ns: the next time stamp
    pc,         \* where the program of each CPU is
    ev,         \* the event a program has filled in
    reg,        \* the counter value a program has loaded
    ring,       \* EVENTS, oldest record first
    failures,   \* the counter in RINGBUF_OUTPUT_FAILURES
    delivered,  \* history: every event that entered the ring, in order
    failed      \* history: number of outputs that found the ring full

kernelVars == <<attached, clock, pc, ev, reg, ring, failures, delivered,
                failed>>

Kinds == {"exec", "openat", "connect"}

(***************************************************************************)
(* An event: where and when the tracepoint was hit, and whether its comm   *)
(* (execve) or path (openat) is one the collector's policy names.  A path  *)
(* that could not be read from user memory is empty and matches nothing;   *)
(* of a connect the policy looks at nothing.                               *)
(***************************************************************************)
RawEvents == [kind : Kinds, match : BOOLEAN, cpu : CPUS, ts : 0 .. MaxHits]

NoEvent == [kind |-> "none"]

KernelTypeOK ==
    /\ attached \subseteq Kinds
    /\ clock \in 0 .. MaxHits
    /\ pc \in [CPUS -> {"idle", "filled", "load", "store"}]
    /\ \A c \in CPUS : /\ pc[c] = "filled" => ev[c] \in RawEvents
                       /\ reg[c] \in 0 .. MaxHits
    /\ ring \in Seq(RawEvents) /\ Len(ring) <= RingCap
    /\ failures \in 0 .. MaxHits
    /\ delivered \in Seq(RawEvents)
    /\ failed \in 0 .. MaxHits

KernelInit ==
    /\ attached = {}
    /\ clock = 0
    /\ pc = [c \in CPUS |-> "idle"]
    /\ ev = [c \in CPUS |-> NoEvent]
    /\ reg = [c \in CPUS |-> 0]
    /\ ring = << >>
    /\ failures = 0
    /\ delivered = << >>
    /\ failed = 0

-----------------------------------------------------------------------------
\* A plausible bug of the next definition, for the mutation checks.
EnterWithoutClock(c, kind, match) ==
    /\ pc[c] = "idle"
    /\ kind \in attached
    /\ match => kind # "connect"
    /\ clock < MaxHits
    /\ ev' = [ev EXCEPT ![c] = [kind |-> kind, match |-> match,
                                cpu |-> c, ts |-> 0]]
    /\ clock' = clock + 1
    /\ pc' = [pc EXCEPT ![c] = "filled"]
    /\ UNCHANGED <<attached, reg, ring, failures, delivered, failed>>

(***************************************************************************)
(* The tracepoint is hit and its program fills in the event.  The time     *)
(* stamp is taken here, before the event has a place in the ring.          *)
(***************************************************************************)
Enter(c, kind, match) ==
    /\ pc[c] = "idle"
    /\ kind \in attached
    /\ match => kind # "connect"
    /\ clock < MaxHits
    /\ ev' = [ev EXCEPT ![c] = [kind |-> kind, match |-> match,
                                cpu |-> c, ts |-> clock]]
    /\ clock' = clock + 1
    /\ pc' = [pc EXCEPT ![c] = "filled"]
    /\ UNCHANGED <<attached, reg, ring, failures, delivered, failed>>

\* The event is a local variable of the program and is gone with it.
Discard(c) == ev' = [ev EXCEPT ![c] = NoEvent]

(***************************************************************************)
(* ctx.read_at fails in try_openat or try_connect: the program returns     *)
(* before the output, and nothing counts the event, neither here nor in    *)
(* the collector.  (The older try_connect reads nothing from its context.) *)
(***************************************************************************)
Abandon(c) ==
    /\ pc[c] = "filled"
    /\ ev[c].kind \in {"openat"} \cup (IF CountsFailures THEN {"connect"} ELSE {})
    /\ pc' = [pc EXCEPT ![c] = "idle"]
    /\ Discard(c)
    /\ UNCHANGED <<attached, clock, reg, ring, failures, delivered, failed>>

(***************************************************************************)
(* EVENTS.output finds room.                                               *)
(***************************************************************************)
Output(c) ==
    /\ pc[c] = "filled"
    /\ Len(ring) < RingCap
    /\ ring' = Append(ring, ev[c])
    /\ delivered' = Append(delivered, ev[c])
    /\ pc' = [pc EXCEPT ![c] = "idle"]
    /\ Discard(c)
    /\ UNCHANGED <<attached, clock, reg, failures, failed>>

\* Plausible bugs of the next definition, for the mutation checks.
OutputFailsUncounted(c) ==
    /\ pc[c] = "filled"
    /\ Len(ring) = RingCap
    /\ failed' = failed + 1
    /\ pc' = [pc EXCEPT ![c] = "idle"]
    /\ Discard(c)
    /\ UNCHANGED <<attached, clock, reg, ring, failures, delivered>>

OutputFailsAndRetries(c) ==
    /\ pc[c] = "filled"
    /\ Len(ring) = RingCap
    /\ failed < MaxHits
    /\ failed' = failed + 1
    /\ failures' = failures + 1
    /\ UNCHANGED <<attached, clock, pc, ev, reg, ring, delivered>>

(***************************************************************************)
(* EVENTS.output finds the ring full: the event is lost, and counted by    *)
(* the programs that count.                                                *)
(***************************************************************************)
OutputFails(c) ==
    /\ pc[c] = "filled"
    /\ Len(ring) = RingCap
    /\ failed' = failed + 1
    /\ pc' = [pc EXCEPT ![c] = IF CountsFailures THEN "load" ELSE "idle"]
    /\ Discard(c)
    /\ UNCHANGED <<attached, clock, reg, ring, failures, delivered>>

(***************************************************************************)
(* count_ringbuf_output_failure: *counter += 1 on a map that the CPUs      *)
(* share, without an atomic operation.                                     *)
(***************************************************************************)
LoadCounter(c) ==
    /\ pc[c] = "load"
    /\ reg' = [reg EXCEPT ![c] = failures]
    /\ pc' = [pc EXCEPT ![c] = "store"]
    /\ UNCHANGED <<attached, clock, ev, ring, failures, delivered, failed>>

StoreCounter(c) ==
    /\ pc[c] = "store"
    /\ failures' = reg[c] + 1
    /\ pc' = [pc EXCEPT ![c] = "idle"]
    /\ reg' = [reg EXCEPT ![c] = 0]
    /\ UNCHANGED <<attached, clock, ev, ring, delivered, failed>>

Kernel ==
    \E c \in CPUS :
        \/ \E kind \in Kinds, match \in BOOLEAN : Enter(c, kind, match)
        \/ Abandon(c)
        \/ Output(c)
        \/ OutputFails(c)
        \/ LoadCounter(c)
        \/ StoreCounter(c)

-----------------------------------------------------------------------------
Counting(c) == pc[c] \in {"load", "store"}

(***************************************************************************)
(* The counter of output failures under its race: once no CPU is in the    *)
(* middle of an increment it is zero exactly if no output ever failed, and *)
(* it never exceeds the number of failures.  Two increments that overlap   *)
(* can lose one, never all.                                                *)
(***************************************************************************)
FailuresVisible ==
    CountsFailures =>
        /\ failures <= failed
        /\ (\A c \in CPUS : ~ Counting(c)) => (failures = 0 <=> failed = 0)

(***************************************************************************)
(* The same counter, taken as a measured number of failures.  The code     *)
(* does not do this.                                                       *)
(***************************************************************************)
FailuresMeasured ==
    CountsFailures /\ (\A c \in CPUS : ~ Counting(c)) => failures = failed

(***************************************************************************)
(* Order in the ring: the events of one CPU arrive in the order of their   *)
(* time stamps.  Events of two CPUs need not, since a CPU can be overtaken *)
(* between fill_common and the output; a digest is over the ring's order.  *)
(***************************************************************************)
PerCpuOrder ==
    \A i, j \in DOMAIN delivered :
        i < j /\ delivered[i].cpu = delivered[j].cpu
            => delivered[i].ts < delivered[j].ts

(***************************************************************************)
(* The CPUs whose program holds an event that is not yet out.              *)
(***************************************************************************)
InFlight == {c \in CPUS : pc[c] = "filled"}
=============================================================================
