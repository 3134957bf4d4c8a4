-------------------------- MODULE CollectorProofs --------------------------
(***************************************************************************)
(* Theorems about the collector running on the kernel side.  First the     *)
(* inductive invariants of the kernel side alone: what the racy failure    *)
(* counter still says, and the order of one CPU's events, for any number   *)
(* of CPUs, any ring and any number of hits, where the environment of the  *)
(* programs may do anything to the ring and to the attachments.  Then the  *)
(* collector, which is such an environment.                                *)
(***************************************************************************)
EXTENDS Collector, AccumulatorLemmas

counterVars == <<pc, reg, failures, failed>>
orderVars == <<clock, pc, ev, delivered>>

-----------------------------------------------------------------------------
(***************************************************************************)
(* The counter.  A CPU that has loaded the counter holds an old value; the *)
(* strengthening bounds every value that can still be stored by the        *)
(* failures minus the increments under way, and says that failures that    *)
(* are not yet in the counter have an increment under way.                 *)
(***************************************************************************)
CountingCPUs == {c \in CPUS : Counting(c)}

CounterTyped ==
    /\ pc \in [CPUS -> {"idle", "filled", "load", "store"}]
    /\ reg \in [CPUS -> Nat]
    /\ failures \in Nat
    /\ failed \in Nat

CounterInv ==
    /\ CounterTyped
    /\ failures + Cardinality(CountingCPUs) <= failed
    /\ \A c \in CPUS :
           pc[c] = "store" => reg[c] + Cardinality(CountingCPUs) <= failed
    /\ CountsFailures /\ failed > 0 => failures > 0 \/ CountingCPUs # {}

LEMMA CountingFinite ==
    IsFiniteSet(CountingCPUs) /\ Cardinality(CountingCPUs) \in Nat
<1>1. IsFiniteSet(CountingCPUs)
  BY TracepointsAssumption, FS_Subset DEF CountingCPUs
<1> QED
  BY <1>1, FS_CardinalityType

LEMMA CounterInit == KernelInit => CounterInv
<1> SUFFICES ASSUME KernelInit PROVE CounterInv
  OBVIOUS
<1>1. CountingCPUs = {}
  BY DEF KernelInit, CountingCPUs, Counting
<1>2. Cardinality(CountingCPUs) = 0
  BY <1>1, FS_EmptySet
<1> QED
  BY <1>2 DEF KernelInit, CounterInv, CounterTyped

(***************************************************************************)
(* How a step changes the set of CPUs that are in an increment.            *)
(***************************************************************************)
LEMMA CountingSame ==
    ASSUME CounterTyped, NEW c \in CPUS, NEW l,
           pc' = [pc EXCEPT ![c] = l],
           l \in {"load", "store"} <=> Counting(c)
    PROVE  CountingCPUs' = CountingCPUs
  BY DEF CounterTyped, CountingCPUs, Counting

LEMMA CountingStarts ==
    ASSUME CounterTyped, NEW c \in CPUS, pc' = [pc EXCEPT ![c] = "load"],
           ~ Counting(c)
    PROVE  /\ CountingCPUs' = CountingCPUs \cup {c}
           /\ Cardinality(CountingCPUs') = Cardinality(CountingCPUs) + 1
<1>1. CountingCPUs' = CountingCPUs \cup {c} /\ c \notin CountingCPUs
  BY DEF CounterTyped, CountingCPUs, Counting
<1> QED
  BY <1>1, CountingFinite, FS_AddElement

LEMMA CountingEnds ==
    ASSUME CounterTyped, NEW c \in CPUS, pc' = [pc EXCEPT ![c] = "idle"],
           Counting(c)
    PROVE  /\ CountingCPUs' = CountingCPUs \ {c}
           /\ Cardinality(CountingCPUs') = Cardinality(CountingCPUs) - 1
<1>1. CountingCPUs' = CountingCPUs \ {c} /\ c \in CountingCPUs
  BY DEF CounterTyped, CountingCPUs, Counting
<1> QED
  BY <1>1, CountingFinite, FS_RemoveElement

(***************************************************************************)
(* A step that leaves the counter alone and starts or ends no increment.   *)
(***************************************************************************)
LEMMA CounterQuiet ==
    ASSUME CounterInv, NEW c \in CPUS, NEW l \in {"idle", "filled"},
           pc' = [pc EXCEPT ![c] = l], ~ Counting(c),
           UNCHANGED <<reg, failures>>, failed' \in Nat, failed' >= failed,
           CountsFailures => failed' = failed
    PROVE  CounterInv'
<1>1. CountingCPUs' = CountingCPUs
  BY CountingSame DEF CounterInv
<1>2. CounterTyped'
  BY DEF CounterInv, CounterTyped
<1>3. Cardinality(CountingCPUs) \in Nat
  BY CountingFinite
<1>4. \A d \in CPUS : pc'[d] = "store" => pc[d] = "store"
  BY DEF CounterInv, CounterTyped
<1> QED
  BY <1>1, <1>2, <1>3, <1>4 DEF CounterInv, CounterTyped

LEMMA CounterStep == CounterInv /\ (Kernel \/ UNCHANGED counterVars) => CounterInv'
<1> SUFFICES ASSUME CounterInv, Kernel \/ UNCHANGED counterVars PROVE CounterInv'
  OBVIOUS
<1>0. CounterTyped /\ Cardinality(CountingCPUs) \in Nat
  BY CountingFinite DEF CounterInv
<1>1. ASSUME UNCHANGED counterVars PROVE CounterInv'
  <2>1. CountingCPUs' = CountingCPUs
    BY <1>1 DEF counterVars, CountingCPUs, Counting
  <2> QED
    BY <1>1, <2>1 DEF CounterInv, CounterTyped, counterVars
<1>2. ASSUME NEW c \in CPUS, NEW kind, NEW match, Enter(c, kind, match)
      PROVE  CounterInv'
  <2>1. /\ ~ Counting(c) /\ pc' = [pc EXCEPT ![c] = "filled"]
        /\ UNCHANGED <<reg, failures>> /\ failed' = failed
    BY <1>2 DEF Enter, Counting
  <2>2. failed' \in Nat /\ failed' >= failed
    BY <1>0, <2>1 DEF CounterTyped
  <2> QED
    BY <2>1, <2>2, CounterQuiet
<1>3. ASSUME NEW c \in CPUS, Abandon(c) \/ Output(c) PROVE CounterInv'
  BY <1>0, <1>3, CounterQuiet DEF Abandon, Output, Counting, CounterTyped
<1>4. ASSUME NEW c \in CPUS, OutputFails(c) PROVE CounterInv'
  <2>1. CASE ~ CountsFailures
    <3>1. /\ ~ Counting(c) /\ pc' = [pc EXCEPT ![c] = "idle"]
          /\ UNCHANGED <<reg, failures>> /\ failed' = failed + 1
      BY <1>4, <2>1 DEF OutputFails, Counting
    <3>2. failed \in Nat /\ failed' \in Nat /\ failed' >= failed
      BY <1>0, <3>1 DEF CounterTyped
    <3> QED
      BY <2>1, <3>1, <3>2, CounterQuiet
  <2>2. CASE CountsFailures
    <3>1. /\ CountingCPUs' = CountingCPUs \cup {c}
          /\ Cardinality(CountingCPUs') = Cardinality(CountingCPUs) + 1
      BY <1>0, <1>4, <2>2, CountingStarts DEF OutputFails, Counting
    <3>2. CounterTyped'
      BY <1>0, <1>4, <2>2 DEF OutputFails, CounterTyped
    <3>3. \A d \in CPUS : pc'[d] = "store" => pc[d] = "store"
      BY <1>0, <1>4, <2>2 DEF OutputFails, CounterTyped
    <3>4. UNCHANGED <<reg, failures>> /\ failed' = failed + 1
      BY <1>4 DEF OutputFails
    <3> QED
      BY <1>0, <3>1, <3>2, <3>3, <3>4 DEF CounterInv, CounterTyped
  <2> QED
    BY <2>1, <2>2
<1>5. ASSUME NEW c \in CPUS, LoadCounter(c) PROVE CounterInv'
  <2>1. CountingCPUs' = CountingCPUs
    BY <1>0, <1>5, CountingSame DEF LoadCounter, Counting
  <2>2. CounterTyped'
    BY <1>0, <1>5 DEF LoadCounter, CounterTyped
  <2>3. ASSUME NEW d \in CPUS, pc'[d] = "store"
        PROVE  reg'[d] + Cardinality(CountingCPUs) <= failed
    <3>1. CASE d = c
      BY <1>0, <1>5, <3>1 DEF LoadCounter, CounterTyped, CounterInv
    <3>2. CASE d # c
      BY <1>0, <1>5, <2>3, <3>2 DEF LoadCounter, CounterTyped, CounterInv
    <3> QED
      BY <3>1, <3>2
  <2> QED
    BY <1>5, <2>1, <2>2, <2>3 DEF LoadCounter, CounterInv
<1>6. ASSUME NEW c \in CPUS, StoreCounter(c) PROVE CounterInv'
  <2>1. Cardinality(CountingCPUs') = Cardinality(CountingCPUs) - 1
    BY <1>0, <1>6, CountingEnds DEF StoreCounter, Counting
  <2>2. CounterTyped'
    BY <1>0, <1>6 DEF StoreCounter, CounterTyped
  <2>3. failures' = reg[c] + 1 /\ failed' = failed /\ reg[c] \in Nat
    BY <1>0, <1>6 DEF StoreCounter, CounterTyped
  <2>4. reg[c] + Cardinality(CountingCPUs) <= failed
    BY <1>6 DEF StoreCounter, CounterInv
  <2>5. ASSUME NEW d \in CPUS, pc'[d] = "store"
        PROVE  reg'[d] + Cardinality(CountingCPUs) <= failed /\ reg'[d] \in Nat
    BY <1>0, <1>6, <2>5 DEF StoreCounter, CounterTyped, CounterInv
  <2>6. failures' + Cardinality(CountingCPUs') <= failed'
    BY <1>0, <2>1, <2>3, <2>4 DEF CounterTyped
  <2>7. \A d \in CPUS :
            pc'[d] = "store" => reg'[d] + Cardinality(CountingCPUs') <= failed'
    BY <1>0, <2>1, <2>3, <2>5 DEF CounterTyped
  <2>8. failures' > 0
    BY <2>3
  <2> QED
    BY <2>2, <2>6, <2>7, <2>8 DEF CounterInv
<1>7. CASE Kernel
  BY <1>2, <1>3, <1>4, <1>5, <1>6, <1>7 DEF Kernel
<1> QED
  BY <1>1, <1>7

(***************************************************************************)
(* What the invariant says where no increment is under way.                *)
(***************************************************************************)
LEMMA CounterVisible == CounterInv => FailuresVisible
<1> SUFFICES ASSUME CounterInv, CountsFailures
             PROVE  /\ failures <= failed
                    /\ (\A c \in CPUS : ~ Counting(c))
                           => (failures = 0 <=> failed = 0)
  BY DEF FailuresVisible
<1>1. failures <= failed /\ failures \in Nat /\ failed \in Nat
  BY CountingFinite DEF CounterInv, CounterTyped
<1>2. (\A c \in CPUS : ~ Counting(c)) => CountingCPUs = {}
  BY DEF CountingCPUs
<1> QED
  BY <1>1, <1>2 DEF CounterInv

-----------------------------------------------------------------------------
(***************************************************************************)
(* The order of the events.  An event in flight is later than everything   *)
(* its CPU has delivered, and no time stamp is ahead of the clock.         *)
(***************************************************************************)
Stamped == [kind : Kinds, match : BOOLEAN, cpu : CPUS, ts : Nat]

OrderTyped ==
    /\ clock \in Nat
    /\ pc \in [CPUS -> {"idle", "filled", "load", "store"}]
    /\ ev \in [CPUS -> Stamped \cup {NoEvent}]
    /\ delivered \in Seq(Stamped)

OrderInv ==
    /\ OrderTyped
    /\ \A i \in DOMAIN delivered : delivered[i].ts < clock
    /\ \A c \in CPUS : pc[c] = "filled" =>
           /\ ev[c] \in Stamped /\ ev[c].cpu = c /\ ev[c].ts < clock
           /\ \A i \in DOMAIN delivered :
                 delivered[i].cpu = c => delivered[i].ts < ev[c].ts
    /\ PerCpuOrder

LEMMA OrderInit == KernelInit => OrderInv
  BY DEF KernelInit, OrderInv, OrderTyped, PerCpuOrder

LEMMA OrderStep == OrderInv /\ (Kernel \/ UNCHANGED orderVars) => OrderInv'
<1> SUFFICES ASSUME OrderInv, Kernel \/ UNCHANGED orderVars PROVE OrderInv'
  OBVIOUS
<1>0. OrderTyped
  BY DEF OrderInv
<1>1. ASSUME UNCHANGED orderVars PROVE OrderInv'
  BY <1>1 DEF OrderInv, OrderTyped, PerCpuOrder, orderVars
<1>2. ASSUME NEW c \in CPUS, NEW kind \in Kinds, NEW match \in BOOLEAN,
             Enter(c, kind, match)
      PROVE  OrderInv'
  <2> DEFINE e == [kind |-> kind, match |-> match, cpu |-> c, ts |-> clock]
  <2>1. e \in Stamped /\ e.cpu = c /\ e.ts = clock
    BY <1>0 DEF Stamped, OrderTyped
  <2>2. /\ clock' = clock + 1 /\ clock \in Nat
        /\ ev' = [ev EXCEPT ![c] = e] /\ pc' = [pc EXCEPT ![c] = "filled"]
        /\ delivered' = delivered
    BY <1>0, <1>2 DEF Enter, OrderTyped
  <2> HIDE DEF e
  <2>3. OrderTyped'
    BY <1>0, <2>1, <2>2 DEF OrderTyped
  <2>4. \A i \in DOMAIN delivered : delivered[i].ts \in Nat /\ delivered[i].ts < clock
    <3> SUFFICES ASSUME NEW i \in DOMAIN delivered
                 PROVE  delivered[i].ts \in Nat /\ delivered[i].ts < clock
      OBVIOUS
    <3>1. delivered[i] \in Stamped
      BY <1>0 DEF OrderTyped
    <3> QED
      BY <3>1 DEF OrderInv, Stamped
  <2>5. \A i \in DOMAIN delivered' : delivered'[i].ts < clock'
    BY <2>2, <2>4
  <2>6. ASSUME NEW d \in CPUS, pc'[d] = "filled"
        PROVE  /\ ev'[d] \in Stamped /\ ev'[d].cpu = d /\ ev'[d].ts < clock'
               /\ \A i \in DOMAIN delivered' :
                     delivered'[i].cpu = d => delivered'[i].ts < ev'[d].ts
    <3>1. CASE d = c
      <4>1. ev'[d] = e
        BY <1>0, <2>2, <3>1 DEF OrderTyped
      <4> QED
        BY <2>1, <2>2, <2>4, <3>1, <4>1
    <3>2. CASE d # c
      <4>1. ev'[d] = ev[d] /\ pc[d] = "filled"
        BY <1>0, <2>2, <2>6, <3>2 DEF OrderTyped
      <4>2. ev[d].ts \in Nat
        BY <4>1 DEF OrderInv, Stamped
      <4> QED
        BY <2>2, <4>1, <4>2 DEF OrderInv
    <3> QED
      BY <3>1, <3>2
  <2>7. PerCpuOrder'
    BY <2>2 DEF OrderInv, PerCpuOrder
  <2> QED
    BY <2>3, <2>5, <2>6, <2>7 DEF OrderInv
<1>3. ASSUME NEW c \in CPUS, NEW l \in {"idle", "load", "store"},
             pc' = [pc EXCEPT ![c] = l], UNCHANGED <<clock, delivered>>,
             ev' = [ev EXCEPT ![c] = NoEvent] \/ ev' = ev
      PROVE  OrderInv'
  <2>1. OrderTyped'
    BY <1>0, <1>3 DEF OrderTyped
  <2>2. \A d \in CPUS : pc'[d] = "filled" => pc[d] = "filled" /\ ev'[d] = ev[d]
    BY <1>0, <1>3 DEF OrderTyped
  <2>3. PerCpuOrder'
    BY <1>3 DEF OrderInv, PerCpuOrder
  <2> QED
    BY <1>3, <2>1, <2>2, <2>3 DEF OrderInv
<1>4. ASSUME NEW c \in CPUS, Output(c) PROVE OrderInv'
  <2> DEFINE n == Len(delivered)
  <2>1. /\ ev[c] \in Stamped /\ ev[c].cpu = c /\ ev[c].ts < clock
        /\ \A i \in 1 .. n : delivered[i].cpu = c => delivered[i].ts < ev[c].ts
    BY <1>0, <1>4 DEF Output, OrderInv, OrderTyped
  <2>2. /\ delivered' = Append(delivered, ev[c]) /\ clock' = clock
        /\ pc' = [pc EXCEPT ![c] = "idle"] /\ ev' = [ev EXCEPT ![c] = NoEvent]
    BY <1>4 DEF Output, Discard
  <2>3. OrderTyped'
    BY <1>0, <2>1, <2>2 DEF OrderTyped
  <2>4. /\ n \in Nat /\ DOMAIN delivered' = 1 .. (n + 1)
        /\ DOMAIN delivered = 1 .. n
        /\ \A i \in 1 .. n : delivered'[i] = delivered[i]
        /\ delivered'[n + 1] = ev[c]
    BY <1>0, <2>1, <2>2 DEF OrderTyped
  <2>5. \A i \in DOMAIN delivered' : delivered'[i].ts < clock'
    BY <2>1, <2>2, <2>4 DEF OrderInv
  <2>6. ASSUME NEW d \in CPUS, pc'[d] = "filled"
        PROVE  /\ ev'[d] \in Stamped /\ ev'[d].cpu = d /\ ev'[d].ts < clock'
               /\ \A i \in DOMAIN delivered' :
                     delivered'[i].cpu = d => delivered'[i].ts < ev'[d].ts
    <3>1. d # c /\ pc[d] = "filled" /\ ev'[d] = ev[d]
      BY <1>0, <2>2, <2>6 DEF OrderTyped
    <3>2. \A i \in 1 .. n : delivered'[i].cpu = d => delivered'[i].ts < ev'[d].ts
      BY <2>4, <3>1 DEF OrderInv
    <3> QED
      BY <2>1, <2>2, <2>4, <3>1, <3>2 DEF OrderInv
  <2>7. PerCpuOrder'
    <3> SUFFICES ASSUME NEW i \in 1 .. (n + 1), NEW j \in 1 .. (n + 1), i < j,
                        delivered'[i].cpu = delivered'[j].cpu
                 PROVE  delivered'[i].ts < delivered'[j].ts
      BY <2>4 DEF PerCpuOrder
    <3>1. i \in 1 .. n
      BY <2>4
    <3>2. CASE j = n + 1
      BY <2>1, <2>4, <3>1, <3>2
    <3>3. CASE j # n + 1
      <4>1. j \in 1 .. n
        BY <2>4, <3>3
      <4> QED
        BY <2>4, <3>1, <4>1 DEF OrderInv, PerCpuOrder
    <3> QED
      BY <3>2, <3>3
  <2> QED
    BY <2>3, <2>5, <2>6, <2>7 DEF OrderInv
<1>5. CASE Kernel
  <2>1. ASSUME NEW c \in CPUS, Abandon(c) PROVE OrderInv'
    BY <1>3, <2>1 DEF Abandon, Discard
  <2>2. ASSUME NEW c \in CPUS, OutputFails(c) PROVE OrderInv'
    BY <1>3, <2>2 DEF OutputFails, Discard
  <2>3. ASSUME NEW c \in CPUS, LoadCounter(c) PROVE OrderInv'
    BY <1>3, <2>3 DEF LoadCounter
  <2>4. ASSUME NEW c \in CPUS, StoreCounter(c) PROVE OrderInv'
    BY <1>3, <2>4 DEF StoreCounter
  <2> QED
    BY <1>2, <1>4, <1>5, <2>1, <2>2, <2>3, <2>4 DEF Kernel
<1> QED
  BY <1>1, <1>5

-----------------------------------------------------------------------------
(***************************************************************************)
(* The account of the hits: an event that is delivered, lost to a full     *)
(* ring or still in its program was one hit, and is one of the three only. *)
(***************************************************************************)
hitVars == <<clock, pc, delivered, failed>>

HitsInv == Len(delivered) + failed + Cardinality(InFlight) <= clock

LEMMA InFlightFinite ==
    IsFiniteSet(InFlight) /\ Cardinality(InFlight) \in Nat
<1>1. IsFiniteSet(InFlight)
  BY TracepointsAssumption, FS_Subset DEF InFlight
<1> QED
  BY <1>1, FS_CardinalityType

LEMMA HitsInit == KernelInit => HitsInv
<1> SUFFICES ASSUME KernelInit PROVE HitsInv
  OBVIOUS
<1>1. InFlight = {}
  BY DEF KernelInit, InFlight
<1>2. Cardinality(InFlight) = 0
  BY <1>1, FS_EmptySet
<1> QED
  BY <1>2 DEF KernelInit, HitsInv

LEMMA FlightStarts ==
    ASSUME CounterTyped, NEW c \in CPUS, pc' = [pc EXCEPT ![c] = "filled"],
           pc[c] # "filled"
    PROVE  Cardinality(InFlight') = Cardinality(InFlight) + 1
<1>1. InFlight' = InFlight \cup {c} /\ c \notin InFlight
  BY DEF CounterTyped, InFlight
<1> QED
  BY <1>1, InFlightFinite, FS_AddElement

LEMMA FlightEnds ==
    ASSUME CounterTyped, NEW c \in CPUS, NEW l, pc' = [pc EXCEPT ![c] = l],
           pc[c] = "filled", l # "filled"
    PROVE  Cardinality(InFlight') = Cardinality(InFlight) - 1
<1>1. InFlight' = InFlight \ {c} /\ c \in InFlight
  BY DEF CounterTyped, InFlight
<1> QED
  BY <1>1, InFlightFinite, FS_RemoveElement

LEMMA FlightSame ==
    ASSUME CounterTyped, NEW c \in CPUS, NEW l, pc' = [pc EXCEPT ![c] = l],
           pc[c] # "filled", l # "filled"
    PROVE  InFlight' = InFlight
  BY DEF CounterTyped, InFlight

LEMMA HitsStep ==
    ASSUME OrderInv, CounterInv, HitsInv, Kernel \/ UNCHANGED hitVars
    PROVE  HitsInv'
<1> DEFINE d == Len(delivered)
           f == Cardinality(InFlight)
<1>0. /\ CounterTyped /\ clock \in Nat /\ failed \in Nat /\ d \in Nat /\ f \in Nat
      /\ delivered \in Seq(Stamped)
  BY InFlightFinite, LenProperties DEF OrderInv, OrderTyped, CounterInv, CounterTyped
<1>1. d + failed + f <= clock
  BY DEF HitsInv
<1>2. CASE UNCHANGED hitVars
  <2>1. InFlight' = InFlight
    BY <1>2 DEF hitVars, InFlight
  <2> QED
    BY <1>1, <1>2, <2>1 DEF hitVars, HitsInv
<1>3. ASSUME NEW c \in CPUS, NEW kind, NEW match, Enter(c, kind, match)
      PROVE  HitsInv'
  <2>1. Cardinality(InFlight') = f + 1
    BY <1>0, <1>3, FlightStarts DEF Enter
  <2>2. clock' = clock + 1 /\ UNCHANGED <<delivered, failed>>
    BY <1>3 DEF Enter
  <2> QED
    BY <1>0, <1>1, <2>1, <2>2 DEF HitsInv
<1>4. ASSUME NEW c \in CPUS, Abandon(c) PROVE HitsInv'
  <2>1. Cardinality(InFlight') = f - 1
    BY <1>0, <1>4, FlightEnds DEF Abandon
  <2>2. UNCHANGED <<clock, delivered, failed>>
    BY <1>4 DEF Abandon
  <2> QED
    BY <1>0, <1>1, <2>1, <2>2 DEF HitsInv
<1>5. ASSUME NEW c \in CPUS, Output(c) PROVE HitsInv'
  <2>1. Cardinality(InFlight') = f - 1
    BY <1>0, <1>5, FlightEnds DEF Output
  <2>2. UNCHANGED <<clock, failed>> /\ delivered' = Append(delivered, ev[c])
    BY <1>5 DEF Output
  <2>3. ev[c] \in Stamped
    BY <1>5 DEF Output, OrderInv
  <2>4. Len(delivered') = d + 1
    BY <1>0, <2>2, <2>3, AppendProperties
  <2> QED
    BY <1>0, <1>1, <2>1, <2>2, <2>4 DEF HitsInv
<1>6. ASSUME NEW c \in CPUS, OutputFails(c) PROVE HitsInv'
  <2>1. Cardinality(InFlight') = f - 1
    <3>1. \E l \in {"load", "idle"} : pc' = [pc EXCEPT ![c] = l]
      BY <1>6 DEF OutputFails
    <3> QED
      BY <1>0, <1>6, <3>1, FlightEnds DEF OutputFails
  <2>2. UNCHANGED <<clock, delivered>> /\ failed' = failed + 1
    BY <1>6 DEF OutputFails
  <2> QED
    BY <1>0, <1>1, <2>1, <2>2 DEF HitsInv
<1>7. ASSUME NEW c \in CPUS, LoadCounter(c) \/ StoreCounter(c) PROVE HitsInv'
  <2>1. /\ UNCHANGED <<clock, delivered, failed>> /\ pc[c] # "filled"
        /\ \/ pc' = [pc EXCEPT ![c] = "store"]
           \/ pc' = [pc EXCEPT ![c] = "idle"]
    BY <1>7 DEF LoadCounter, StoreCounter
  <2>2. InFlight' = InFlight
    BY <1>0, <2>1, FlightSame
  <2> QED
    BY <1>1, <2>1, <2>2 DEF HitsInv
<1>8. CASE Kernel
  BY <1>3, <1>4, <1>5, <1>6, <1>7, <1>8 DEF Kernel
<1> QED
  BY <1>2, <1>8

-----------------------------------------------------------------------------
(***************************************************************************)
(* No step of the collector touches what those invariants are about: it    *)
(* only takes records out of the ring and attaches programs.               *)
(***************************************************************************)
LEMMA CollectorLeaves ==
    CollectorStep => UNCHANGED counterVars /\ UNCHANGED orderVars
<1> SUFFICES ASSUME CollectorStep
             PROVE  UNCHANGED counterVars /\ UNCHANGED orderVars
  OBVIOUS
<1> USE DEF counterVars, orderVars, kernelVars
<1>1. CASE Attach       BY <1>1 DEF Attach
<1>2. CASE OpenRing     BY <1>2 DEF OpenRing
<1>3. CASE Fail         BY <1>3 DEF Fail
<1>4. CASE Skip         BY <1>4 DEF Skip, Release
<1>5. CASE Keep         BY <1>5 DEF Keep, Release
<1>6. CASE Empty        BY <1>6 DEF Empty
<1>7. CASE Wake         BY <1>7 DEF Wake
<1>8. CASE WriteReport  BY <1>8 DEF WriteReport
<1> QED
  BY <1>1, <1>2, <1>3, <1>4, <1>5, <1>6, <1>7, <1>8 DEF CollectorStep

LEMMA StepOfNext ==
    [Next]_vars => Kernel \/ (UNCHANGED counterVars /\ UNCHANGED orderVars)
<1>1. UNCHANGED vars => UNCHANGED counterVars /\ UNCHANGED orderVars
  BY DEF vars, kernelVars, counterVars, orderVars
<1> QED
  BY <1>1, CollectorLeaves DEF Next

(***************************************************************************)
(* However many CPUs race on the counter, and whatever increments are      *)
(* lost: once none is under way it is zero if and only if no output        *)
(* failed, and it is never above the number of failures.                   *)
(***************************************************************************)
THEOREM FailuresStayVisible == SafetySpec => []FailuresVisible
<1>1. Init => CounterInv
  BY CounterInit DEF Init
<1>2. CounterInv /\ [Next]_vars => CounterInv'
  BY StepOfNext, CounterStep
<1>3. CounterInv => FailuresVisible
  BY CounterVisible
<1> QED
  BY <1>1, <1>2, <1>3, PTL DEF SafetySpec

(***************************************************************************)
(* Whatever the interleaving of the CPUs, the events of one CPU enter the  *)
(* ring in the order of their time stamps.                                 *)
(***************************************************************************)
THEOREM EventsInOrder == SafetySpec => []PerCpuOrder
<1>1. Init => OrderInv
  BY OrderInit DEF Init
<1>2. OrderInv /\ [Next]_vars => OrderInv'
  BY StepOfNext, OrderStep
<1>3. OrderInv => PerCpuOrder
  BY DEF OrderInv
<1> QED
  BY <1>1, <1>2, <1>3, PTL DEF SafetySpec

-----------------------------------------------------------------------------
(***************************************************************************)
(* What KeptOf and Elements do with one more event.  IsKept(f, es, S) says *)
(* what the recursive function inside KeptOf is.                           *)
(***************************************************************************)
IsKept(f, es, S) ==
    /\ f \in [0 .. Len(es) -> Seq(S)]
    /\ f[0] = << >>
    /\ \A n \in 1 .. Len(es) :
          f[n] = IF should_keep_event(es[n]) THEN Append(f[n - 1], es[n])
                 ELSE f[n - 1]

LEMMA KeptRun ==
    ASSUME NEW S, NEW es \in Seq(S)
    PROVE  \E f : IsKept(f, es, S) /\ KeptOf(es) = f[Len(es)]
<1> DEFINE N == Len(es)
           Step(n, t) == IF should_keep_event(es[n]) THEN Append(t, es[n]) ELSE t
           G == [n \in 1 .. N |-> [t \in Seq(S) |-> Step(n, t)]]
           Fix(f) == f = [n \in 0 .. Len(es) |->
                            IF n = 0 THEN << >>
                            ELSE IF should_keep_event(es[n])
                                 THEN Append(f[n - 1], es[n])
                            ELSE f[n - 1]]
           D == CHOOSE f : Fix(f)
<1>1. N \in Nat /\ \A n \in 1 .. N : es[n] \in S
  BY LenProperties, ElementOfSeq
<1>2. ASSUME NEW n \in 1 .. N, NEW t \in Seq(S) PROVE Step(n, t) \in Seq(S)
  BY <1>1, AppendProperties
<1>3. G \in [1 .. N -> [Seq(S) -> Seq(S)]] /\ << >> \in Seq(S)
  BY <1>2, EmptySeq
<1>4. PICK f \in [0 .. N -> Seq(S)] : IsLoop(f, N, << >>, G)
  BY <1>1, <1>3, LoopExists
<1> HIDE DEF Step
<1>5. \A n \in 1 .. N : f[n - 1] \in Seq(S) /\ f[n] = Step(n, f[n - 1])
  <2>1. ASSUME NEW n \in 1 .. N
        PROVE f[n - 1] \in Seq(S) /\ f[n] = Step(n, f[n - 1])
    <3>1. n - 1 \in 0 .. N
      BY <1>1
    <3>2. f[n - 1] \in Seq(S) /\ f[n] = G[n][f[n - 1]]
      BY <1>4, <3>1 DEF IsLoop
    <3> QED
      BY <3>2
  <2> QED
    BY <2>1
<1>6. f = [n \in 0 .. N |-> IF n = 0 THEN << >> ELSE Step(n, f[n - 1])]
  BY <1>1, <1>4, <1>5 DEF IsLoop
<1>7. Fix(f)
  BY <1>6 DEF Step
<1>8. Fix(D)
  BY <1>7
<1>9. KeptOf(es) = D[Len(es)]
  BY DEF KeptOf
<1> HIDE DEF D
<1>10. ASSUME NEW g, Fix(g), NEW n \in 1 .. N PROVE g[n] = Step(n, g[n - 1])
  <2> DEFINE Body(k) == IF k = 0 THEN << >> ELSE Step(k, g[k - 1])
  <2>1. g = [k \in 0 .. N |-> Body(k)]
    BY <1>10 DEF Step
  <2> HIDE DEF Body
  <2>2. g[n] = Body(n)
    BY <1>1, <2>1
  <2> QED
    BY <1>1, <2>2 DEF Body
<1>11. D = f
  <2> DEFINE T == {n \in Nat : n <= N /\ D[n] # f[n]}
  <2>1. T = {}
    <3>1. SUFFICES ASSUME T # {} PROVE FALSE
      OBVIOUS
    <3>2. PICK m \in T : \A k \in T : m <= k
      BY <3>1, NatMinimum
    <3>3. m # 0
      BY <1>1, <1>7, <1>8, <3>2
    <3>4. m - 1 \in Nat /\ m - 1 \notin T /\ m \in 1 .. N
      BY <1>1, <3>2, <3>3
    <3>5. D[m] = Step(m, D[m - 1]) /\ f[m] = Step(m, f[m - 1])
      BY <1>7, <1>8, <1>10, <3>4
    <3> QED
      BY <3>2, <3>4, <3>5
  <2>2. \A n \in 0 .. N : D[n] = f[n]
    BY <1>1, <2>1
  <2> QED
    BY <1>7, <1>8, <2>2
<1>12. IsKept(f, es, S)
  BY <1>4, <1>5 DEF IsKept, IsLoop, Step
<1> QED
  BY <1>9, <1>11, <1>12

LEMMA KeptTyped ==
    ASSUME NEW S, NEW es \in Seq(S)
    PROVE  KeptOf(es) \in Seq(S)
<1>1. PICK f : IsKept(f, es, S) /\ KeptOf(es) = f[Len(es)]
  BY KeptRun
<1>2. Len(es) \in 0 .. Len(es)
  BY LenProperties
<1> QED
  BY <1>1, <1>2 DEF IsKept

LEMMA KeptEmpty == KeptOf(<< >>) = << >>
<1>1. << >> \in Seq({}) /\ Len(<< >>) = 0
  BY EmptySeq
<1>2. PICK f : IsKept(f, << >>, {}) /\ KeptOf(<< >>) = f[Len(<< >>)]
  BY <1>1, KeptRun
<1> QED
  BY <1>1, <1>2 DEF IsKept

LEMMA KeptAppend ==
    ASSUME NEW S, NEW es \in Seq(S), NEW e \in S
    PROVE  KeptOf(Append(es, e)) = IF should_keep_event(e)
                                   THEN Append(KeptOf(es), e) ELSE KeptOf(es)
<1> DEFINE ds == Append(es, e)
           n == Len(es)
<1>1. /\ n \in Nat /\ ds \in Seq(S) /\ Len(ds) = n + 1 /\ Len(es) = n
      /\ \A i \in 1 .. n : ds[i] = es[i]
      /\ ds[n + 1] = e
  BY LenProperties, AppendProperties
<1> HIDE DEF ds
<1>2. PICK f : IsKept(f, es, S) /\ KeptOf(es) = f[n]
  BY KeptRun
<1>3. PICK g : IsKept(g, ds, S) /\ KeptOf(ds) = g[n + 1]
  BY <1>1, KeptRun
<1> HIDE DEF n
<1>4. g[n] = f[n]
  <2> DEFINE T == {k \in Nat : k <= n /\ f[k] # g[k]}
  <2>1. T = {}
    <3>1. SUFFICES ASSUME T # {} PROVE FALSE
      OBVIOUS
    <3>2. PICK m \in T : \A k \in T : m <= k
      BY <3>1, NatMinimum
    <3>3. m # 0
      BY <1>2, <1>3, <3>2 DEF IsKept
    <3>4. m - 1 \in Nat /\ m - 1 \notin T /\ m \in 1 .. n
      BY <1>1, <3>2, <3>3
    <3>5. m \in 1 .. Len(es) /\ m \in 1 .. Len(ds) /\ ds[m] = es[m]
      BY <1>1, <3>4
    <3>6. /\ f[m] = IF should_keep_event(es[m]) THEN Append(f[m - 1], es[m])
                    ELSE f[m - 1]
          /\ g[m] = IF should_keep_event(es[m]) THEN Append(g[m - 1], es[m])
                    ELSE g[m - 1]
      BY <1>2, <1>3, <3>5 DEF IsKept
    <3>7. f[m - 1] = g[m - 1]
      BY <1>1, <3>2, <3>4
    <3>8. f[m] = g[m]
      BY <3>6, <3>7
    <3> QED
      BY <3>2, <3>8
  <2> QED
    BY <1>1, <2>1
<1>5. g[n + 1] = IF should_keep_event(e) THEN Append(g[n], e) ELSE g[n]
  <2>1. n + 1 \in 1 .. Len(ds) /\ (n + 1) - 1 = n
    BY <1>1
  <2> QED
    BY <1>1, <1>3, <2>1 DEF IsKept
<1> QED
  BY <1>2, <1>3, <1>4, <1>5 DEF ds

(***************************************************************************)
(* The events that the tracepoints can produce, and their field elements.  *)
(***************************************************************************)
Event == [kind : Kinds, match : BOOLEAN, cpu : CPUS, ts : 0 .. MaxHits]

LEMMA ElementTyped ==
    ASSUME NEW e \in Event
    PROVE  /\ to_field_element(e) \in Nat
           /\ to_field_element(e) \in {Hash[t] % P : t \in 0 .. MaxHits}
<1>1. e.ts \in 0 .. MaxHits
  BY DEF Event
<1>2. Hash[e.ts] \in Nat
  BY <1>1, CollectorAssumption
<1>3. Hash[e.ts] % P \in Nat
  <2>1. PICK h \in Int : h = Hash[e.ts]
    BY <1>2
  <2> QED
    BY <2>1, ResidueInField, FieldIsNat
<1> QED
  BY <1>1, <1>3 DEF to_field_element

LEMMA ElementsTyped ==
    ASSUME NEW es \in Seq(Event)
    PROVE  /\ Elements(es) \in Seq(Nat) /\ Len(Elements(es)) = Len(es)
           /\ \A i \in 1 .. Len(es) : Elements(es)[i] = to_field_element(es[i])
<1>1. DOMAIN es = 1 .. Len(es) /\ Len(es) \in Nat
  BY LenProperties
<1>2. \A i \in 1 .. Len(es) : to_field_element(es[i]) \in Nat
  BY ElementOfSeq, ElementTyped
<1>3. Elements(es) \in [1 .. Len(es) -> Nat]
  BY <1>1, <1>2 DEF Elements
<1>4. Elements(es) \in Seq(Nat)
  BY <1>1, <1>3, SeqDef
<1>5. Len(Elements(es)) = Len(es)
  BY <1>1, <1>3, <1>4, LenProperties
<1> QED
  BY <1>1, <1>4, <1>5 DEF Elements

LEMMA ElementsEmpty == Elements(<< >>) = << >>
<1>1. << >> \in Seq(Event) /\ Len(<< >>) = 0
  BY EmptySeq
<1>2. Elements(<< >>) \in Seq(Nat) /\ Len(Elements(<< >>)) = 0
  BY <1>1, ElementsTyped
<1> QED
  BY <1>2, EmptySeq

LEMMA ElementsAppend ==
    ASSUME NEW es \in Seq(Event), NEW e \in Event
    PROVE  /\ Elements(es) \in Seq(Nat) /\ Len(Elements(es)) = Len(es)
           /\ Elements(Append(es, e)) = Append(Elements(es), to_field_element(e))
<1> DEFINE ds == Append(es, e)
           n == Len(es)
           x == to_field_element(e)
<1>2. /\ ds \in Seq(Event) /\ Len(ds) = n + 1 /\ n \in Nat /\ ds[n + 1] = e
      /\ \A i \in 1 .. n : ds[i] = es[i]
  BY LenProperties, AppendProperties
<1>3. x \in Nat
  BY ElementTyped
<1> HIDE DEF ds, x
<1>4. /\ Elements(es) \in Seq(Nat) /\ Len(Elements(es)) = n
      /\ Elements(ds) \in Seq(Nat) /\ Len(Elements(ds)) = n + 1
      /\ \A i \in 1 .. n : Elements(es)[i] = to_field_element(es[i])
      /\ \A i \in 1 .. (n + 1) : Elements(ds)[i] = to_field_element(ds[i])
  BY <1>2, ElementsTyped
<1>5. /\ Append(Elements(es), x) \in Seq(Nat)
      /\ Len(Append(Elements(es), x)) = n + 1
      /\ \A i \in 1 .. n : Append(Elements(es), x)[i] = Elements(es)[i]
      /\ Append(Elements(es), x)[n + 1] = x
  BY <1>3, <1>4, AppendProperties
<1>6. \A i \in 1 .. (n + 1) : Elements(ds)[i] = Append(Elements(es), x)[i]
  <2> SUFFICES ASSUME NEW i \in 1 .. (n + 1)
               PROVE  Elements(ds)[i] = Append(Elements(es), x)[i]
    OBVIOUS
  <2>1. CASE i = n + 1
    BY <1>2, <1>4, <1>5, <2>1 DEF x
  <2>2. CASE i # n + 1
    <3>1. i \in 1 .. n
      BY <1>2, <2>2
    <3> QED
      BY <1>2, <1>4, <1>5, <3>1
  <2> QED
    BY <2>1, <2>2
<1>7. Elements(ds) = Append(Elements(es), x)
  BY <1>4, <1>5, <1>6, SeqEqual
<1> QED
  BY <1>4, <1>7 DEF ds, x

-----------------------------------------------------------------------------
(***************************************************************************)
(* The ring is the part of the history of outputs that the collector has   *)
(* not taken yet, and everything in it and on its way to it is an event.   *)
(***************************************************************************)
EventInv ==
    /\ clock \in 0 .. MaxHits
    /\ pc \in [CPUS -> {"idle", "filled", "load", "store"}]
    /\ ev \in [CPUS -> Event \cup {NoEvent}]
    /\ \A c \in CPUS : pc[c] = "filled" => ev[c] \in Event
    /\ delivered \in Seq(Event)
    /\ ring \in Seq(Event)
    /\ Len(ring) <= Len(delivered)
    /\ \A i \in 1 .. Len(ring) : ring[i] = delivered[ConsumedCount + i]

Taken == <<Consumed, ConsumedCount>>

LEMMA EventInit == Init => EventInv
  BY TracepointsAssumption, EmptySeq
     DEF Init, KernelInit, EventInv, ConsumedCount

LEMMA ConsumedTyped ==
    ASSUME EventInv
    PROVE  /\ ConsumedCount \in 0 .. Len(delivered)
           /\ Consumed \in Seq(Event) /\ Len(Consumed) = ConsumedCount
<1>1. /\ Len(delivered) \in Nat /\ Len(ring) \in Nat
      /\ Len(ring) <= Len(delivered) /\ delivered \in Seq(Event)
  BY LenProperties DEF EventInv
<1>2. PICK n \in 0 .. Len(delivered) : n = ConsumedCount
  BY <1>1 DEF ConsumedCount
<1>3. \A i \in 1 .. n : delivered[i] \in Event
  BY <1>1, ElementOfSeq
<1>4. /\ SubSeq(delivered, 1, n) \in Seq(Event)
      /\ Len(SubSeq(delivered, 1, n)) = IF 1 <= n THEN n - 1 + 1 ELSE 0
  BY <1>3, SubSeqProperties
<1>5. (IF 1 <= n THEN n - 1 + 1 ELSE 0) = n
  OBVIOUS
<1> QED
  BY <1>2, <1>4, <1>5 DEF Consumed

LEMMA EventQuiet ==
    ASSUME EventInv, clock' \in 0 .. MaxHits,
           pc' \in [CPUS -> {"idle", "filled", "load", "store"}],
           ev' \in [CPUS -> Event \cup {NoEvent}],
           \A c \in CPUS : pc'[c] = "filled" => ev'[c] \in Event,
           UNCHANGED <<ring, delivered>>
    PROVE  EventInv' /\ UNCHANGED Taken
  BY DEF EventInv, Taken, Consumed, ConsumedCount

LEMMA EventOutput ==
    ASSUME EventInv, NEW c \in CPUS, Output(c)
    PROVE  EventInv' /\ UNCHANGED Taken
<1> DEFINE d == Len(delivered)
           r == Len(ring)
           n == ConsumedCount
<1>1. /\ d \in Nat /\ r \in Nat /\ r <= d /\ n = d - r /\ n \in 0 .. d
      /\ delivered \in Seq(Event) /\ ring \in Seq(Event)
  BY LenProperties DEF EventInv, ConsumedCount
<1>2. PICK e \in Event : e = ev[c]
  BY DEF EventInv, Output
<1>3. /\ ring' = Append(ring, e) /\ delivered' = Append(delivered, e)
      /\ pc' = [pc EXCEPT ![c] = "idle"] /\ ev' = [ev EXCEPT ![c] = NoEvent]
      /\ clock' = clock
  BY <1>2 DEF Output, Discard
<1>4. /\ ring' \in Seq(Event) /\ Len(ring') = r + 1 /\ ring'[r + 1] = e
      /\ \A i \in 1 .. r : ring'[i] = ring[i]
  BY <1>1, <1>3, AppendProperties
<1>5. /\ delivered' \in Seq(Event) /\ Len(delivered') = d + 1
      /\ delivered'[d + 1] = e
      /\ \A i \in 1 .. d : delivered'[i] = delivered[i]
  BY <1>1, <1>3, AppendProperties
<1>6. ConsumedCount' = n
  BY <1>1, <1>4, <1>5 DEF ConsumedCount
<1>7. \A i \in 1 .. r : ring[i] = delivered[n + i]
  BY DEF EventInv
<1> HIDE DEF d, r, n
<1>8. \A i \in 1 .. (r + 1) : ring'[i] = delivered'[n + i]
  <2> SUFFICES ASSUME NEW i \in 1 .. (r + 1)
               PROVE  ring'[i] = delivered'[n + i]
    OBVIOUS
  <2>1. CASE i = r + 1
    <3>1. n + i = d + 1
      BY <1>1, <2>1
    <3> QED
      BY <1>4, <1>5, <2>1, <3>1
  <2>2. CASE i # r + 1
    <3>1. i \in 1 .. r /\ n + i \in 1 .. d
      BY <1>1, <2>2
    <3> QED
      BY <1>4, <1>5, <1>7, <3>1
  <2> QED
    BY <2>1, <2>2
<1>9. Consumed' = Consumed
  <2>1. PICK m \in 0 .. Len(delivered) : m = n
    BY <1>1 DEF d
  <2>2. SubSeq(Append(delivered, e), 1, m) = SubSeq(delivered, 1, m)
    <3>1. delivered \in Seq(Event)
      BY <1>1
    <3> QED
      BY <3>1, SubSeqOfAppend, ZenonT(30)
  <2> QED
    BY <1>3, <1>6, <2>1, <2>2 DEF Consumed, n
<1>10. /\ pc' \in [CPUS -> {"idle", "filled", "load", "store"}]
       /\ ev' \in [CPUS -> Event \cup {NoEvent}]
       /\ \A b \in CPUS : pc'[b] = "filled" => ev'[b] \in Event
  BY <1>3 DEF EventInv
<1>11. /\ Len(ring') = r + 1 /\ ConsumedCount' = n
       /\ Len(ring') <= Len(delivered')
  BY <1>1, <1>4, <1>5, <1>6
<1>12. clock' \in 0 .. MaxHits
  BY <1>3 DEF EventInv
<1> QED
  BY <1>4, <1>5, <1>6, <1>8, <1>9, <1>10, <1>11, <1>12 DEF EventInv, Taken, n

LEMMA EventRelease ==
    ASSUME EventInv, HasItem, Release
    PROVE  /\ EventInv'
           /\ Head(ring) \in Event
           /\ Consumed' = Append(Consumed, Head(ring))
           /\ ConsumedCount' = ConsumedCount + 1
<1> DEFINE d == Len(delivered)
           r == Len(ring)
           n == ConsumedCount
           e == Head(ring)
<1>1. /\ d \in Nat /\ r \in Nat /\ r <= d /\ n = d - r /\ r > 0
      /\ delivered \in Seq(Event) /\ ring \in Seq(Event) /\ ring # << >>
      /\ n \in Nat /\ n + 1 \in 1 .. d
  BY LenProperties, EmptySeq DEF EventInv, ConsumedCount, HasItem
<1>2. /\ ring' = Tail(ring) /\ delivered' = delivered
      /\ UNCHANGED <<clock, pc, ev>>
  BY DEF Release
<1>3. /\ e \in Event /\ ring' \in Seq(Event) /\ Len(ring') = r - 1
      /\ \A i \in 1 .. (r - 1) : ring'[i] = ring[i + 1]
  BY <1>1, <1>2, HeadTailProperties
<1>4. ConsumedCount' = n + 1
  BY <1>1, <1>2, <1>3 DEF ConsumedCount
<1>5. e = delivered[n + 1]
  <2>1. 1 \in 1 .. r /\ e = ring[1]
    BY <1>1
  <2> QED
    BY <2>1 DEF EventInv
<1>6. \A i \in 1 .. (r - 1) : ring'[i] = delivered[(n + 1) + i]
  <2> SUFFICES ASSUME NEW i \in 1 .. (r - 1)
               PROVE  ring'[i] = delivered[(n + 1) + i]
    OBVIOUS
  <2>1. i + 1 \in 1 .. r /\ n + (i + 1) = (n + 1) + i
    BY <1>1
  <2>2. ring[i + 1] = delivered[n + (i + 1)]
    BY <2>1 DEF EventInv
  <2> QED
    BY <1>3, <2>1, <2>2
<1> HIDE DEF d, r, n, e
<1>7. Consumed' = Append(Consumed, e)
  <2>1. PICK m \in Nat : m = n /\ m + 1 \in 1 .. Len(delivered)
    BY <1>1 DEF d
  <2>2. SubSeq(delivered, 1, m + 1)
            = SubSeq(delivered, 1, (m + 1) - 1) \o <<delivered[m + 1]>>
    <3>1. 1 \in 1 .. Len(delivered) /\ m + 1 \in 1 .. Len(delivered)
      BY <2>1
    <3> QED
      BY <1>1, <3>1, SubSeqRecursiveSecond
  <2>3. Consumed \in Seq(Event)
    BY ConsumedTyped
  <2>4. Consumed \o <<e>> = Append(Consumed, e)
    BY <1>3, <2>3, AppendIsConcat
  <2>5. (m + 1) - 1 = m
    OBVIOUS
  <2> QED
    BY <1>2, <1>4, <1>5, <2>1, <2>2, <2>4, <2>5 DEF Consumed, n
<1>8. EventInv'
  <2>1. Len(ring') <= Len(delivered')
    BY <1>1, <1>2, <1>3 DEF d
  <2>2. \A i \in 1 .. Len(ring') : ring'[i] = delivered'[ConsumedCount' + i]
    BY <1>2, <1>3, <1>4, <1>6, Zenon
  <2> QED
    BY <1>2, <1>3, <2>1, <2>2 DEF EventInv
<1> QED
  BY <1>3, <1>4, <1>7, <1>8 DEF e, n

LEMMA EventKernel == ASSUME EventInv, Kernel PROVE EventInv' /\ UNCHANGED Taken
<1>0. /\ clock \in 0 .. MaxHits
      /\ pc \in [CPUS -> {"idle", "filled", "load", "store"}]
      /\ ev \in [CPUS -> Event \cup {NoEvent}]
      /\ \A c \in CPUS : pc[c] = "filled" => ev[c] \in Event
  BY DEF EventInv
<1>1. ASSUME NEW c \in CPUS, NEW kind \in Kinds, NEW match \in BOOLEAN,
             Enter(c, kind, match)
      PROVE  EventInv' /\ UNCHANGED Taken
  <2> DEFINE e == [kind |-> kind, match |-> match, cpu |-> c, ts |-> clock]
  <2>1. e \in Event
    BY <1>0 DEF Event
  <2>2. /\ clock' = clock + 1 /\ clock < MaxHits /\ UNCHANGED <<ring, delivered>>
        /\ ev' = [ev EXCEPT ![c] = e] /\ pc' = [pc EXCEPT ![c] = "filled"]
    BY <1>1 DEF Enter
  <2> HIDE DEF e
  <2>3. clock' \in 0 .. MaxHits
    BY <1>0, <2>2, TracepointsAssumption
  <2>4. /\ pc' \in [CPUS -> {"idle", "filled", "load", "store"}]
        /\ ev' \in [CPUS -> Event \cup {NoEvent}]
        /\ \A b \in CPUS : pc'[b] = "filled" => ev'[b] \in Event
    BY <1>0, <2>1, <2>2
  <2> QED
    BY <2>2, <2>3, <2>4, EventQuiet
<1>2. ASSUME NEW c \in CPUS, NEW l \in {"idle", "load", "store"},
             pc' = [pc EXCEPT ![c] = l], UNCHANGED <<clock, ring, delivered>>,
             ev' = [ev EXCEPT ![c] = NoEvent] \/ ev' = ev
      PROVE  EventInv' /\ UNCHANGED Taken
  <2>1. /\ pc' \in [CPUS -> {"idle", "filled", "load", "store"}]
        /\ ev' \in [CPUS -> Event \cup {NoEvent}]
        /\ \A b \in CPUS : pc'[b] = "filled" => ev'[b] \in Event
        /\ clock' \in 0 .. MaxHits
    BY <1>0, <1>2
  <2> QED
    BY <1>2, <2>1, EventQuiet
<1>3. ASSUME NEW c \in CPUS, Abandon(c) PROVE EventInv' /\ UNCHANGED Taken
  BY <1>2, <1>3 DEF Abandon, Discard
<1>4. ASSUME NEW c \in CPUS, OutputFails(c) PROVE EventInv' /\ UNCHANGED Taken
  BY <1>2, <1>4 DEF OutputFails, Discard
<1>5. ASSUME NEW c \in CPUS, LoadCounter(c) PROVE EventInv' /\ UNCHANGED Taken
  BY <1>2, <1>5 DEF LoadCounter
<1>6. ASSUME NEW c \in CPUS, StoreCounter(c) PROVE EventInv' /\ UNCHANGED Taken
  BY <1>2, <1>6 DEF StoreCounter
<1> QED
  BY <1>1, <1>3, <1>4, <1>5, <1>6, EventOutput DEF Kernel

(***************************************************************************)
(* What a step does to the events taken from the ring and to the state     *)
(* that accounts for them: nothing, unless it is Skip or Keep.             *)
(***************************************************************************)
accounts == <<ks, kept_events, skipped_events, first_events, last_events>>

Idle == UNCHANGED accounts /\ UNCHANGED Taken

LEMMA StepCases ==
    ASSUME EventInv, [Next]_vars
    PROVE  EventInv' /\ (Idle \/ (cpc = "drain" /\ (Skip \/ Keep)))
<1>0. ASSUME UNCHANGED <<clock, pc, ev, ring, delivered>>
      PROVE  EventInv' /\ UNCHANGED Taken
  BY <1>0, EventQuiet DEF EventInv
<1> USE DEF accounts, kernelVars
<1>1. CASE Kernel /\ UNCHANGED collectorVars
  BY <1>1, EventKernel DEF Idle, collectorVars
<1>2. CASE Attach       BY <1>0, <1>2 DEF Attach, Idle
<1>3. CASE OpenRing     BY <1>0, <1>3 DEF OpenRing, Idle
<1>4. CASE Fail         BY <1>0, <1>4 DEF Fail, Idle
<1>5. CASE Skip         BY <1>5, EventRelease DEF Skip
<1>6. CASE Keep         BY <1>6, EventRelease DEF Keep
<1>7. CASE Empty        BY <1>0, <1>7 DEF Empty, Idle
<1>8. CASE Wake         BY <1>0, <1>8 DEF Wake, Idle
<1>9. CASE WriteReport  BY <1>0, <1>9 DEF WriteReport, Idle
<1>10. CASE UNCHANGED vars
  BY <1>0, <1>10 DEF vars, collectorVars, Idle
<1> QED
  BY <1>1, <1>2, <1>3, <1>4, <1>5, <1>6, <1>7, <1>8, <1>9, <1>10
     DEF Next, CollectorStep

LEMMA KeptOfSkip ==
    ASSUME EventInv, Skip
    PROVE  /\ Kept' = Kept /\ ConsumedCount' = ConsumedCount + 1
           /\ Kept \in Seq(Event)
<1>1. /\ Head(ring) \in Event /\ Consumed \in Seq(Event)
      /\ Consumed' = Append(Consumed, Head(ring))
      /\ ConsumedCount' = ConsumedCount + 1 /\ ~ should_keep_event(Head(ring))
  BY EventRelease, ConsumedTyped DEF Skip
<1> QED
  BY <1>1, KeptAppend, KeptTyped DEF Kept

LEMMA KeptOfKeep ==
    ASSUME EventInv, Keep
    PROVE  /\ Kept' = Append(Kept, Head(ring)) /\ Head(ring) \in Event
           /\ ConsumedCount' = ConsumedCount + 1
           /\ Kept \in Seq(Event)
           /\ Consumed'[ConsumedCount'] = Head(ring)
<1>1. /\ Head(ring) \in Event /\ Consumed \in Seq(Event)
      /\ Consumed' = Append(Consumed, Head(ring))
      /\ ConsumedCount' = ConsumedCount + 1 /\ should_keep_event(Head(ring))
      /\ Len(Consumed) = ConsumedCount
  BY EventRelease, ConsumedTyped DEF Keep
<1>2. Append(Consumed, Head(ring))[Len(Consumed) + 1] = Head(ring)
  BY <1>1, AppendProperties
<1>3. KeptOf(Append(Consumed, Head(ring))) = Append(KeptOf(Consumed), Head(ring))
  BY <1>1, KeptAppend
<1> QED
  BY <1>1, <1>2, <1>3, KeptTyped DEF Kept

-----------------------------------------------------------------------------
(***************************************************************************)
(* The account of what was taken out of the ring: every event is in the    *)
(* digest or counted as skipped.  It holds in wrapping builds too.         *)
(***************************************************************************)
AccountInv ==
    /\ EventInv
    /\ kept_events = Len(Kept)
    /\ skipped_events = ConsumedCount - Len(Kept)

LEMMA AccountTyped ==
    ASSUME EventInv
    PROVE  /\ Kept \in Seq(Event) /\ Len(Kept) \in Nat
           /\ ConsumedCount \in Nat
<1>1. Consumed \in Seq(Event) /\ ConsumedCount \in Nat
  BY ConsumedTyped, LenProperties DEF EventInv
<1>2. Kept \in Seq(Event)
  BY <1>1, KeptTyped DEF Kept
<1> QED
  BY <1>1, <1>2, LenProperties

LEMMA IdleKept == Idle => Kept' = Kept /\ ConsumedCount' = ConsumedCount
  BY DEF Idle, Taken, Kept

LEMMA AccountInit == Init => AccountInv
<1> SUFFICES ASSUME Init PROVE AccountInv
  OBVIOUS
<1>1. EventInv
  BY EventInit
<1>2. ConsumedCount = 0 /\ kept_events = 0 /\ skipped_events = 0
  BY EmptySeq DEF Init, KernelInit, ConsumedCount
<1>3. Consumed = << >>
  <2>1. Consumed \in Seq(Event) /\ Len(Consumed) = 0
    BY <1>1, <1>2, ConsumedTyped
  <2> QED
    BY <2>1, EmptySeq
<1>4. Len(Kept) = 0
  BY <1>3, KeptEmpty, EmptySeq DEF Kept
<1> QED
  BY <1>1, <1>2, <1>4 DEF AccountInv

LEMMA AccountStep == AccountInv /\ [Next]_vars => AccountInv'
<1> SUFFICES ASSUME AccountInv, [Next]_vars PROVE AccountInv'
  OBVIOUS
<1>0. EventInv /\ Len(Kept) \in Nat /\ ConsumedCount \in Nat /\ Kept \in Seq(Event)
  BY AccountTyped DEF AccountInv
<1>1. EventInv' /\ (Idle \/ (cpc = "drain" /\ (Skip \/ Keep)))
  BY <1>0, StepCases
<1>2. CASE Idle
  BY <1>1, <1>2, IdleKept DEF AccountInv, Idle, accounts
<1>3. CASE Skip
  <2>1. Kept' = Kept /\ ConsumedCount' = ConsumedCount + 1
    BY <1>0, <1>3, KeptOfSkip
  <2>2. kept_events' = kept_events /\ skipped_events' = skipped_events + 1
    BY <1>3 DEF Skip
  <2> QED
    BY <1>0, <1>1, <2>1, <2>2 DEF AccountInv
<1>4. CASE Keep
  <2>1. /\ Kept' = Append(Kept, Head(ring)) /\ Head(ring) \in Event
        /\ ConsumedCount' = ConsumedCount + 1
    BY <1>0, <1>4, KeptOfKeep
  <2>2. kept_events' = kept_events + 1 /\ skipped_events' = skipped_events
    BY <1>4 DEF Keep
  <2>3. Len(Kept') = Len(Kept) + 1
    BY <1>0, <2>1, AppendProperties
  <2> QED
    BY <1>0, <1>1, <2>1, <2>2, <2>3 DEF AccountInv
<1> QED
  BY <1>1, <1>2, <1>3, <1>4

LEMMA AccountAlways == SafetySpec => []AccountInv
  BY AccountInit, AccountStep, PTL DEF SafetySpec

(***************************************************************************)
(* However many CPUs, however small the ring and whatever the policy       *)
(* skips: no hit of a tracepoint shows up in two of the places an event    *)
(* can end in.  The counter of failures is there at most the failures      *)
(* (CounterInv); the rest is the account of the hits.                      *)
(***************************************************************************)
THEOREM CountedOnce == SafetySpec => []NothingCountedTwice
<1> DEFINE Inv == OrderInv /\ CounterInv /\ HitsInv
<1>1. Init => Inv
  BY OrderInit, CounterInit, HitsInit DEF Init
<1>2. Inv /\ [Next]_vars => Inv'
  <2>1. [Next]_vars => Kernel \/ (/\ UNCHANGED counterVars
                                  /\ UNCHANGED orderVars
                                  /\ UNCHANGED hitVars)
    BY StepOfNext DEF counterVars, orderVars, hitVars
  <2> QED
    BY <2>1, OrderStep, CounterStep, HitsStep
<1>3. Inv /\ AccountInv => NothingCountedTwice
  <2> SUFFICES ASSUME Inv, AccountInv PROVE NothingCountedTwice
    OBVIOUS
  <2>1. /\ failures \in Nat /\ failed \in Nat /\ failures <= failed
    BY CountingFinite DEF CounterInv, CounterTyped
  <2>2. /\ Len(delivered) \in Nat /\ Len(ring) \in Nat /\ Len(Kept) \in Nat
        /\ kept_events = Len(Kept)
        /\ skipped_events = (Len(delivered) - Len(ring)) - Len(Kept)
    BY AccountTyped, LenProperties DEF AccountInv, EventInv, ConsumedCount
  <2>3. /\ Len(delivered) + failed + Cardinality(InFlight) <= clock
        /\ Cardinality(InFlight) \in Nat /\ clock \in Nat
    BY InFlightFinite DEF HitsInv, OrderInv, OrderTyped
  <2> HIDE DEF Inv
  <2>4. kept_events + skipped_events + Len(ring) = Len(delivered)
    BY <2>2
  <2> QED
    BY <2>1, <2>2, <2>3, <2>4 DEF NothingCountedTwice
<1> QED
  BY <1>1, <1>2, <1>3, AccountAlways, PTL DEF SafetySpec

(***************************************************************************)
(* The evidence: the account, and the accumulator in the state that the    *)
(* kept events give it.                                                    *)
(***************************************************************************)
EvidenceInv ==
    /\ AccountInv
    /\ ks \in Struct
    /\ IsStateAfter(ks, Elements(Kept))

LEMMA EvidenceInit == Init => EvidenceInv
<1> SUFFICES ASSUME Init PROVE EvidenceInv
  OBVIOUS
<1>1. AccountInv
  BY AccountInit
<1>2. Kept = << >>
  <2>1. Kept \in Seq(Event) /\ Len(Kept) = 0
    BY <1>1, AccountTyped DEF AccountInv, Init
  <2> QED
    BY <2>1, EmptySeq
<1> QED
  BY <1>1, <1>2, ElementsEmpty, NewTyped, NewIsEmpty DEF EvidenceInv, Init

LEMMA EvidenceStep ==
    ASSUME NoOverflow, EvidenceInv, [Next]_vars
    PROVE  EvidenceInv'
<1>0. EventInv /\ AccountInv /\ ks \in Struct /\ Kept \in Seq(Event)
  BY AccountTyped DEF EvidenceInv, AccountInv
<1>1. AccountInv' /\ (Idle \/ (cpc = "drain" /\ (Skip \/ Keep)))
  BY <1>0, AccountStep, StepCases
<1>2. CASE Idle
  BY <1>1, <1>2, IdleKept DEF EvidenceInv, Idle, accounts
<1>3. CASE Skip
  <2>1. Kept' = Kept /\ ks' = ks
    BY <1>0, <1>3, KeptOfSkip DEF Skip
  <2> QED
    BY <1>1, <2>1 DEF EvidenceInv
<1>4. CASE Keep
  <2> DEFINE x == to_field_element(Head(ring))
  <2>1. /\ Kept' = Append(Kept, Head(ring)) /\ Head(ring) \in Event
        /\ ks' = update(ks, x)
    BY <1>0, <1>4, KeptOfKeep DEF Keep
  <2>2. /\ x \in Nat /\ Elements(Kept) \in Seq(Nat)
        /\ Elements(Kept') = Append(Elements(Kept), x)
    BY <1>0, <2>1, ElementTyped, ElementsTyped, ElementsAppend
  <2> HIDE DEF x
  <2>3. ~ UpdateOverflows(ks, x)
    BY <1>0, <2>2, UpdateNeverOverflows
  <2>4. IsStateAfter(update(ks, x), Append(Elements(Kept), x))
    BY <1>0, <2>2, <2>3, UpdateKeepsState DEF EvidenceInv
  <2>5. update(ks, x) \in Struct
    BY <1>0, <2>2, UpdateTyped
  <2> QED
    BY <1>1, <2>1, <2>2, <2>4, <2>5 DEF EvidenceInv
<1> QED
  BY <1>1, <1>2, <1>3, <1>4

LEMMA NoOverflowStays == NoOverflow => []NoOverflow
<1>1. NoOverflow => NoOverflow'
  BY DEF NoOverflow
<1> QED
  BY <1>1, PTL

LEMMA EvidenceAlways == NoOverflow /\ SafetySpec => []EvidenceInv
<1>1. NoOverflow /\ EvidenceInv /\ [Next]_vars => EvidenceInv'
  BY EvidenceStep
<1> QED
  BY <1>1, EvidenceInit, NoOverflowStays, PTL DEF SafetySpec

(***************************************************************************)
(* Where the field fits the word: after any interleaving of the programs   *)
(* and the collector, the digest is the one ksentry_spec gives the kept    *)
(* events in the order they left the ring, and both counters are exact.    *)
(***************************************************************************)
THEOREM EvidenceExact == NoOverflow /\ SafetySpec => []LiveEvidence
<1>1. EvidenceInv => LiveEvidence
  BY DEF EvidenceInv, AccountInv, IsStateAfter, LiveEvidence
<1> QED
  BY <1>1, EvidenceAlways, PTL

-----------------------------------------------------------------------------
(***************************************************************************)
(* The window: the collector asks for events only while it has fewer than  *)
(* Limit, so the event that fills the window is the last one it takes, and *)
(* what it writes down afterwards is its state of that moment.             *)
(***************************************************************************)
Window ==
    /\ cpc \in {"attach", "open", "drain", "sleep", "report", "done", "failed"}
    /\ kept_events <= Limit
    /\ cpc \in {"attach", "open", "drain"} => kept_events < Limit
    /\ cpc \in {"report", "done"} => kept_events = Limit
    /\ kept_events = Limit => should_keep_event(Consumed[ConsumedCount])

Written ==
    cpc = "done" =>
        report = [kept |-> kept_events, skipped |-> skipped_events,
                  digest |-> ks.acc, first |-> first_events, last |-> last_events]

WindowInv == AccountInv /\ Window /\ Written

LEMMA WindowInit == Init => WindowInv
<1> SUFFICES ASSUME Init PROVE WindowInv
  OBVIOUS
<1>1. AccountInv
  BY AccountInit
<1>2. 0 < Limit /\ Limit \in Nat
  BY CollectorAssumption
<1>3. cpc = "attach" /\ kept_events = 0
  BY DEF Init
<1> QED
  BY <1>1, <1>2, <1>3 DEF WindowInv, Window, Written

(***************************************************************************)
(* A step that takes nothing from the ring: it may move the collector on,  *)
(* never to a later point than its count of events allows.                 *)
(***************************************************************************)
LEMMA WindowIdle ==
    ASSUME WindowInv, Idle,
           \/ cpc' = cpc
           \/ cpc = "attach" /\ cpc' = "open"
           \/ cpc = "open" /\ cpc' = "drain"
           \/ cpc' = "failed"
           \/ cpc = "drain" /\ cpc' = "sleep"
           \/ cpc = "sleep" /\ cpc' = "drain" /\ kept_events < Limit
           \/ cpc = "sleep" /\ cpc' = "report" /\ ~ (kept_events < Limit)
           \/ cpc = "report" /\ cpc' = "done"
    PROVE  Window'
<1>1. /\ kept_events' = kept_events /\ ConsumedCount' = ConsumedCount
      /\ Consumed' = Consumed
  BY DEF Idle, accounts, Taken
<1>2. kept_events \in Nat /\ Limit \in Nat
  BY CollectorAssumption, AccountTyped DEF WindowInv, AccountInv
<1>3. kept_events = Limit' => should_keep_event(Consumed[ConsumedCount])
  BY DEF WindowInv, Window
<1> QED
  BY <1>1, <1>2, <1>3 DEF WindowInv, Window

LEMMA WindowKeep ==
    ASSUME WindowInv, Keep
    PROVE  Window' /\ cpc' # "done"
<1>0. EventInv
  BY DEF WindowInv, AccountInv
<1>1. Consumed'[ConsumedCount'] = Head(ring) /\ should_keep_event(Head(ring))
  BY <1>0, KeptOfKeep DEF Keep
<1>2. kept_events' = kept_events + 1 /\ kept_events < Limit
  BY DEF Keep, WindowInv, Window
<1>3. kept_events \in Nat /\ Limit \in Nat
  BY CollectorAssumption, AccountTyped DEF WindowInv, AccountInv
<1>4. cpc' = IF kept_events' >= Limit THEN "sleep" ELSE "drain"
  BY DEF Keep
<1>5. kept_events' <= Limit /\ (cpc' = "drain" => kept_events' < Limit)
  BY <1>2, <1>3, <1>4
<1> QED
  BY <1>1, <1>4, <1>5 DEF Window

LEMMA WindowSkip ==
    ASSUME WindowInv, Skip
    PROVE  Window' /\ cpc' # "done"
<1>1. cpc' = "drain" /\ cpc = "drain" /\ kept_events' = kept_events
  BY DEF Skip
<1>2. kept_events \in Nat /\ Limit \in Nat
  BY CollectorAssumption, AccountTyped DEF WindowInv, AccountInv
<1> QED
  BY <1>1, <1>2 DEF WindowInv, Window

LEMMA WindowStep == WindowInv /\ [Next]_vars => WindowInv'
<1> SUFFICES ASSUME WindowInv, [Next]_vars PROVE WindowInv'
  OBVIOUS
<1>0. AccountInv' /\ EventInv
  BY AccountStep DEF WindowInv, AccountInv
<1> SUFFICES Window' /\ Written'
  BY <1>0 DEF WindowInv
<1>1. Idle \/ Skip \/ Keep
  BY <1>0, StepCases
<1>2. CASE Skip
  BY <1>2, WindowSkip DEF Written
<1>3. CASE Keep
  BY <1>3, WindowKeep DEF Written
<1>4. CASE Idle /\ ~ Skip /\ ~ Keep
  <2>1. \/ cpc' = cpc /\ report' = report
        \/ cpc = "attach" /\ cpc' = "open"
        \/ cpc = "open" /\ cpc' = "drain"
        \/ cpc' = "failed"
        \/ cpc = "drain" /\ cpc' = "sleep"
        \/ cpc = "sleep" /\ cpc' = "drain" /\ kept_events < Limit
        \/ cpc = "sleep" /\ cpc' = "report" /\ ~ (kept_events < Limit)
        \/ WriteReport /\ cpc = "report" /\ cpc' = "done"
    <3>1. CASE UNCHANGED collectorVars
      BY <3>1 DEF collectorVars
    <3>2. CASE Attach       BY <3>2 DEF Attach
    <3>3. CASE OpenRing     BY <3>3 DEF OpenRing
    <3>4. CASE Fail         BY <3>4 DEF Fail
    <3>5. CASE Empty        BY <3>5 DEF Empty
    <3>6. CASE Wake         BY <3>6 DEF Wake
    <3>7. CASE WriteReport  BY <3>7 DEF WriteReport
    <3> QED
      BY <1>4, <3>1, <3>2, <3>3, <3>4, <3>5, <3>6, <3>7
         DEF Next, CollectorStep, vars
  <2>2. Window'
    BY <1>4, <2>1, WindowIdle
  <2>3. Written'
    <3>1. CASE WriteReport
      BY <3>1 DEF WriteReport, Written
    <3>2. CASE cpc' = cpc /\ report' = report
      BY <1>4, <3>2 DEF WindowInv, Written, Idle, accounts
    <3>3. CASE cpc' # "done"
      BY <3>3 DEF Written
    <3> QED
      BY <2>1, <3>1, <3>2, <3>3
  <2> QED
    BY <2>2, <2>3
<1> QED
  BY <1>1, <1>2, <1>3, <1>4

LEMMA WindowAlways == SafetySpec => []WindowInv
  BY WindowInit, WindowStep, PTL DEF SafetySpec

(***************************************************************************)
(* Whatever the interleaving, and however often the ring ran empty in      *)
(* between: a report is written only of a full window that ends with a     *)
(* kept event, and says what the collector's final state is; where the     *)
(* field fits the word, its digest is that of the kept events.             *)
(***************************************************************************)
THEOREM ReportsComplete == NoOverflow /\ SafetySpec => []ReportComplete
<1>1. WindowInv /\ EvidenceInv => ReportComplete
  <2> SUFFICES ASSUME WindowInv, EvidenceInv PROVE ReportComplete
    OBVIOUS
  <2>1. ks.acc = ksentry_spec(Elements(Kept))
    BY DEF EvidenceInv, IsStateAfter
  <2> QED
    BY <2>1 DEF WindowInv, Window, Written, ReportComplete
<1> QED
  BY <1>1, WindowAlways, EvidenceAlways, PTL

(***************************************************************************)
(* The live collector implements the abstract accumulator: keeping an      *)
(* event ingests its field element, every other step of the collector and  *)
(* every step of the programs is a stutter.                                *)
(***************************************************************************)
LEMMA KeepIngests ==
    ASSUME NoOverflow, EvidenceInv, WindowInv, Keep
    PROVE  KS!Next
<1> DEFINE x == to_field_element(Head(ring))
           zs == Elements(Kept)
<1>0. EventInv /\ AccountInv /\ ks \in Struct /\ Kept \in Seq(Event)
  BY AccountTyped DEF EvidenceInv, AccountInv
<1>1. /\ Kept' = Append(Kept, Head(ring)) /\ Head(ring) \in Event
      /\ ks' = update(ks, x)
  BY <1>0, KeptOfKeep DEF Keep
<1>2. /\ x \in Nat /\ zs \in Seq(Nat) /\ Len(zs) = Len(Kept)
      /\ Elements(Kept') = Append(zs, x)
      /\ x \in {Hash[t] % P : t \in 0 .. MaxHits}
  BY <1>0, <1>1, ElementTyped, ElementsTyped, ElementsAppend
<1>3. Len(zs) < Limit
  BY <1>2 DEF WindowInv, Window, AccountInv, Keep
<1> HIDE DEF x, zs
<1>4. ks.acc' = (ks.acc + (x % P) * Pow[triangular_exp(Len(zs))]) % P
  <2>1. ~ UpdateOverflows(ks, x)
    BY <1>0, <1>2, UpdateNeverOverflows
  <2>2. update(ks, x).acc = (ks.acc + (x % P) * ks.weight) % P
    BY <1>0, <1>2, <2>1, UpdateExact
  <2>3. ks.weight = Pow[triangular_exp(Len(zs))]
    BY DEF EvidenceInv, IsStateAfter, zs
  <2> QED
    BY <1>1, <2>2, <2>3
<1>5. KS!Ingest(x)
  <2>1. KS!Pow = Pow /\ KS!triangular_exp(Len(zs)) = triangular_exp(Len(zs))
    BY DEF KS!Pow, Pow, KS!triangular_exp, triangular_exp
  <2> QED
    BY <1>2, <1>3, <1>4, <2>1 DEF KS!Ingest, zs
<1> QED
  BY <1>2, <1>5 DEF KS!Next

THEOREM CollectorRefines == NoOverflow /\ SafetySpec => ImplementsKSentry
<1>1. Init => KS!Init
  <2> SUFFICES ASSUME Init PROVE KS!Init
    OBVIOUS
  <2>1. Kept = << >>
    <3>1. EventInv /\ AccountInv /\ kept_events = 0
      BY AccountInit DEF AccountInv, Init
    <3>2. Kept \in Seq(Event) /\ Len(Kept) = 0
      BY <3>1, AccountTyped DEF AccountInv
    <3> QED
      BY <3>2, EmptySeq
  <2> QED
    BY <2>1, ElementsEmpty DEF KS!Init, Init, new
<1>2. NoOverflow /\ EvidenceInv /\ WindowInv /\ [Next]_vars => [KS!Next]_(KS!vars)
  <2> SUFFICES ASSUME NoOverflow, EvidenceInv, WindowInv, [Next]_vars
               PROVE  [KS!Next]_(KS!vars)
    OBVIOUS
  <2>0. EventInv
    BY DEF EvidenceInv, AccountInv
  <2>1. CASE Idle
    <3>1. Kept' = Kept /\ ks' = ks
      BY <2>1, IdleKept DEF Idle, accounts
    <3> QED
      BY <3>1 DEF KS!vars
  <2>2. CASE Skip
    <3>1. Kept' = Kept /\ ks' = ks
      BY <2>0, <2>2, KeptOfSkip DEF Skip
    <3> QED
      BY <3>1 DEF KS!vars
  <2>3. CASE Keep
    BY <2>3, KeepIngests
  <2> QED
    BY <2>0, <2>1, <2>2, <2>3, StepCases
<1> QED
  BY <1>1, <1>2, EvidenceAlways, WindowAlways, NoOverflowStays, PTL
     DEF KS!Spec, SafetySpec, ImplementsKSentry

-----------------------------------------------------------------------------
(***************************************************************************)
(* The excerpts.  Record(es, i) is what the report says of the i-th of the *)
(* kept events es; events kept later do not change it.                     *)
(***************************************************************************)
Records == [ts : 0 .. MaxHits, x : Nat, digest_after : Field]

Record(es, i) == [ts |-> es[i].ts, x |-> to_field_element(es[i]),
                  digest_after |-> ksentry_spec(Elements(SubSeq(es, 1, i)))]

LEMMA RecordKept ==
    ASSUME NEW es \in Seq(Event), NEW e \in Event, NEW i \in 1 .. Len(es)
    PROVE  Record(Append(es, e), i) = Record(es, i)
<1>1. Append(es, e)[i] = es[i]
  BY AppendProperties
<1>2. SubSeq(Append(es, e), 1, i) = SubSeq(es, 1, i)
  <2>1. Len(es) \in Nat
    BY LenProperties
  <2>2. PICK m \in 0 .. Len(es) : m = i
    BY <2>1
  <2>3. SubSeq(Append(es, e), 1, m) = SubSeq(es, 1, m)
    <3>1. es \in Seq(Event) /\ e \in Event
      OBVIOUS
    <3> QED
      BY <3>1, SubSeqOfAppend, ZenonT(30)
  <2> QED
    BY <2>2, <2>3
<1> QED
  BY <1>1, <1>2 DEF Record

LEMMA RecordNew ==
    ASSUME NEW es \in Seq(Event), NEW e \in Event
    PROVE  /\ Record(Append(es, e), Len(es) + 1)
                  = [ts |-> e.ts, x |-> to_field_element(e),
                     digest_after |-> ksentry_spec(Append(Elements(es),
                                                          to_field_element(e)))]
           /\ Record(Append(es, e), Len(es) + 1) \in Records
<1> DEFINE ds == Append(es, e)
           n == Len(es)
<1>1. ds \in Seq(Event) /\ Len(ds) = n + 1 /\ ds[n + 1] = e
  BY AppendProperties
<1>2. SubSeq(ds, 1, n + 1) = ds
  BY <1>1, SubSeqFull
<1>3. /\ Elements(ds) = Append(Elements(es), to_field_element(e))
      /\ Elements(ds) \in Seq(Nat)
  BY <1>1, ElementsAppend, ElementsTyped
<1>4. ksentry_spec(Elements(ds)) \in Field
  BY <1>3, SpecTyped
<1>5. to_field_element(e) \in Nat /\ e.ts \in 0 .. MaxHits
  BY ElementTyped DEF Event
<1> QED
  BY <1>1, <1>2, <1>3, <1>4, <1>5 DEF Record, Records

(***************************************************************************)
(* records are those of the m kept events after the first k of es.         *)
(***************************************************************************)
IsExcerpt(records, m, es, k) ==
    /\ records \in Seq(Records)
    /\ Len(records) = m
    /\ \A i \in 1 .. m : records[i] = Record(es, k + i)

LEMMA ExcerptStays ==
    ASSUME NEW es \in Seq(Event), NEW e \in Event, NEW m \in Nat, NEW k \in Nat,
           k + m <= Len(es), NEW rs, IsExcerpt(rs, m, es, k)
    PROVE  IsExcerpt(rs, m, Append(es, e), k)
<1>1. Len(es) \in Nat
  BY LenProperties
<1>2. \A i \in 1 .. m : k + i \in 1 .. Len(es)
  BY <1>1
<1>3. \A i \in 1 .. m : Record(Append(es, e), k + i) = Record(es, k + i)
  BY <1>2, RecordKept
<1> QED
  BY <1>3 DEF IsExcerpt

LEMMA ExcerptGrows ==
    ASSUME NEW es \in Seq(Event), NEW m \in Nat, NEW k \in Nat,
           NEW rs, IsExcerpt(rs, m, es, k),
           Record(es, (k + m) + 1) \in Records
    PROVE  IsExcerpt(Append(rs, Record(es, (k + m) + 1)), m + 1, es, k)
<1> DEFINE r == Record(es, (k + m) + 1)
           ss == Append(rs, r)
<1>1. r \in Records /\ rs \in Seq(Records) /\ Len(rs) = m
  BY DEF IsExcerpt
<1>2. r = Record(es, k + (m + 1))
  <2>1. (k + m) + 1 = k + (m + 1)
    OBVIOUS
  <2> QED
    BY <2>1
<1> HIDE DEF r
<1>3. /\ ss \in Seq(Records) /\ Len(ss) = m + 1 /\ ss[m + 1] = r
      /\ \A i \in 1 .. m : ss[i] = rs[i]
  BY <1>1, AppendProperties
<1> HIDE DEF ss
<1>4. \A i \in 1 .. (m + 1) : ss[i] = Record(es, k + i)
  <2> SUFFICES ASSUME NEW i \in 1 .. (m + 1) PROVE ss[i] = Record(es, k + i)
    OBVIOUS
  <2>1. CASE i = m + 1
    BY <1>2, <1>3, <2>1
  <2>2. CASE i # m + 1
    <3>1. i \in 1 .. m
      BY <2>2
    <3> QED
      BY <1>3, <3>1 DEF IsExcerpt
  <2> QED
    BY <2>1, <2>2
<1> QED
  BY <1>3, <1>4 DEF IsExcerpt, ss, r

LEMMA ExcerptMoves ==
    ASSUME NEW es \in Seq(Event), NEW m \in Nat, NEW k \in Nat,
           NEW rs, IsExcerpt(rs, m + 1, es, k)
    PROVE  IsExcerpt(Tail(rs), m, es, k + 1)
<1>1. rs \in Seq(Records) /\ Len(rs) = m + 1 /\ rs # << >>
  BY EmptySeq DEF IsExcerpt
<1>2. /\ Tail(rs) \in Seq(Records) /\ Len(Tail(rs)) = m
      /\ \A i \in 1 .. m : Tail(rs)[i] = rs[i + 1]
  BY <1>1, HeadTailProperties
<1>3. \A i \in 1 .. m : Tail(rs)[i] = Record(es, (k + 1) + i)
  <2> SUFFICES ASSUME NEW i \in 1 .. m
               PROVE  Tail(rs)[i] = Record(es, (k + 1) + i)
    OBVIOUS
  <2>1. i + 1 \in 1 .. (m + 1) /\ k + (i + 1) = (k + 1) + i
    OBVIOUS
  <2>2. rs[i + 1] = Record(es, k + (i + 1))
    BY <2>1 DEF IsExcerpt
  <2> QED
    BY <1>2, <2>1, <2>2
<1> QED
  BY <1>2, <1>3 DEF IsExcerpt

(***************************************************************************)
(* The strengthening: the two excerpts are those of the first and of the   *)
(* last kept events, as sequences whose lengths are known, next to the     *)
(* evidence, from which each new record takes its digest.                  *)
(***************************************************************************)
ExcerptLeast == Least(ExcerptLen, Len(Kept))

ExcerptInv ==
    /\ EvidenceInv
    /\ IsExcerpt(first_events, ExcerptLeast, Kept, 0)
    /\ IsExcerpt(last_events, ExcerptLeast, Kept, Len(Kept) - ExcerptLeast)

LEMMA ExcerptInit == Init => ExcerptInv
<1> SUFFICES ASSUME Init PROVE ExcerptInv
  OBVIOUS
<1>1. EvidenceInv
  BY EvidenceInit
<1>2. Len(Kept) = 0
  BY <1>1 DEF EvidenceInv, AccountInv, Init
<1>3. ExcerptLeast = 0
  BY <1>2, CollectorAssumption DEF ExcerptLeast, Least
<1>4. << >> \in Seq(Records) /\ Len(<< >>) = 0
  BY EmptySeq
<1> QED
  BY <1>1, <1>2, <1>3, <1>4 DEF ExcerptInv, IsExcerpt, Init

LEMMA ExcerptKeep ==
    ASSUME NoOverflow, ExcerptInv, Keep, EvidenceInv'
    PROVE  ExcerptInv'
<1> DEFINE e == Head(ring)
           x == to_field_element(e)
           K == Kept
           L == Append(Kept, e)
           n == Len(Kept)
           r == Record(L, n + 1)
           E == ExcerptLen
<1>0. EventInv /\ K \in Seq(Event) /\ ks \in Struct /\ EvidenceInv
  BY AccountTyped DEF ExcerptInv, EvidenceInv, AccountInv
<1>1. Kept' = L /\ e \in Event /\ ks' = update(ks, x)
  BY <1>0, KeptOfKeep DEF Keep
<1>2. /\ n \in Nat /\ E \in Nat /\ E > 0 /\ L \in Seq(Event) /\ Len(L) = n + 1
  BY <1>0, <1>1, CollectorAssumption, LenProperties, AppendProperties
<1>3. /\ r = LiveEventRecord(e, update(ks, x))
      /\ r \in Records
  <2>1. ks'.acc = ksentry_spec(Elements(L))
    BY <1>1 DEF EvidenceInv, IsStateAfter
  <2>2. Elements(L) = Append(Elements(K), x)
    BY <1>0, <1>1, ElementsAppend
  <2>3. /\ r = [ts |-> e.ts, x |-> x,
                digest_after |-> ksentry_spec(Append(Elements(K), x))]
        /\ r \in Records
    BY <1>0, <1>1, RecordNew
  <2> QED
    BY <1>1, <2>1, <2>2, <2>3 DEF LiveEventRecord
<1>4. /\ first_events' = IF Len(first_events) < E
                         THEN Append(first_events, r) ELSE first_events
      /\ last_events' = Append(IF Len(last_events) = E
                               THEN Tail(last_events) ELSE last_events, r)
  BY <1>3 DEF Keep, PushLast
<1>5. EvidenceInv'
  OBVIOUS
<1>6. /\ IsExcerpt(first_events, Least(E, n), K, 0)
      /\ IsExcerpt(last_events, Least(E, n), K, n - Least(E, n))
  BY DEF ExcerptInv, ExcerptLeast
<1>7. ExcerptLeast' = Least(E, n + 1) /\ Len(Kept') = n + 1
  BY <1>1, <1>2 DEF ExcerptLeast
<1> HIDE DEF e, x, K, L, n, r, E
<1>8. CASE n < E
  <2>1. Least(E, n) = n /\ Least(E, n + 1) = n + 1 /\ n # E
    BY <1>2, <1>8 DEF Least
  <2>2. /\ IsExcerpt(first_events, n, K, 0)
        /\ IsExcerpt(last_events, n, K, 0)
    BY <1>2, <1>6, <2>1
  <2>3. /\ first_events' = Append(first_events, r)
        /\ last_events' = Append(last_events, r)
    BY <1>4, <1>8, <2>1, <2>2 DEF IsExcerpt
  <2>4. 0 + n <= Len(K) /\ 0 \in Nat /\ r = Record(L, (0 + n) + 1)
    BY <1>2 DEF n, K, r
  <2>5. /\ IsExcerpt(first_events, n, L, 0)
        /\ IsExcerpt(last_events, n, L, 0)
    BY <1>0, <1>1, <1>2, <2>2, <2>4, ExcerptStays DEF L, K
  <2>6. /\ IsExcerpt(first_events', n + 1, L, 0)
        /\ IsExcerpt(last_events', n + 1, L, 0)
    BY <1>2, <1>3, <2>3, <2>4, <2>5, ExcerptGrows
  <2>7. (n + 1) - (n + 1) = 0
    BY <1>2
  <2> QED
    BY <1>1, <1>5, <1>7, <2>1, <2>6, <2>7 DEF ExcerptInv
<1>9. CASE ~ (n < E)
  <2>1. /\ Least(E, n) = E /\ Least(E, n + 1) = E
        /\ n - E \in Nat /\ E - 1 \in Nat /\ (E - 1) + 1 = E
        /\ (n - E) + 1 \in Nat
    BY <1>2, <1>9 DEF Least
  <2>2. /\ IsExcerpt(first_events, E, K, 0)
        /\ IsExcerpt(last_events, E, K, n - E)
    BY <1>6, <2>1
  <2>3. /\ first_events' = first_events
        /\ last_events' = Append(Tail(last_events), r)
    BY <1>2, <1>4, <2>2 DEF IsExcerpt
  <2>4. 0 + E <= Len(K) /\ (n - E) + E <= Len(K)
    BY <1>2, <1>9 DEF n, K
  <2>5. /\ IsExcerpt(first_events, E, L, 0)
        /\ IsExcerpt(last_events, E, L, n - E)
    BY <1>0, <1>1, <1>2, <2>1, <2>2, <2>4, ExcerptStays DEF L, K
  <2>6. IsExcerpt(Tail(last_events), E - 1, L, (n - E) + 1)
    BY <1>2, <2>1, <2>5, ExcerptMoves
  <2>7. r = Record(L, (((n - E) + 1) + (E - 1)) + 1)
    <3>1. (((n - E) + 1) + (E - 1)) + 1 = n + 1
      BY <1>2
    <3> QED
      BY <3>1 DEF r
  <2>8. IsExcerpt(last_events', (E - 1) + 1, L, (n - E) + 1)
    BY <1>2, <1>3, <2>1, <2>3, <2>6, <2>7, ExcerptGrows
  <2>9. (n + 1) - E = (n - E) + 1
    BY <1>2
  <2> QED
    BY <1>1, <1>5, <1>7, <2>1, <2>3, <2>5, <2>8, <2>9 DEF ExcerptInv
<1> QED
  BY <1>8, <1>9

LEMMA ExcerptStep ==
    ASSUME NoOverflow, ExcerptInv, [Next]_vars
    PROVE  ExcerptInv'
<1>0. EventInv /\ EvidenceInv /\ EvidenceInv'
  BY EvidenceStep DEF ExcerptInv, EvidenceInv, AccountInv
<1>1. ASSUME Kept' = Kept, UNCHANGED <<first_events, last_events>>
      PROVE  ExcerptInv'
  BY <1>0, <1>1 DEF ExcerptInv, ExcerptLeast
<1>2. CASE Idle
  BY <1>1, <1>2, IdleKept DEF Idle, accounts
<1>3. CASE Skip
  BY <1>0, <1>1, <1>3, KeptOfSkip DEF Skip
<1>4. CASE Keep
  BY <1>0, <1>4, ExcerptKeep
<1> QED
  BY <1>0, <1>2, <1>3, <1>4, StepCases

(***************************************************************************)
(* Where the field fits the word: the excerpts of a report are the records *)
(* of the first and of the last events kept, each with the digest of the   *)
(* whole stream up to it, for any length of the excerpts and any number of *)
(* events.                                                                 *)
(***************************************************************************)
THEOREM ExcerptsExact == NoOverflow /\ SafetySpec => []Excerpts
<1>1. NoOverflow /\ ExcerptInv /\ [Next]_vars => ExcerptInv'
  BY ExcerptStep
<1>2. ExcerptInv => Excerpts
  <2> SUFFICES ASSUME ExcerptInv PROVE Excerpts
    OBVIOUS
  <2> DEFINE m == ExcerptLeast
  <2>1. \A i : RecordOf(i) = Record(Kept, i)
    BY DEF RecordOf, Record
  <2>2. ASSUME NEW rs, NEW k, IsExcerpt(rs, m, Kept, k)
        PROVE  rs = [i \in 1 .. m |-> RecordOf(k + i)]
    <3>1. DOMAIN rs = 1 .. m /\ rs \in [1 .. m -> Records]
      BY <2>2, LenProperties, SeqDef DEF IsExcerpt
    <3> QED
      BY <2>1, <2>2, <3>1 DEF IsExcerpt
  <2>3. Len(Kept) \in Nat /\ m \in Nat
    BY AccountTyped, CollectorAssumption
       DEF ExcerptInv, EvidenceInv, AccountInv, ExcerptLeast, Least
  <2>4. first_events = [i \in 1 .. m |-> RecordOf(0 + i)]
    BY <2>2 DEF ExcerptInv
  <2>5. last_events = [i \in 1 .. m |-> RecordOf((Len(Kept) - m) + i)]
    BY <2>2 DEF ExcerptInv
  <2>6. [i \in 1 .. m |-> RecordOf(0 + i)] = [i \in 1 .. m |-> RecordOf(i)]
    <3>1. \A i \in 1 .. m : 0 + i = i
      BY <2>3
    <3> QED
      BY <3>1, Zenon
  <2> QED
    BY <2>4, <2>5, <2>6 DEF Excerpts, ExcerptLeast
<1> QED
  BY <1>1, <1>2, ExcerptInit, NoOverflowStays, PTL DEF SafetySpec
=============================================================================
