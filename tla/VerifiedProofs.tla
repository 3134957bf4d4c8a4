--------------------------- MODULE VerifiedProofs ---------------------------
(***************************************************************************)
(* Theorems about Verified, for every modulus and base in the word, every  *)
(* set of entries and every bound on the length: the addition is exact     *)
(* with no room to spare, the loops keep their invariants, the digest is   *)
(* the closed form, and the mismatch reported is the first.                *)
(***************************************************************************)
EXTENDS Verified, AccumulatorLemmas

(***************************************************************************)
(* add_mod_u64 adds modulo p and nothing in it leaves the word, for every  *)
(* modulus the word holds: where the helpers of ksentry.rs need twice the  *)
(* modulus to fit, this one does not.                                      *)
(***************************************************************************)
THEOREM AddModExact ==
    ASSUME NEW a \in Field, NEW b \in Field
    PROVE  /\ add_mod_u64(a, b, P) = (a + b) % P
           /\ add_mod_u64(a, b, P) \in Field
<1>1. P \in Nat /\ P > 1 /\ P < Word /\ Word \in Nat
      /\ a \in Nat /\ b \in Nat /\ a < P /\ b < P
  BY ParamAssumption, VerifiedAssumption DEF Field
<1>2. CASE a >= P - b
  <2>1. add_mod_u64(a, b, P) = a - (P - b)
    BY <1>2 DEF add_mod_u64
  <2>2. a - (P - b) \in 0 .. (P - 1) /\ a + b = 1 * P + (a - (P - b))
    BY <1>1, <1>2
  <2>3. (a + b) % P = a - (P - b)
    BY <1>1, <2>2, ModOf
  <2> QED
    BY <2>1, <2>2, <2>3 DEF Field
<1>3. CASE ~ (a >= P - b)
  <2>1. a + b \in 0 .. (P - 1)
    BY <1>1, <1>3
  <2>2. (a + b) % Word = a + b
    BY <1>1, <2>1
  <2>3. (a + b) % P = a + b
    BY <2>1, ModSmall
  <2> QED
    BY <1>3, <2>1, <2>2, <2>3 DEF add_mod_u64, Field
<1> QED
  BY <1>2, <1>3

(***************************************************************************)
(* mul_mod_u64 multiplies modulo p: a u128 holds the product of two words. *)
(***************************************************************************)
LEMMA MulModExact ==
    ASSUME NEW a \in 0 .. (Word - 1), NEW b \in 0 .. (Word - 1)
    PROVE  /\ mul_mod_u64(a, b, P) = (a * b) % P
           /\ mul_mod_u64(a, b, P) \in Field
<1>1. a \in Nat /\ b \in Nat /\ Word \in Nat /\ a < Word /\ b < Word
  BY ParamAssumption
<1>2. PICK w \in Nat : w = Word * Word
  BY <1>1
<1>3. PICK c \in Nat : c = a * b
  BY <1>1
<1>4. c < w
  <2>1. a * b <= a * Word
    BY <1>1
  <2>2. a * Word <= (Word - 1) * Word
    BY <1>1
  <2>3. (Word - 1) * Word = w - Word /\ Word > 0
    BY <1>1, <1>2
  <2>4. a * Word \in Int /\ (Word - 1) * Word \in Int
    BY <1>1
  <2> QED
    BY <1>1, <1>3, <2>1, <2>2, <2>3, <2>4
<1>5. c % w = c
  BY <1>4
<1>6. mul_mod_u64(a, b, P) = c % P
  BY <1>2, <1>3, <1>5, Zenon DEF mul_mod_u64
<1>7. c % P \in Field
  BY DivMod DEF Field
<1> QED
  BY <1>3, <1>6, <1>7

(***************************************************************************)
(* The exponent fits the word: it is the triangular number.                *)
(***************************************************************************)
LEMMA TargetExact ==
    ASSUME NEW n \in 0 .. MaxLen
    PROVE  target_exp(n) = triangular_exp(n)
<1>1. n \in Nat /\ MaxLen \in Nat /\ n <= MaxLen /\ Word \in Nat
  BY VerifiedAssumption, ParamAssumption
<1>2. n * (n + 1) <= n * (MaxLen + 1)
  BY <1>1
<1>3. n * (MaxLen + 1) <= MaxLen * (MaxLen + 1)
  BY <1>1
<1>4. PICK c \in Nat : c = n * (n + 1)
  BY <1>1
<1>5. c < Word
  <2>1. n * (MaxLen + 1) \in Int /\ MaxLen * (MaxLen + 1) \in Int
    BY <1>1
  <2>2. MaxLen * (MaxLen + 1) < Word
    BY VerifiedAssumption
  <2> QED
    BY <1>1, <1>2, <1>3, <1>4, <2>1, <2>2
<1>6. c % Word = c
  BY <1>1, <1>5
<1> QED
  BY <1>4, <1>6, Zenon DEF target_exp, triangular_exp

-----------------------------------------------------------------------------
(***************************************************************************)
(* The loop invariants of the file in one: the weight found so far is the  *)
(* power counted so far, the entries compared so far agree, and a result   *)
(* is what the comparison showed.                                          *)
(***************************************************************************)
Loops ==
    /\ pc \in {"ingest", "weight"} => j = 0
    /\ pc = "weight" => /\ i < Len(logs)
                        /\ curr <= triangular_exp(i)
                        /\ res = Pow[curr]
    /\ pc = "compare" => /\ Len(logs) = Len(other)
                         /\ \A m \in 1 .. j : logs[m] = other[m]

IInv == TypeOK /\ Loops /\ FirstMismatch

LEMMA LogsAreSequences ==
    \A w \in Logs : w \in Seq(Inputs) /\ Len(w) <= MaxLen
<1>1. ASSUME NEW n \in 0 .. MaxLen, NEW w \in [1 .. n -> Inputs]
      PROVE  w \in Seq(Inputs) /\ Len(w) <= MaxLen
  <2>1. n \in Nat
    BY VerifiedAssumption
  <2>2. w \in Seq(Inputs)
    BY <2>1, SeqDef
  <2>3. Len(w) = n
    BY <2>1, <2>2, LenProperties
  <2> QED
    BY <2>2, <2>3, VerifiedAssumption
<1> QED
  BY <1>1 DEF Logs

LEMMA InitHolds == Init => IInv
<1> SUFFICES ASSUME Init PROVE IInv
  OBVIOUS
<1>1. TypeOK
  <2>1. /\ logs \in Seq(Inputs) /\ Len(logs) <= MaxLen
        /\ other \in Seq(Inputs) /\ Len(other) <= MaxLen
    BY LogsAreSequences DEF Init
  <2>2. Len(logs) \in Nat
    BY <2>1, LenProperties
  <2>3. 0 \in 0 .. (P - 1)
    BY ParamAssumption
  <2> QED
    BY <2>1, <2>2, <2>3 DEF Init, TypeOK, NotFound
<1> QED
  BY <1>1 DEF Init, IInv, Loops, FirstMismatch, Compared

(***************************************************************************)
(* What the current iteration works on.                                    *)
(***************************************************************************)
LEMMA EntryTyped ==
    ASSUME TypeOK, NEW n \in Nat, n < Len(logs)
    PROVE  /\ logs[n + 1] \in Inputs /\ logs[n + 1] \in 0 .. (Word - 1)
           /\ n \in 0 .. MaxLen
           /\ triangular_exp(n) \in Nat
<1>1. logs \in Seq(Inputs) /\ Len(logs) \in Nat /\ Len(logs) <= MaxLen
  BY LenProperties DEF TypeOK
<1>2. n + 1 \in 1 .. Len(logs)
  BY <1>1
<1>3. logs[n + 1] \in Inputs
  BY <1>1, <1>2, ElementOfSeq
<1>4. logs[n + 1] \in 0 .. (Word - 1)
  BY <1>3, VerifiedAssumption
<1>5. n \in 0 .. MaxLen
  BY <1>1, VerifiedAssumption
<1>6. triangular_exp(n) \in Nat
  BY TriangularStep
<1> QED
  BY <1>3, <1>4, <1>5, <1>6

LEMMA ResiduesFitTheWord == Field \subseteq 0 .. (Word - 1)
  BY ParamAssumption, VerifiedAssumption DEF Field

(***************************************************************************)
(* One more factor of q, modulo p, with q itself not reduced.              *)
(***************************************************************************)
LEMMA OneMoreFactor ==
    ASSUME NEW e \in Nat
    PROVE  mul_mod_u64(Pow[e], Q, P) = Pow[e + 1]
<1>1. Pow[e] \in Field /\ Pow[e] \in Int /\ Q \in 0 .. (Word - 1) /\ Q \in Int
  BY PowRange, ParamAssumption, BaseAssumption, VerifiedAssumption DEF Field
<1>2. mul_mod_u64(Pow[e], Q, P) = (Pow[e] * Q) % P
  BY <1>1, ResiduesFitTheWord, MulModExact
<1>3. Pow[e + 1] = (Pow[e] * (Q % P)) % P
  BY PowStep
<1>4. ((Q % P) * Pow[e]) % P = (Q * Pow[e]) % P
  BY <1>1, ModTimes
<1>5. (Q % P) * Pow[e] = Pow[e] * (Q % P) /\ Q * Pow[e] = Pow[e] * Q
  <2>1. Q % P \in Int
    BY <1>1, DivMod
  <2> QED
    BY <1>1, <2>1
<1> QED
  BY <1>2, <1>3, <1>4, <1>5

LEMMA NextPreserves == IInv /\ [Next]_vars => IInv'
<1> SUFFICES ASSUME IInv, [Next]_vars PROVE IInv'
  OBVIOUS
<1> USE DEF IInv
<1>0. Len(logs) \in Nat /\ i \in Nat /\ j \in Nat
  BY LenProperties DEF TypeOK
<1>1. CASE StartWeight
  <2>1. 1 % P = 1 /\ 1 \in 0 .. (P - 1)
    BY ModSmall, ParamAssumption
  <2>2. TypeOK'
    BY <1>1, <2>1 DEF StartWeight, TypeOK
  <2>3. triangular_exp(i) \in Nat
    BY <1>0, <1>1, EntryTyped DEF StartWeight
  <2>4. Loops'
    BY <1>1, <2>1, <2>3, PowStep DEF StartWeight, Loops
  <2> QED
    BY <1>1, <2>2, <2>4 DEF StartWeight, FirstMismatch, Compared
<1>2. CASE WeightStep
  <2>1. i < Len(logs) /\ res = Pow[curr] /\ curr \in Nat
    BY <1>2 DEF WeightStep, Loops, TypeOK
  <2>2. target_exp(i) = triangular_exp(i) /\ triangular_exp(i) \in Nat
    BY <1>0, <2>1, EntryTyped, TargetExact
  <2>3. res' = Pow[curr + 1] /\ res' \in 0 .. (P - 1)
    <3>1. res' = mul_mod_u64(Pow[curr], Q, P)
      BY <1>2, <2>1 DEF WeightStep
    <3>2. mul_mod_u64(Pow[curr], Q, P) = Pow[curr + 1]
      BY <2>1, OneMoreFactor
    <3>3. curr + 1 \in Nat
      BY <2>1
    <3> QED
      BY <3>1, <3>2, <3>3, PowRange
  <2>4. TypeOK'
    BY <1>2, <2>1, <2>3 DEF WeightStep, TypeOK
  <2>5. Loops'
    BY <1>2, <2>1, <2>2, <2>3 DEF WeightStep, Loops
  <2> QED
    BY <1>2, <2>4, <2>5 DEF WeightStep, FirstMismatch, Compared
<1>3. CASE AddTerm
  <2>1. i < Len(logs)
    BY <1>3 DEF AddTerm, Loops
  <2>2. state \in Field /\ res \in Field
    BY DEF TypeOK, Field
  <2>3. mul_mod_u64(logs[i + 1], res, P) \in Field
    BY <1>0, <2>1, <2>2, EntryTyped, ResiduesFitTheWord, MulModExact
  <2>4. state' \in 0 .. (P - 1)
    BY <1>3, <2>2, <2>3, AddModExact DEF AddTerm, Field
  <2>5. TypeOK'
    BY <1>0, <1>3, <2>1, <2>4 DEF AddTerm, TypeOK
  <2> QED
    BY <1>3, <2>5 DEF AddTerm, Loops, FirstMismatch, Compared
<1>4. CASE Digested
  <2>1. TypeOK'
    BY <1>4 DEF Digested, TypeOK
  <2> QED
    BY <1>4, <2>1 DEF Digested, Loops, FirstMismatch, Compared
<1>5. CASE SameEntry
  <2>1. TypeOK'
    BY <1>0, <1>5 DEF SameEntry, TypeOK
  <2>2. Loops'
    <3>1. pc = "compare" /\ \A m \in 1 .. j : logs[m] = other[m]
      BY <1>5 DEF SameEntry, Loops
    <3>2. \A m \in 1 .. (j + 1) : logs[m] = other[m]
      BY <1>0, <1>5, <3>1 DEF SameEntry
    <3> QED
      BY <1>5, <3>2 DEF SameEntry, Loops
  <2> QED
    BY <1>5, <2>1, <2>2 DEF SameEntry, FirstMismatch, Compared
<1>6. CASE Mismatch
  <2>1. /\ Len(logs) = Len(other) /\ j < Len(logs)
        /\ logs[j + 1] # other[j + 1]
        /\ \A m \in 1 .. j : logs[m] = other[m]
    BY <1>6 DEF Mismatch, Loops
  <2>2. /\ j + 1 \in 1 .. Len(logs)
        /\ logs[j + 1] \in Nat /\ other[j + 1] \in Nat
    <3>1. j + 1 \in 1 .. Len(logs) /\ j + 1 \in 1 .. Len(other)
      BY <1>0, <2>1
    <3>2. logs[j + 1] \in Inputs /\ other[j + 1] \in Inputs
      BY <3>1, ElementOfSeq DEF TypeOK
    <3>3. Inputs \subseteq Nat
      BY ParamAssumption, VerifiedAssumption
    <3> QED
      BY <3>1, <3>2, <3>3
  <2>3. TypeOK'
    BY <1>0, <1>6, <2>2 DEF Mismatch, TypeOK, Found
  <2>4. first_mismatch_at(logs, other, j)
    BY <1>0, <2>1 DEF first_mismatch_at
  <2>5. logs # other
    BY <2>1
  <2>6. FirstMismatch'
    BY <1>6, <2>4, <2>5
       DEF Mismatch, Found, FirstMismatch, Compared, first_mismatch_at
  <2> QED
    BY <1>6, <2>3, <2>6 DEF Mismatch, Loops
<1>7. CASE NoMismatch
  <2>1. /\ Len(logs) = Len(other) /\ j = Len(logs)
        /\ \A m \in 1 .. Len(logs) : logs[m] = other[m]
    BY <1>0, <1>7 DEF NoMismatch, Loops, TypeOK
  <2>2. logs = other
    BY <2>1, SeqEqual DEF TypeOK
  <2>3. TypeOK'
    BY <1>7 DEF NoMismatch, TypeOK, NotFound
  <2> QED
    BY <1>7, <2>2, <2>3
       DEF NoMismatch, NotFound, Loops, FirstMismatch, Compared
<1>8. CASE UNCHANGED vars
  <2>1. TypeOK'
    BY <1>8 DEF vars, TypeOK
  <2> QED
    BY <1>8, <2>1
       DEF vars, Loops, FirstMismatch, Compared, first_mismatch_at
<1> QED
  BY <1>1, <1>2, <1>3, <1>4, <1>5, <1>6, <1>7, <1>8 DEF Next

(***************************************************************************)
(* The loop invariants hold throughout.                                    *)
(***************************************************************************)
THEOREM LoopInvariants == Spec => []IInv
  BY InitHolds, NextPreserves, PTL DEF Spec

(***************************************************************************)
(* Every variable keeps its type: no intermediate result leaves the word   *)
(* or the field.                                                           *)
(***************************************************************************)
THEOREM VerifiedTypes == Spec => []TypeOK
<1>1. IInv => TypeOK
  BY DEF IInv
<1> QED
  BY <1>1, LoopInvariants, PTL

(***************************************************************************)
(* The postcondition of find_first_mismatch: the first place where two     *)
(* logs of one length differ, or none and then they are equal.             *)
(***************************************************************************)
THEOREM FirstMismatchFound == Spec => []FirstMismatch
<1>1. IInv => FirstMismatch
  BY DEF IInv
<1> QED
  BY <1>1, LoopInvariants, PTL

-----------------------------------------------------------------------------
(***************************************************************************)
(* One element of the closed form: the factors the code multiplies are not *)
(* reduced where the specification reduces them, and the sum is the same.  *)
(***************************************************************************)
LEMMA TermExact ==
    ASSUME NEW d \in Field, NEW w \in Field, NEW x \in 0 .. (Word - 1)
    PROVE  add_mod_u64(d, mul_mod_u64(x, w, P), P) = (d + (x % P) * w) % P
<1>1. mul_mod_u64(x, w, P) = (x * w) % P /\ (x * w) % P \in Field
  <2>1. mul_mod_u64(x, w, P) = (x * w) % P /\ mul_mod_u64(x, w, P) \in Field
    BY ResiduesFitTheWord, MulModExact
  <2> QED
    BY <2>1
<1>2. x \in Int /\ w \in Int /\ d \in Int /\ x % P \in Int
  BY DivMod, ParamAssumption DEF Field
<1>3. (x * w) % P = ((x % P) * w) % P
  BY <1>2, ModTimes
<1>4. PICK y \in Int : y = (x % P) * w
  BY <1>2
<1>5. add_mod_u64(d, y % P, P) = (d + (y % P)) % P
  BY <1>1, <1>3, <1>4, AddModExact
<1>6. ((y % P) + d) % P = (y + d) % P
  BY <1>2, ModPlus
<1>7. (y % P) + d = d + (y % P) /\ y + d = d + y
  <2>1. y % P \in Int
    BY DivMod
  <2> QED
    BY <1>2, <2>1
<1> QED
  BY <1>1, <1>3, <1>4, <1>5, <1>6, <1>7

(***************************************************************************)
(* ensures out as int == ramanujan_spec(logs): the executable digest       *)
(* implements KSentrySpec, for every modulus the word holds, where the     *)
(* accumulator of ksentry.rs needs room for (p - 1)^2 in its word.         *)
(***************************************************************************)
THEOREM VerifiedRefines == Spec => ImplementsSpec
<1>1. Init => Abs!Init
  <2> SUFFICES ASSUME Init PROVE Abs!Init
    OBVIOUS
  <2>1. SubSeq(logs, 1, 0) = << >>
    BY SubSeqEmpty
  <2> QED
    BY <2>1 DEF Init, Abs!Init
<1>2. IInv /\ [Next]_vars => [Abs!Next]_(Abs!vars)
  <2> SUFFICES ASSUME IInv, [Next]_vars
               PROVE  [Abs!Next]_(Abs!vars)
    OBVIOUS
  <2>0. Len(logs) \in Nat /\ i \in Nat /\ logs \in Seq(Inputs)
        /\ Len(logs) <= MaxLen
    BY LenProperties DEF IInv, TypeOK
  <2>1. CASE AddTerm
    <3> DEFINE x == logs[i + 1]
               t == triangular_exp(i)
    <3>1. /\ i < Len(logs) /\ curr <= t /\ res = Pow[curr]
          /\ curr >= target_exp(i) /\ curr \in Nat
      BY <2>1 DEF AddTerm, IInv, Loops, TypeOK
    <3>2. x \in Inputs /\ x \in 0 .. (Word - 1) /\ t \in Nat
          /\ target_exp(i) = t
      BY <2>0, <3>1, EntryTyped, TargetExact DEF IInv
    <3>3. res = Pow[t]
      <4>1. curr = t
        BY <3>1, <3>2
      <4> QED
        BY <3>1, <4>1
    <3>4. state' = (state + (x % P) * Pow[t]) % P
      <4>1. state \in Field /\ Pow[t] \in Field
        BY <3>2, PowRange DEF IInv, TypeOK, Field
      <4>2. state' = add_mod_u64(state, mul_mod_u64(x, Pow[t], P), P)
        BY <2>1, <3>3 DEF AddTerm
      <4> QED
        BY <3>2, <4>1, <4>2, TermExact
    <3>5. /\ Len(SubSeq(logs, 1, i)) = i
          /\ SubSeq(logs, 1, i) \in Seq(Inputs)
      <4>1. \A m \in 1 .. i : logs[m] \in Inputs
        BY <2>0, <3>1, ElementOfSeq
      <4> QED
        BY <2>0, <4>1, SubSeqProperties
    <3>6. SubSeq(logs, 1, i + 1) = Append(SubSeq(logs, 1, i), x)
      <4>1. 1 \in 1 .. Len(logs) /\ i + 1 \in 1 .. Len(logs)
            /\ (i + 1) - 1 = i
        BY <2>0, <3>1
      <4>2. SubSeq(logs, 1, i + 1) = SubSeq(logs, 1, i) \o << x >>
        BY <2>0, <4>1, SubSeqRecursiveSecond
      <4> QED
        BY <3>2, <3>5, <4>2, AppendIsConcat
    <3>7. Abs!Pow = Pow /\ Abs!triangular_exp(i) = triangular_exp(i)
      BY DEF Abs!Pow, Pow, Abs!triangular_exp, triangular_exp
    <3>8. Abs!Ingest(x)
      <4>1. i < MaxLen
        BY <2>0, <3>1, VerifiedAssumption
      <4>2. i' = i + 1 /\ logs' = logs
        BY <2>1 DEF AddTerm
      <4> QED
        BY <3>4, <3>5, <3>6, <3>7, <4>1, <4>2 DEF Abs!Ingest
    <3> QED
      BY <3>2, <3>8 DEF Abs!Next
  <2>2. ASSUME ~ AddTerm PROVE UNCHANGED Abs!vars
    BY <2>2 DEF Next, StartWeight, WeightStep, Digested, SameEntry, Mismatch,
                NoMismatch, vars, Abs!vars
  <2> QED
    BY <2>1, <2>2
<1> QED
  BY <1>1, <1>2, LoopInvariants, PTL DEF Spec, Abs!Spec, ImplementsSpec

-----------------------------------------------------------------------------
(***************************************************************************)
(* The powers and the domains of the file are those of Modulus.            *)
(***************************************************************************)
LEMMA SpecPowIsPower ==
    ASSUME NEW b, NEW e
    PROVE  spec_pow_mod(b, e, P) = Power(b, e)
  BY DEF spec_pow_mod, Power

LEMMA SpecPow ==
    ASSUME NEW b \in Int
    PROVE  /\ spec_pow_mod(b, 0, P) = 1
           /\ \A e \in Nat : /\ spec_pow_mod(b, e, P) \in Field
                             /\ spec_pow_mod(b, e + 1, P)
                                    = (b * spec_pow_mod(b, e, P)) % P
  BY PowerIs, SpecPowIsPower

LEMMA SpecDomain == is_domain_mod_p(P) => IsDomain
  BY DEF is_domain_mod_p, IsDomain

LEMMA SpecPowNonzero ==
    ASSUME is_domain_mod_p(P), NEW b \in Int, b % P # 0, NEW e \in Nat
    PROVE  spec_pow_mod(b, e, P) % P # 0
  BY SpecDomain, PowerNonzero, SpecPowIsPower

LEMMA SpecPowIsPow ==
    ASSUME NEW e \in Nat
    PROVE  spec_pow_mod(Q, e, P) = Pow[e]
<1> DEFINE B == {n \in Nat : spec_pow_mod(Q, n, P) = Pow[n]}
<1>0. Q \in Int /\ Q \in 0 .. (Word - 1)
  BY ParamAssumption, BaseAssumption, VerifiedAssumption
<1>1. 0 \in B
  BY <1>0, SpecPow, PowStep
<1>2. ASSUME NEW n \in Nat, n \in B PROVE n + 1 \in B
  <2>1. spec_pow_mod(Q, n + 1, P) = (Q * Pow[n]) % P
    BY <1>0, <1>2, SpecPow
  <2>2. Pow[n] \in Field /\ Pow[n] \in Int
    BY PowRange, ParamAssumption DEF Field
  <2>3. mul_mod_u64(Pow[n], Q, P) = (Pow[n] * Q) % P
    BY <1>0, <2>2, ResiduesFitTheWord, MulModExact
  <2>4. mul_mod_u64(Pow[n], Q, P) = Pow[n + 1]
    BY OneMoreFactor
  <2>5. Pow[n] * Q = Q * Pow[n]
    BY <1>0, <2>2
  <2> QED
    BY <2>1, <2>3, <2>4, <2>5
<1>3. Nat \subseteq B
  <2> HIDE DEF B
  <2> QED
    BY <1>1, <1>2, SetInduction
<1> QED
  BY <1>3

(***************************************************************************)
(* The digest of the file as such a sum, and the two forms of the          *)
(* difference polynomial: the digests subtracted and the sum of the        *)
(* differences are the same value at every base.                           *)
(***************************************************************************)
Terms(w, q) == [n \in 1 .. Len(w) |-> w[n] * spec_pow_mod(q, tri_exp(n - 1), P)]

DiffTerms(w, w2, q) ==
    [n \in 1 .. Len(w) |->
        diff_coeff_at(w, w2, n) * spec_pow_mod(q, tri_exp(n - 1), P)]

LEMMA WeightTyped ==
    ASSUME NEW q \in Int, NEW n \in Nat, n >= 1
    PROVE  /\ tri_exp(n - 1) \in Nat
           /\ spec_pow_mod(q, tri_exp(n - 1), P) \in Field
           /\ spec_pow_mod(q, tri_exp(n - 1), P) \in Int
<1>1. n - 1 \in Nat
  OBVIOUS
<1>2. tri_exp(n - 1) \in Nat
  BY <1>1, TriangularStep DEF tri_exp, triangular_exp
<1>3. spec_pow_mod(q, tri_exp(n - 1), P) \in Field
  BY <1>2, SpecPow
<1> QED
  BY <1>2, <1>3, FieldIsInt

LEMMA TermsTyped ==
    ASSUME NEW w \in Seq(Int), NEW q \in Int
    PROVE  Terms(w, q) \in [1 .. Len(w) -> Int]
<1> SUFFICES ASSUME NEW n \in 1 .. Len(w)
             PROVE  w[n] * spec_pow_mod(q, tri_exp(n - 1), P) \in Int
  BY DEF Terms
<1>1. n \in Nat /\ n >= 1 /\ w[n] \in Int
  BY LenProperties, ElementOfSeq
<1>2. spec_pow_mod(q, tri_exp(n - 1), P) \in Int
  BY <1>1, WeightTyped
<1> QED
  BY <1>1, <1>2

LEMMA DiffTermsTyped ==
    ASSUME NEW w \in Seq(Int), NEW w2 \in Seq(Int), Len(w) = Len(w2), NEW q \in Int
    PROVE  DiffTerms(w, w2, q) \in [1 .. Len(w) -> Int]
<1> SUFFICES ASSUME NEW n \in 1 .. Len(w)
             PROVE  diff_coeff_at(w, w2, n)
                        * spec_pow_mod(q, tri_exp(n - 1), P) \in Int
  BY DEF DiffTerms
<1>1. n \in Nat /\ n >= 1 /\ w[n] \in Int /\ w2[n] \in Int
  BY LenProperties, ElementOfSeq
<1>2. spec_pow_mod(q, tri_exp(n - 1), P) \in Int
  BY <1>1, WeightTyped
<1>3. diff_coeff_at(w, w2, n) \in Int
  BY <1>1 DEF diff_coeff_at
<1> QED
  BY <1>2, <1>3

LEMMA RamanujanIs ==
    ASSUME NEW w \in Seq(Int), NEW q \in Int
    PROVE  \E f : /\ IsTotal(f, Len(w), Terms(w, q))
                  /\ ramanujan_spec(w, q, P) = f[Len(w)]
<1> DEFINE N == Len(w)
           Fix(f) == f = [n \in 0 .. Len(w) |->
                            IF n = 0 THEN 0
                            ELSE (f[n - 1] + w[n]
                                    * spec_pow_mod(q, tri_exp(n - 1), P)) % P]
           D == CHOOSE f : Fix(f)
<1>1. N \in Nat /\ Terms(w, q) \in [1 .. N -> Int]
  BY LenProperties, TermsTyped
<1>2. ASSUME NEW f PROVE Fix(f) <=> SumEquation(f, N, Terms(w, q))
  <2>1. ASSUME NEW n \in 0 .. N, n # 0
        PROVE  w[n] * spec_pow_mod(q, tri_exp(n - 1), P) = Terms(w, q)[n]
    BY <1>1, <2>1 DEF Terms
  <2>2. [n \in 0 .. N |->
            IF n = 0 THEN 0
            ELSE (f[n - 1] + w[n] * spec_pow_mod(q, tri_exp(n - 1), P)) % P]
        = [n \in 0 .. N |-> IF n = 0 THEN 0
                            ELSE (f[n - 1] + Terms(w, q)[n]) % P]
    BY <2>1
  <2> QED
    BY <2>2 DEF SumEquation
<1>3. PICK f : IsTotal(f, N, Terms(w, q))
  BY <1>1, TotalExists
<1>4. Fix(f)
  <2>1. SumEquation(f, N, Terms(w, q))
    BY <1>1, <1>3, EquationIsTotal
  <2> HIDE DEF Fix
  <2> QED
    BY <1>2, <2>1
<1>5. Fix(D)
  BY <1>4
<1>6. ramanujan_spec(w, q, P) = D[N]
  BY DEF ramanujan_spec
<1> HIDE DEF D
<1>7. IsTotal(D, N, Terms(w, q))
  <2>1. SumEquation(D, N, Terms(w, q))
    <3> HIDE DEF Fix
    <3> QED
      BY <1>2, <1>5
  <2> QED
    BY <1>1, <2>1, EquationIsTotal
<1> QED
  BY <1>6, <1>7

LEMMA DiffSumIs ==
    ASSUME NEW w \in Seq(Int), NEW w2 \in Seq(Int), Len(w) = Len(w2), NEW q \in Int
    PROVE  \E f : /\ IsTotal(f, Len(w), DiffTerms(w, w2, q))
                  /\ diff_poly_sum_full(w, w2, q, P) = f[Len(w)]
<1> DEFINE N == Len(w)
           Fix(f) == f = [n \in 0 .. Len(w) |->
                            IF n = 0 THEN 0
                            ELSE (f[n - 1] + diff_coeff_at(w, w2, n)
                                    * spec_pow_mod(q, tri_exp(n - 1), P)) % P]
           D == CHOOSE f : Fix(f)
           t == DiffTerms(w, w2, q)
<1>1. N \in Nat /\ t \in [1 .. N -> Int]
  BY LenProperties, DiffTermsTyped
<1>2. ASSUME NEW f PROVE Fix(f) <=> SumEquation(f, N, t)
  <2>1. ASSUME NEW n \in 0 .. N, n # 0
        PROVE  diff_coeff_at(w, w2, n)
                   * spec_pow_mod(q, tri_exp(n - 1), P) = t[n]
    BY <1>1, <2>1 DEF DiffTerms
  <2> HIDE DEF t
  <2>2. [n \in 0 .. N |->
            IF n = 0 THEN 0
            ELSE (f[n - 1] + diff_coeff_at(w, w2, n)
                     * spec_pow_mod(q, tri_exp(n - 1), P)) % P]
        = [n \in 0 .. N |-> IF n = 0 THEN 0 ELSE (f[n - 1] + t[n]) % P]
    BY <2>1
  <2> QED
    BY <2>2 DEF SumEquation
<1> HIDE DEF t
<1>3. PICK f : IsTotal(f, N, t)
  BY <1>1, TotalExists
<1>4. Fix(f)
  <2>1. SumEquation(f, N, t)
    BY <1>1, <1>3, EquationIsTotal
  <2> HIDE DEF Fix
  <2> QED
    BY <1>2, <2>1
<1>5. Fix(D)
  BY <1>4
<1>6. diff_poly_sum_full(w, w2, q, P) = D[N]
  BY ParamAssumption DEF diff_poly_sum_full
<1> HIDE DEF D
<1>7. IsTotal(D, N, t)
  <2>1. SumEquation(D, N, t)
    <3> HIDE DEF Fix
    <3> QED
      BY <1>2, <1>5
  <2> QED
    BY <1>1, <2>1, EquationIsTotal
<1> QED
  BY <1>6, <1>7 DEF t

LEMMA DiffIsDifference ==
    ASSUME NEW w \in Seq(Int), NEW w2 \in Seq(Int), Len(w) = Len(w2), NEW q \in Int
    PROVE  diff_poly_sum_full(w, w2, q, P)
               = (ramanujan_spec(w, q, P) - ramanujan_spec(w2, q, P)) % P
<1> DEFINE N == Len(w)
<1>1. N \in Nat
  BY LenProperties
<1>2. PICK f : IsTotal(f, N, Terms(w, q)) /\ ramanujan_spec(w, q, P) = f[N]
  BY RamanujanIs
<1>3. PICK g : IsTotal(g, N, Terms(w2, q)) /\ ramanujan_spec(w2, q, P) = g[N]
  BY RamanujanIs
<1>4. PICK h : /\ IsTotal(h, N, DiffTerms(w, w2, q))
               /\ diff_poly_sum_full(w, w2, q, P) = h[N]
  BY DiffSumIs
<1> DEFINE B == {n \in Nat : n <= N => h[n] = (f[n] - g[n]) % P}
<1>5. 0 \in B
  <2>1. 0 % P = 0
    BY ModSmall, ParamAssumption
  <2> QED
    BY <1>2, <1>3, <1>4, <2>1 DEF IsTotal
<1>6. ASSUME NEW n \in Nat, n \in B PROVE n + 1 \in B
  <2> DEFINE m == n + 1
             p == spec_pow_mod(q, tri_exp(m - 1), P)
             u == w[m]
             v == w2[m]
  <2>1. SUFFICES ASSUME m <= N PROVE h[m] = (f[m] - g[m]) % P
    OBVIOUS
  <2>2. m \in 1 .. N /\ m - 1 = n /\ n <= N /\ n \in 0 .. N /\ m \in Nat /\ m >= 1
    BY <1>1, <2>1
  <2>3. h[n] = (f[n] - g[n]) % P
    BY <1>6, <2>2
  <2>4. p \in Int
    BY <2>2, WeightTyped
  <2>5. u \in Int /\ v \in Int
    BY <2>2, ElementOfSeq
  <2>6. /\ Terms(w, q)[m] = u * p /\ Terms(w2, q)[m] = v * p
        /\ DiffTerms(w, w2, q)[m] = (u - v) * p
    BY <2>2 DEF Terms, DiffTerms, diff_coeff_at
  <2> HIDE DEF p, u, v, m
  <2>7. (u - v) * p = u * p - v * p /\ u * p \in Int /\ v * p \in Int
    BY <2>4, <2>5
  <2>8. f[n] \in Int /\ g[n] \in Int
    <3>1. f[n] \in Field /\ g[n] \in Field
      BY <1>2, <1>3, <2>2 DEF IsTotal
    <3> QED
      BY <3>1, FieldIsInt
  <2>9. /\ f[m] = (f[n] + u * p) % P
        /\ g[m] = (g[n] + v * p) % P
        /\ h[m] = (h[n] + (u * p - v * p)) % P
    BY <1>2, <1>3, <1>4, <2>2, <2>6, <2>7 DEF IsTotal
  <2>10. PICK a \in Int, b \in Int : a = u * p /\ b = v * p
    BY <2>7
  <2>11. (h[n] + (a - b)) % P = (((f[n] + a) % P) - ((g[n] + b) % P)) % P
    <3>1. PICK x \in Int, y \in Int : x = f[n] /\ y = g[n]
      BY <2>8
    <3>2. CarriedDifference(x, y, a, b) = (((x - y) % P) + (a - b)) % P
      BY DiffStep, SMTT(30)
    <3> QED
      BY <2>3, <3>1, <3>2 DEF CarriedDifference
  <2> QED
    BY <2>9, <2>10, <2>11
<1>7. Nat \subseteq B
  <2> HIDE DEF B
  <2> QED
    BY <1>5, <1>6, SetInduction
<1>8. h[N] = (f[N] - g[N]) % P
  BY <1>1, <1>7
<1> QED
  BY <1>2, <1>3, <1>4, <1>8

-----------------------------------------------------------------------------
(***************************************************************************)
(* ensures out as int == ramanujan_spec(logs): after i entries the digest  *)
(* is the sum of the first i terms, and when the loop has ended i is the   *)
(* length.                                                                 *)
(***************************************************************************)
LoopSum(f) ==
    /\ IsTotal(f, Len(logs), Terms(logs, Q))
    /\ ramanujan_spec(logs, Q, P) = f[Len(logs)]
    /\ state = f[i]

DigestInv ==
    /\ \E f : LoopSum(f)
    /\ pc \in {"compare", "done"} => i = Len(logs)

LEMMA TermPlain ==
    ASSUME NEW d \in Field, NEW w \in Field, NEW x \in 0 .. (Word - 1)
    PROVE  add_mod_u64(d, mul_mod_u64(x, w, P), P) = (d + x * w) % P
<1>1. mul_mod_u64(x, w, P) = (x * w) % P /\ mul_mod_u64(x, w, P) \in Field
  BY ResiduesFitTheWord, MulModExact
<1>2. x \in Int /\ w \in Int /\ d \in Int
  BY ParamAssumption DEF Field
<1>3. PICK y \in Int : y = x * w
  BY <1>2
<1>4. add_mod_u64(d, y % P, P) = (d + (y % P)) % P
  BY <1>1, <1>3, AddModExact
<1>5. ((y % P) + d) % P = (y + d) % P
  BY <1>2, ModPlus
<1>6. (y % P) + d = d + (y % P) /\ y + d = d + y
  <2>1. y % P \in Int
    BY DivMod
  <2> QED
    BY <1>2, <2>1
<1> QED
  BY <1>1, <1>3, <1>4, <1>5, <1>6

LEMMA LogsAreIntegers ==
    ASSUME NEW w \in Seq(Inputs)
    PROVE  /\ w \in Seq(Int) /\ Len(w) \in Nat
           /\ \A n \in 1 .. Len(w) : w[n] \in 0 .. (Word - 1) /\ w[n] \in Nat
<1>1. Inputs \subseteq Int /\ Inputs \subseteq 0 .. (Word - 1) /\ Inputs \subseteq Nat
  BY VerifiedAssumption, ParamAssumption
<1>2. w \in Seq(Int)
  BY <1>1, SeqMonotonic
<1>3. \A n \in 1 .. Len(w) : w[n] \in Inputs
  BY ElementOfSeq
<1> QED
  BY <1>1, <1>2, <1>3, LenProperties

LEMMA DigestStarts == Init => DigestInv
<1> SUFFICES ASSUME Init PROVE DigestInv
  OBVIOUS
<1>1. logs \in Seq(Inputs) /\ logs \in Seq(Int) /\ Q \in Int
  BY LogsAreSequences, LogsAreIntegers, ParamAssumption, BaseAssumption DEF Init
<1>2. PICK f : /\ IsTotal(f, Len(logs), Terms(logs, Q))
               /\ ramanujan_spec(logs, Q, P) = f[Len(logs)]
  BY <1>1, RamanujanIs
<1>3. state = f[i]
  BY <1>2 DEF Init, IsTotal
<1> QED
  BY <1>2, <1>3 DEF Init, DigestInv, LoopSum

LEMMA DigestGrows == IInv /\ DigestInv /\ [Next]_vars => DigestInv'
<1> SUFFICES ASSUME IInv, DigestInv, [Next]_vars PROVE DigestInv'
  OBVIOUS
<1>0. /\ logs \in Seq(Inputs) /\ Len(logs) \in Nat /\ i \in Nat /\ i <= Len(logs)
      /\ Len(logs) <= MaxLen /\ state \in Field /\ Q \in Int
  BY LenProperties, ParamAssumption, BaseAssumption DEF IInv, TypeOK, Field
<1>1. PICK f : LoopSum(f)
  BY DEF DigestInv
<1>2. CASE AddTerm
  <2> DEFINE x == logs[i + 1]
             t == triangular_exp(i)
             N == Len(logs)
  <2>1. /\ i < Len(logs) /\ curr <= t /\ res = Pow[curr]
        /\ curr >= target_exp(i) /\ curr \in Nat
    BY <1>2 DEF AddTerm, IInv, Loops, TypeOK
  <2>2. x \in 0 .. (Word - 1) /\ t \in Nat /\ target_exp(i) = t
    BY <1>0, <2>1, EntryTyped, TargetExact DEF IInv
  <2>3. curr = t
    BY <2>1, <2>2
  <2>4. res = Pow[t]
    BY <2>1, <2>3
  <2>5. Pow[t] = spec_pow_mod(Q, tri_exp(i), P) /\ Pow[t] \in Field
    <3>1. tri_exp(i) = t
      BY DEF tri_exp, triangular_exp
    <3> QED
      BY <2>2, <3>1, SpecPowIsPow, PowRange DEF Field
  <2>6. state' = add_mod_u64(state, mul_mod_u64(x, Pow[t], P), P)
    BY <1>2, <2>4 DEF AddTerm
  <2>7. state' = (state + x * Pow[t]) % P
    BY <1>0, <2>2, <2>5, <2>6, TermPlain
  <2>8. i + 1 \in 1 .. N /\ (i + 1) - 1 = i
    BY <1>0, <2>1
  <2>9. Terms(logs, Q)[i + 1] = x * spec_pow_mod(Q, tri_exp(i), P)
    BY <2>8 DEF Terms
  <2>10. f[i + 1] = (f[i] + Terms(logs, Q)[i + 1]) % P
    BY <1>1, <2>8 DEF LoopSum, IsTotal
  <2>11. state' = f[i + 1]
    BY <1>1, <2>5, <2>7, <2>9, <2>10 DEF LoopSum
  <2>12. logs' = logs /\ i' = i + 1 /\ pc' = "ingest"
    BY <1>2 DEF AddTerm
  <2>13. LoopSum(f)'
    BY <1>1, <2>11, <2>12 DEF LoopSum
  <2> QED
    BY <2>12, <2>13 DEF DigestInv
<1>3. CASE ~ AddTerm
  <2>1. logs' = logs /\ i' = i /\ state' = state
    BY <1>3 DEF Next, StartWeight, WeightStep, Digested, SameEntry, Mismatch,
                NoMismatch, vars
  <2>2. LoopSum(f)'
    BY <1>1, <2>1 DEF LoopSum
  <2>3. pc' \in {"compare", "done"} => i = Len(logs)
    <3>1. CASE Digested
      BY <1>0, <3>1 DEF Digested
    <3>2. CASE ~ Digested
      <4>1. pc' \in {"compare", "done"} => pc \in {"compare", "done"}
        BY <1>3, <3>2 DEF Next, StartWeight, WeightStep, SameEntry, Mismatch,
                          NoMismatch, vars
      <4> QED
        BY <4>1 DEF DigestInv
    <3> QED
      BY <3>1, <3>2
  <2> QED
    BY <2>1, <2>2, <2>3 DEF DigestInv
<1> QED
  BY <1>2, <1>3

(***************************************************************************)
(* run_from_empty_k returns ramanujan_spec of its logs, whatever word the  *)
(* modulus fits and whether or not the entries are reduced.                *)
(***************************************************************************)
DigestReturned ==
    pc \in {"compare", "done"} => state = ramanujan_spec(logs, Q, P)

LEMMA BothInvariants == Spec => [](IInv /\ DigestInv)
<1>1. Init => IInv /\ DigestInv
  BY InitHolds, DigestStarts
<1>2. (IInv /\ DigestInv) /\ [Next]_vars => (IInv /\ DigestInv)'
  BY NextPreserves, DigestGrows
<1> QED
  BY <1>1, <1>2, PTL DEF Spec

(***************************************************************************)
(* run_from_empty_k returns ramanujan_spec of its log, what its ensures    *)
(* clause promises, for logs of any length and every modulus and base.     *)
(***************************************************************************)
THEOREM VerifiedDigest == Spec => []DigestReturned
<1>1. DigestInv => DigestReturned
  BY DEF DigestInv, LoopSum, DigestReturned
<1> QED
  BY <1>1, BothInvariants, PTL

-----------------------------------------------------------------------------
LEMMA DiffTermResidue ==
    ASSUME is_domain_mod_p(P), NEW q \in Int, q % P # 0,
           NEW w \in Seq(Int), NEW w2 \in Seq(Int), Len(w) = Len(w2),
           NEW n \in 1 .. Len(w)
    PROVE  (DiffTerms(w, w2, q)[n] % P = 0) <=> (w[n] % P = w2[n] % P)
<1> DEFINE u == w[n]
           v == w2[n]
           p == spec_pow_mod(q, tri_exp(n - 1), P)
<1>1. u \in Int /\ v \in Int /\ n \in Nat /\ n >= 1
  BY ElementOfSeq, LenProperties
<1>2. p \in Int /\ p % P # 0
  <2>1. tri_exp(n - 1) \in Nat /\ p \in Int
    BY <1>1, WeightTyped
  <2> QED
    BY <2>1, SpecPowNonzero
<1>3. DiffTerms(w, w2, q)[n] = (u - v) * p
  BY DEF DiffTerms, diff_coeff_at
<1> HIDE DEF u, v, p
<1>4. u - v \in Int
  BY <1>1
<1>5. ASSUME u % P = v % P PROVE ((u - v) * p) % P = 0
  <2>1. (u - v) % P = 0
    BY <1>1, <1>5, ModMinus
  <2>2. ((u - v) * p) % P = (0 * p) % P
    <3>1. PICK d \in Int : d = u - v
      BY <1>4
    <3>2. ((d % P) * p) % P = (d * p) % P
      BY <1>2, ModTimes
    <3>3. d % P = 0
      BY <2>1, <3>1
    <3> QED
      BY <3>1, <3>2, <3>3
  <2>3. 0 * p = 0 /\ 0 % P = 0
    BY <1>2, ModSmall, ParamAssumption
  <2> QED
    BY <2>2, <2>3
<1>6. ASSUME u % P # v % P PROVE ((u - v) * p) % P # 0
  <2>1. (u - v) % P # 0
    BY <1>1, <1>6, ModMinus
  <2> QED
    BY <1>2, <1>4, <2>1, SpecDomain, DomainProduct
<1> QED
  BY <1>3, <1>5, <1>6 DEF u, v

(***************************************************************************)
(* theorem_single_edit_detected_strong: logs that differ modulo p in one   *)
(* place have different digests.                                           *)
(***************************************************************************)
LEMMA SingleEditSeen ==
    ASSUME is_domain_mod_p(P), NEW q \in Int, q % P # 0,
           NEW w \in Seq(Int), NEW w2 \in Seq(Int), Len(w) = Len(w2),
           NEW c \in 1 .. Len(w), w[c] % P # w2[c] % P,
           \A m \in 1 .. Len(w) : m # c => w[m] % P = w2[m] % P
    PROVE  ramanujan_spec(w, q, P) # ramanujan_spec(w2, q, P)
<1> DEFINE N == Len(w)
           t == DiffTerms(w, w2, q)
<1>1. N \in Nat /\ c \in 1 .. N
  BY LenProperties
<1>2. PICK h : IsTotal(h, N, t) /\ diff_poly_sum_full(w, w2, q, P) = h[N]
  BY DiffSumIs
<1>3. /\ t \in [1 .. N -> Int]
      /\ t[c] % P # 0
      /\ \A m \in 1 .. N : m # c => t[m] % P = 0
  <2>1. t \in [1 .. N -> Int]
    BY DiffTermsTyped
  <2>2. t[c] % P # 0
    BY DiffTermResidue
  <2>3. ASSUME NEW m \in 1 .. N, m # c PROVE t[m] % P = 0
    BY <2>3, DiffTermResidue
  <2> QED
    BY <2>1, <2>2, <2>3
<1> HIDE DEF t
<1> DEFINE B == {n \in Nat : n <= N => /\ n < c => h[n] = 0
                                       /\ c <= n => h[n] # 0}
<1>4. 0 \in B
  BY <1>1, <1>2 DEF IsTotal
<1>5. ASSUME NEW n \in Nat, n \in B PROVE n + 1 \in B
  <2> DEFINE m == n + 1
  <2>1. SUFFICES ASSUME m <= N
                 PROVE  /\ m < c => h[m] = 0
                        /\ c <= m => h[m] # 0
    OBVIOUS
  <2>2. m \in 1 .. N /\ m - 1 = n /\ n \in 0 .. N
    BY <1>1, <2>1
  <2>3. h[m] = (h[n] + t[m]) % P /\ h[n] \in Field /\ t[m] \in Int
    BY <1>2, <1>3, <2>2 DEF IsTotal
  <2>4. CASE m = c
    <3>1. h[n] = 0
      BY <1>1, <1>5, <2>2, <2>4
    <3>2. 0 + t[m] = t[m]
      BY <2>3
    <3>3. h[m] # 0
      BY <1>3, <2>3, <2>4, <3>1, <3>2
    <3> QED
      BY <1>1, <2>2, <2>4, <3>3
  <2>5. CASE m # c
    <3>1. h[m] = h[n]
      BY <1>3, <2>2, <2>3, <2>5, AddZeroTerm
    <3> QED
      BY <1>1, <1>5, <2>2, <2>5, <3>1
  <2> QED
    BY <2>4, <2>5
<1>6. Nat \subseteq B
  <2> HIDE DEF B
  <2> QED
    BY <1>4, <1>5, SetInduction
<1>7. h[N] # 0
  BY <1>1, <1>6
<1>8. h[N] = (ramanujan_spec(w, q, P) - ramanujan_spec(w2, q, P)) % P
  BY <1>2, DiffIsDifference
<1>9. SUFFICES ASSUME ramanujan_spec(w, q, P) = ramanujan_spec(w2, q, P)
               PROVE  FALSE
  OBVIOUS
<1>10. ramanujan_spec(w, q, P) \in Int
  <2>1. PICK f : IsTotal(f, N, Terms(w, q)) /\ ramanujan_spec(w, q, P) = f[N]
    BY RamanujanIs
  <2>2. f[N] \in Field
    BY <1>1, <2>1 DEF IsTotal
  <2> QED
    BY <2>1, <2>2, FieldIsInt
<1>11. ramanujan_spec(w, q, P) - ramanujan_spec(w2, q, P) = 0
  BY <1>9, <1>10
<1> QED
  BY <1>7, <1>8, <1>11, ModSmall, ParamAssumption

(***************************************************************************)
(* What the comparison of entries and the digest say of the same two logs  *)
(* fits, for logs of any length over any domain.                           *)
(***************************************************************************)
THEOREM MismatchesLocalised == Spec => []MismatchLocalised
<1>1. IInv /\ DigestInv => MismatchLocalised
  <2> SUFFICES ASSUME IInv, DigestInv, Compared
               PROVE  LET digest2 == ramanujan_spec(other, Q, P)
                      IN  /\ ~ result.differ => state = digest2
                          /\ (/\ is_domain_mod_p(P) /\ Q % P # 0
                              /\ result.differ /\ OnlyResidueAt(result.at + 1))
                                 => state # digest2
    BY DEF IInv, MismatchLocalised
  <2>1. /\ state = ramanujan_spec(logs, Q, P) /\ Len(logs) = Len(other)
        /\ Q \in Int
    BY ParamAssumption, BaseAssumption DEF DigestInv, LoopSum, Compared
  <2>2. /\ logs \in Seq(Int) /\ other \in Seq(Int) /\ Len(logs) \in Nat
    BY LogsAreIntegers DEF IInv, TypeOK
  <2>3. /\ result.differ <=> logs # other
        /\ result.differ => first_mismatch_at(logs, other, result.at)
        /\ result.at \in Nat
    BY DEF IInv, FirstMismatch, TypeOK
  <2>4. ASSUME is_domain_mod_p(P), Q % P # 0, result.differ,
               OnlyResidueAt(result.at + 1)
        PROVE  state # ramanujan_spec(other, Q, P)
    <3> DEFINE c == result.at + 1
    <3>1. c \in 1 .. Len(logs)
      BY <2>2, <2>3, <2>4, SMTT(30) DEF first_mismatch_at
    <3>2. DOMAIN logs = 1 .. Len(logs)
      BY <2>2, LenProperties
    <3>3. /\ logs[c] % P # other[c] % P
          /\ \A m \in 1 .. Len(logs) : m # c => logs[m] % P = other[m] % P
      BY <2>4, <3>1, <3>2 DEF OnlyResidueAt
    <3> HIDE DEF c
    <3> QED
      BY <2>1, <2>2, <2>4, <3>1, <3>3, SingleEditSeen
  <2> QED
    BY <2>1, <2>3, <2>4
<1> QED
  BY <1>1, BothInvariants, PTL

-----------------------------------------------------------------------------
(***************************************************************************)
(* The digests of logs of at most three entries are their encodings in     *)
(* base q, reduced.                                                        *)
(***************************************************************************)
LEMMA FirstWeights ==
    /\ spec_pow_mod(Q, tri_exp(0), P) = 1
    /\ spec_pow_mod(Q, tri_exp(1), P) = Q % P
    /\ spec_pow_mod(Q, tri_exp(2), P) = (Q * Q * Q) % P
<1>1. tri_exp(0) = 0 /\ tri_exp(1) = 1 /\ tri_exp(2) = 3
  BY DEF tri_exp
<1>2. Q \in Int
  BY BaseAssumption
<1>3. spec_pow_mod(Q, 0, P) = 1 /\ spec_pow_mod(Q, 1, P) = Q % P
  <2>1. spec_pow_mod(Q, 0 + 1, P) = (Q * spec_pow_mod(Q, 0, P)) % P
    BY <1>2, SpecPow
  <2>2. spec_pow_mod(Q, 0, P) = 1
    BY <1>2, SpecPow
  <2> QED
    BY <1>2, <2>1, <2>2
<1>4. spec_pow_mod(Q, 2, P) = (Q * Q) % P
  <2>1. spec_pow_mod(Q, 1 + 1, P) = (Q * spec_pow_mod(Q, 1, P)) % P
    BY <1>2, SpecPow
  <2>2. PICK r \in Int : r = Q % P
    BY <1>2, DivMod
  <2>3. (r * Q) % P = (Q * Q) % P
    BY <1>2, <2>2, ModTimes
  <2>4. Q * r = r * Q
    BY <1>2
  <2> QED
    BY <1>3, <2>1, <2>2, <2>3, <2>4
<1>5. spec_pow_mod(Q, 3, P) = (Q * ((Q * Q) % P)) % P
  <2>1. spec_pow_mod(Q, 2 + 1, P) = (Q * spec_pow_mod(Q, 2, P)) % P
    BY <1>2, SpecPow
  <2> QED
    BY <1>4, <2>1
<1>6. (Q * ((Q * Q) % P)) % P = (Q * Q * Q) % P
  <2>1. PICK s \in Int : s = Q * Q
    BY <1>2
  <2>2. ((s % P) * Q) % P = (s * Q) % P
    BY <1>2, ModTimes
  <2>3. s % P \in Int
    BY DivMod
  <2>4. (s % P) * Q = Q * (s % P)
    BY <1>2, <2>3
  <2> QED
    BY <2>1, <2>2, <2>4
<1> QED
  BY <1>1, <1>3, <1>5, <1>6

LEMMA WeighedByResidue ==
    ASSUME NEW a \in Int, NEW x \in Int, NEW c \in Int
    PROVE  ((a % P) + x * (c % P)) % P = (a + x * c) % P
<1>1. PICK r \in Int : r = c % P
  BY DivMod
<1>2. ((a % P) + x * r) % P = (a + x * r) % P
  <2>1. x * r \in Int
    OBVIOUS
  <2> QED
    BY <2>1, ModPlus
<1>3. (r * x) % P = (c * x) % P
  BY <1>1, ModTimes
<1>4. PICK u \in Int, v \in Int : u = r * x /\ v = c * x
  OBVIOUS
<1>5. (u + a) % P = (v + a) % P
  BY <1>3, <1>4, ModAddBoth
<1>6. u + a = a + x * r /\ v + a = a + x * c
  BY <1>4
<1> QED
  BY <1>1, <1>2, <1>5, <1>6

LEMMA ShortDigests ==
    ASSUME NEW w \in Seq(Nat)
    PROVE  /\ Len(w) = 1 => ramanujan_spec(w, Q, P) = encode_len1(w[1], Q) % P
           /\ Len(w) = 2 => ramanujan_spec(w, Q, P)
                                = encode_len2(w[1], w[2], Q) % P
           /\ Len(w) = 3 => ramanujan_spec(w, Q, P)
                                = encode_len3(w[1], w[2], w[3], Q) % P
<1> DEFINE N == Len(w)
           c == Q * Q * Q
<1>0. w \in Seq(Int) /\ Q \in Int /\ c \in Int
  BY SeqMonotonic, ParamAssumption, BaseAssumption
<1>1. PICK f : IsTotal(f, N, Terms(w, Q)) /\ ramanujan_spec(w, Q, P) = f[N]
  BY <1>0, RamanujanIs
<1>2. ASSUME N >= 1, N <= 3
      PROVE  f[1] = w[1] % P /\ w[1] \in Int
  <2>1. 1 \in 1 .. N /\ 1 - 1 = 0 /\ w[1] \in Nat
    BY <1>2, LenProperties, ElementOfSeq
  <2>2. Terms(w, Q)[1] = w[1]
    BY <2>1, FirstWeights DEF Terms
  <2>3. f[1] = (f[0] + Terms(w, Q)[1]) % P /\ f[0] = 0
    BY <1>1, <2>1 DEF IsTotal
  <2> QED
    BY <2>1, <2>2, <2>3
<1>3. ASSUME N >= 2, N <= 3
      PROVE  f[2] = encode_len2(w[1], w[2], Q) % P /\ w[2] \in Int
  <2>1. 2 \in 1 .. N /\ 2 - 1 = 1 /\ w[2] \in Nat
    BY <1>3, LenProperties, ElementOfSeq
  <2>2. Terms(w, Q)[2] = w[2] * (Q % P)
    BY <2>1, FirstWeights DEF Terms
  <2>3. f[2] = (f[1] + Terms(w, Q)[2]) % P
    BY <1>1, <2>1 DEF IsTotal
  <2>4. PICK a \in Int, x \in Int : a = w[1] /\ x = w[2]
    BY <1>2, <1>3, <2>1
  <2>5. ((a % P) + x * (Q % P)) % P = (a + x * Q) % P
    BY <1>0, WeighedByResidue
  <2> QED
    BY <1>2, <1>3, <2>1, <2>2, <2>3, <2>4, <2>5 DEF encode_len2
<1>4. ASSUME N = 3
      PROVE  f[3] = encode_len3(w[1], w[2], w[3], Q) % P
  <2>1. 3 \in 1 .. N /\ 3 - 1 = 2 /\ w[3] \in Nat
    <3>1. 3 \in 1 .. N /\ 3 - 1 = 2
      BY <1>4
    <3> QED
      BY <3>1, ElementOfSeq
  <2>2. Terms(w, Q)[3] = w[3] * (c % P)
    BY <2>1, FirstWeights DEF Terms
  <2>3. f[3] = (f[2] + Terms(w, Q)[3]) % P
    BY <1>1, <2>1 DEF IsTotal
  <2> HIDE DEF c
  <2>4. PICK x \in Int : x = w[3]
    BY <2>1
  <2>5. PICK a \in Int : a = encode_len2(w[1], w[2], Q)
    BY <1>0, <1>2, <1>3, <1>4 DEF encode_len2
  <2>6. ((a % P) + x * (c % P)) % P = (a + x * c) % P
    BY <1>0, WeighedByResidue
  <2>9. a + x * c = encode_len3(w[1], w[2], w[3], Q)
    BY <2>4, <2>5 DEF encode_len2, encode_len3, c
  <2>10. f[2] = a % P
    BY <1>3, <1>4, <2>5
  <2> QED
    BY <2>2, <2>3, <2>4, <2>6, <2>9, <2>10
<1>5. CASE Len(w) = 1
  BY <1>1, <1>2, <1>5 DEF encode_len1
<1>6. CASE Len(w) = 2
  BY <1>1, <1>3, <1>6
<1>7. CASE Len(w) = 3
  BY <1>1, <1>4, <1>7
<1> QED
  BY <1>5, <1>6, <1>7

(***************************************************************************)
(* Numbers written in a base are equal only digit by digit, and no number  *)
(* of two or three digits exceeds the one of the highest digits.           *)
(***************************************************************************)
LEMMA DigitsUnique ==
    ASSUME NEW m \in Nat, NEW a \in 0 .. (m - 1), NEW c \in 0 .. (m - 1),
           NEW b \in Int, NEW d \in Int, a + b * m = c + d * m
    PROVE  a = c /\ b = d
<1>1. (b - d) * m = c - a /\ b - d \in Int /\ a \in Int /\ c \in Int
  OBVIOUS
<1>2. PICK k \in Int : k = b - d
  BY <1>1
<1>3. k * m = c - a /\ c - a < m /\ c - a > 0 - m
  BY <1>1, <1>2
<1>4. k < 1
  <2>1. SUFFICES ASSUME k >= 1 PROVE FALSE
    BY <1>2
  <2>2. (k - 1) * m >= 0 /\ (k - 1) * m = k * m - m
    BY <1>2, <2>1
  <2> QED
    BY <1>1, <1>2, <1>3, <2>2
<1>5. k > 0 - 1
  <2>1. SUFFICES ASSUME k <= 0 - 1 PROVE FALSE
    BY <1>2
  <2>2. (0 - 1 - k) * m >= 0 /\ (0 - 1 - k) * m = 0 - m - k * m
    BY <1>2, <2>1
  <2> QED
    BY <1>1, <1>2, <1>3, <2>2
<1>6. k = 0
  BY <1>2, <1>4, <1>5
<1> QED
  BY <1>1, <1>2, <1>3, <1>6

LEMMA ProductBelow ==
    ASSUME NEW a \in Nat, NEW b \in Nat, NEW m \in Nat, a <= b
    PROVE  a * m <= b * m
<1>1. (b - a) * m >= 0 /\ (b - a) * m = b * m - a * m
  OBVIOUS
<1> QED
  BY <1>1

LEMMA EncodingsInjective ==
    ASSUME NEW a \in 0 .. (Q - 1), NEW b \in 0 .. (Q - 1), NEW c \in 0 .. (Q - 1),
           NEW x \in 0 .. (Q - 1), NEW y \in 0 .. (Q - 1), NEW z \in 0 .. (Q - 1)
    PROVE  /\ encode_len2(a, b, Q) = encode_len2(x, y, Q) => a = x /\ b = y
           /\ encode_len3(a, b, c, Q) = encode_len3(x, y, z, Q)
                  => a = x /\ b = y /\ c = z
<1>1. Q \in Nat /\ Q \in Int /\ b \in Int /\ y \in Int /\ c \in Int /\ z \in Int
  BY ParamAssumption, BaseAssumption
<1>2. ASSUME encode_len2(a, b, Q) = encode_len2(x, y, Q)
      PROVE  a = x /\ b = y
  <2>1. a + b * Q = x + y * Q
    BY <1>2 DEF encode_len2
  <2> QED
    BY <1>1, <2>1, DigitsUnique
<1>3. ASSUME encode_len3(a, b, c, Q) = encode_len3(x, y, z, Q)
      PROVE  a = x /\ b = y /\ c = z
  <2>1. PICK m \in Int : m = Q * Q
    BY <1>1
  <2>2. m \in Nat /\ b \in 0 .. (m - 1) /\ y \in 0 .. (m - 1)
    <3>1. 1 * Q <= Q * Q
      BY <1>1, ProductBelow, ParamAssumption
    <3> QED
      BY <1>1, <2>1, <3>1
  <2>3. PICK s \in Int, t \in Int : s = b + c * m /\ t = y + z * m
    BY <1>1, <2>2
  <2>4. a + s * Q = x + t * Q
    <3>1. s * Q = b * Q + c * (Q * Q * Q) /\ t * Q = y * Q + z * (Q * Q * Q)
      BY <1>1, <2>1, <2>3
    <3>2. a + b * Q + c * (Q * Q * Q) = x + y * Q + z * (Q * Q * Q)
      BY <1>3 DEF encode_len3
    <3>3. PICK k \in Int, l \in Int, n \in Int, o \in Int :
              /\ k = b * Q /\ l = c * (Q * Q * Q)
              /\ n = y * Q /\ o = z * (Q * Q * Q)
      BY <1>1
    <3>4. a \in Int /\ x \in Int
      BY <1>1
    <3> QED
      BY <3>1, <3>2, <3>3, <3>4
  <2>5. a = x /\ s = t
    BY <1>1, <2>4, DigitsUnique
  <2>6. b = y /\ c = z
    BY <1>1, <2>2, <2>3, <2>5, DigitsUnique
  <2> QED
    BY <2>5, <2>6
<1> QED
  BY <1>2, <1>3

LEMMA EncodingsBounded ==
    ASSUME NEW a \in 0 .. (Q - 1), NEW b \in 0 .. (Q - 1), NEW c \in 0 .. (Q - 1)
    PROVE  /\ encode_len2(a, b, Q) \in Nat
           /\ encode_len2(a, b, Q) <= Bound + Bound * Q
           /\ encode_len3(a, b, c, Q) \in Nat
           /\ encode_len3(a, b, c, Q) <= encode_len3(Bound, Bound, Bound, Q)
<1>1. Q \in Nat /\ Bound \in Nat /\ a <= Bound /\ b <= Bound /\ c <= Bound
      /\ a \in Nat /\ b \in Nat /\ c \in Nat
  BY ParamAssumption, BaseAssumption DEF Bound
<1>2. PICK m \in Nat : m = Q * Q * Q
  BY <1>1
<1>3. b * Q <= Bound * Q /\ c * m <= Bound * m
  BY <1>1, <1>2, ProductBelow
<1>4. b * Q \in Nat /\ c * m \in Nat /\ Bound * Q \in Nat /\ Bound * m \in Nat
  BY <1>1, <1>2
<1>5. encode_len2(a, b, Q) = a + b * Q
  BY DEF encode_len2
<1>6. /\ encode_len3(a, b, c, Q) = a + b * Q + c * m
      /\ encode_len3(Bound, Bound, Bound, Q) = Bound + Bound * Q + Bound * m
  BY <1>2 DEF encode_len3
<1> HIDE DEF Bound
<1> QED
  BY <1>1, <1>3, <1>4, <1>5, <1>6

(***************************************************************************)
(* What the Verus file takes on trust of short logs (external_body) is     *)
(* true of the digest it computes: the digests of up to three entries are  *)
(* their encodings, and short logs with small entries do not collide.      *)
(***************************************************************************)
THEOREM TrustedStatements == Spec => []TrustedShort
<1>1. IInv /\ DigestInv => EncodingsAreDigests
  <2> SUFFICES ASSUME IInv, DigestInv, pc = "done"
               PROVE  EncodingsAreDigests
    BY DEF EncodingsAreDigests
  <2>1. logs \in Seq(Inputs) /\ state = ramanujan_spec(logs, Q, P)
    BY DEF IInv, TypeOK, DigestInv, LoopSum
  <2>2. logs \in Seq(Nat)
    <3>1. Inputs \subseteq Nat
      BY VerifiedAssumption, ParamAssumption
    <3> QED
      BY <2>1, <3>1, SeqMonotonic
  <2> QED
    BY <2>1, <2>2, ShortDigests DEF EncodingsAreDigests
<1>2. IInv /\ DigestInv => ShortLogsApart
  <2> SUFFICES ASSUME IInv, DigestInv, pc = "done", Below(logs), Below(other),
                      P > Q, state = ramanujan_spec(other, Q, P)
               PROVE  /\ (/\ Len(logs) = 2 /\ Len(other) = 2
                          /\ Bound + Bound * Q < P) => logs = other
                      /\ (/\ Len(logs) = 3 /\ Len(other) = 3
                          /\ encode_len3(Bound, Bound, Bound, Q) < P)
                             => logs = other
                      /\ ~ (/\ Len(logs) = 1 /\ Len(other) = 2
                            /\ logs[1] = other[1] /\ other[2] # 0
                            /\ encode_len2(other[1], other[2], Q) < P)
    BY DEF ShortLogsApart
  <2>1. /\ logs \in Seq(Inputs) /\ other \in Seq(Inputs)
        /\ state = ramanujan_spec(logs, Q, P)
    BY DEF IInv, TypeOK, DigestInv, LoopSum
  <2>2. logs \in Seq(Nat) /\ other \in Seq(Nat) /\ Q < P
    <3>1. Inputs \subseteq Nat
      BY VerifiedAssumption, ParamAssumption
    <3> QED
      BY <2>1, <3>1, SeqMonotonic, ParamAssumption
  <2>3. /\ \A n \in 1 .. Len(logs) : logs[n] \in 0 .. (Q - 1)
        /\ \A n \in 1 .. Len(other) : other[n] \in 0 .. (Q - 1)
    <3>1. DOMAIN logs = 1 .. Len(logs) /\ DOMAIN other = 1 .. Len(other)
      BY <2>2, LenProperties
    <3>2. /\ \A n \in 1 .. Len(logs) : logs[n] \in Nat
          /\ \A n \in 1 .. Len(other) : other[n] \in Nat
      BY <2>2, ElementOfSeq
    <3> QED
      BY <3>1, <3>2, ParamAssumption, BaseAssumption DEF Below, Bound
  <2>4. ASSUME Len(logs) = 2, Len(other) = 2, Bound + Bound * Q < P
        PROVE  logs = other
    <3> DEFINE e == encode_len2(logs[1], logs[2], Q)
               o == encode_len2(other[1], other[2], Q)
    <3>1. /\ logs[1] \in 0 .. (Q - 1) /\ logs[2] \in 0 .. (Q - 1)
          /\ other[1] \in 0 .. (Q - 1) /\ other[2] \in 0 .. (Q - 1)
      BY <2>3, <2>4
    <3>2. /\ e \in Nat /\ e <= Bound + Bound * Q
          /\ o \in Nat /\ o <= Bound + Bound * Q
      BY <3>1, EncodingsBounded
    <3>3. e % P = o % P
      BY <2>1, <2>2, <2>4, ShortDigests
    <3>4. e = o
      <4> HIDE DEF e, o
      <4>1. Bound + Bound * Q \in Int
        BY ParamAssumption, BaseAssumption DEF Bound
      <4>2. e \in 0 .. (P - 1) /\ o \in 0 .. (P - 1)
        BY <2>4, <3>2, <4>1, ParamAssumption
      <4> QED
        BY <3>3, <4>2, ModSmall
    <3>5. logs[1] = other[1] /\ logs[2] = other[2]
      BY <3>1, <3>4, EncodingsInjective
    <3> QED
      BY <2>2, <2>4, <3>5, SeqEqual
  <2>5. ASSUME Len(logs) = 3, Len(other) = 3,
               encode_len3(Bound, Bound, Bound, Q) < P
        PROVE  logs = other
    <3> DEFINE e == encode_len3(logs[1], logs[2], logs[3], Q)
               o == encode_len3(other[1], other[2], other[3], Q)
               top == encode_len3(Bound, Bound, Bound, Q)
    <3>1. /\ logs[1] \in 0 .. (Q - 1) /\ logs[2] \in 0 .. (Q - 1)
          /\ logs[3] \in 0 .. (Q - 1) /\ other[1] \in 0 .. (Q - 1)
          /\ other[2] \in 0 .. (Q - 1) /\ other[3] \in 0 .. (Q - 1)
      BY <2>3, <2>5
    <3>2. e \in Nat /\ e <= top /\ o \in Nat /\ o <= top
      BY <3>1, EncodingsBounded
    <3>3. e % P = o % P
      BY <2>1, <2>2, <2>5, ShortDigests
    <3>4. top \in Int
      BY ParamAssumption, BaseAssumption DEF Bound, encode_len3
    <3>5. e = o
      <4> HIDE DEF e, o, top
      <4>1. top < P
        BY <2>5 DEF top
      <4>2. e \in 0 .. (P - 1) /\ o \in 0 .. (P - 1)
        BY <3>2, <3>4, <4>1, ParamAssumption
      <4> QED
        BY <3>3, <4>2, ModSmall
    <3>6. logs[1] = other[1] /\ logs[2] = other[2] /\ logs[3] = other[3]
      <4> DEFINE a == logs[1]
                 b == logs[2]
                 c == logs[3]
                 x == other[1]
                 y == other[2]
                 z == other[3]
      <4>1. encode_len3(a, b, c, Q) = encode_len3(x, y, z, Q)
        BY <3>5
      <4> HIDE DEF a, b, c, x, y, z
      <4>2. a = x /\ b = y /\ c = z
        <5>1. /\ a \in 0 .. (Q - 1) /\ b \in 0 .. (Q - 1) /\ c \in 0 .. (Q - 1)
              /\ x \in 0 .. (Q - 1) /\ y \in 0 .. (Q - 1) /\ z \in 0 .. (Q - 1)
          BY <3>1 DEF a, b, c, x, y, z
        <5> QED
          BY <4>1, <5>1, EncodingsInjective
      <4> QED
        BY <4>2 DEF a, b, c, x, y, z
    <3>7. \A n \in 1 .. Len(logs) : logs[n] = other[n]
      BY <2>5, <3>6
    <3> QED
      BY <2>2, <2>5, <3>7, SeqEqual
  <2>6. ASSUME Len(logs) = 1, Len(other) = 2, logs[1] = other[1],
               other[2] # 0, encode_len2(other[1], other[2], Q) < P
        PROVE  FALSE
    <3>1. logs[1] \in 0 .. (Q - 1) /\ other[2] \in 0 .. (Q - 1)
      BY <2>3, <2>6
    <3>2. PICK a \in Nat, b \in Nat : a = logs[1] /\ b = other[2]
      BY <3>1
    <3>3. a < P /\ b > 0 /\ a + b * Q < P /\ b * Q \in Nat
      BY <2>2, <2>6, <3>1, <3>2, ParamAssumption, BaseAssumption DEF encode_len2
    <3>4. a % P = (a + b * Q) % P
      BY <2>1, <2>2, <2>6, <3>2, ShortDigests DEF encode_len1, encode_len2
    <3>5. PICK o \in Nat : o = b * Q
      BY <3>3
    <3>6. a \in 0 .. (P - 1) /\ a + o \in 0 .. (P - 1)
      BY <3>3, <3>5, ParamAssumption
    <3>7. a = a + o
      BY <3>4, <3>5, <3>6, ModSmall
    <3>8. 1 * Q <= b * Q
      BY <3>3, ProductBelow, ParamAssumption, BaseAssumption
    <3> QED
      BY <3>5, <3>7, <3>8, ParamAssumption, BaseAssumption
  <2> QED
    BY <2>4, <2>5, <2>6
<1>3. IInv /\ DigestInv => TrustedShort
  BY <1>1, <1>2 DEF TrustedShort
<1> QED
  BY <1>3, BothInvariants, PTL

-----------------------------------------------------------------------------
(***************************************************************************)
(* The difference polynomial of two logs of n entries: 0 when no           *)
(* coefficient is left modulo p, and else a polynomial that is not 0, of   *)
(* degree at most the exponent of the last weight, since the exponents     *)
(* grow from entry to entry.                                               *)
(***************************************************************************)
Collisions(w, w2) == [q \in Field |-> diff_poly_sum_full(w, w2, q, P)]

LEMMA ExponentsGrow ==
    ASSUME NEW n \in Nat, n >= 1
    PROVE  /\ tri_exp(n - 1) \in Nat /\ tri_exp(n) \in Nat
           /\ tri_exp(n - 1) < tri_exp(n)
<1>1. n - 1 \in Nat /\ (n - 1) + 1 = n
  OBVIOUS
<1>2. /\ triangular_exp(n - 1) \in Nat /\ triangular_exp(n) \in Nat
      /\ triangular_exp((n - 1) + 1) = triangular_exp(n - 1) + ((n - 1) + 1)
  BY <1>1, TriangularStep
<1>3. tri_exp(n - 1) = triangular_exp(n - 1) /\ tri_exp(n) = triangular_exp(n)
  BY DEF tri_exp, triangular_exp
<1> QED
  BY <1>1, <1>2, <1>3

LEMMA DifferenceNonzero ==
    ASSUME NEW w \in Seq(Int), NEW w2 \in Seq(Int), Len(w) = Len(w2),
           \E n \in 1 .. Len(w) : diff_coeff_at(w, w2, n) % P # 0
    PROVE  /\ Len(w) \in Nat /\ Len(w) >= 1
           /\ Collisions(w, w2) \in Nonzero[tri_exp(Len(w) - 1)]
<1> DEFINE N == Len(w)
           c == [n \in 1 .. N |-> diff_coeff_at(w, w2, n)]
           E == [n \in 1 .. N |-> tri_exp(n - 1)]
           Good(f, q) == /\ IsTotal(f, N, DiffTerms(w, w2, q))
                         /\ diff_poly_sum_full(w, w2, q, P) = f[N]
           F == [q \in Field |-> CHOOSE f : Good(f, q)]
<1>1. N \in Nat
  BY LenProperties
<1>2. ASSUME NEW q \in Field PROVE Good(F[q], q)
  <2>1. q \in Int
    BY FieldIsInt
  <2>2. \E f : Good(f, q)
    BY <2>1, DiffSumIs
  <2> HIDE DEF Good
  <2> QED
    BY <2>2
<1> HIDE DEF F
<1>3. ASSUME NEW n \in 1 .. N PROVE diff_coeff_at(w, w2, n) \in Int
  <2>1. w[n] \in Int /\ w2[n] \in Int
    BY ElementOfSeq
  <2> QED
    BY <2>1 DEF diff_coeff_at
<1>4. c \in [1 .. N -> Int]
  BY <1>3
<1>5. Grows(E, N)
  <2>1. ASSUME NEW n \in 1 .. N PROVE tri_exp(n - 1) \in Nat
    BY <1>1, ExponentsGrow
  <2>2. ASSUME NEW n \in 2 .. N PROVE E[n - 1] < E[n]
    <3>1. n - 1 \in Nat /\ n - 1 >= 1 /\ n - 1 \in 1 .. N /\ n \in 1 .. N
      BY <1>1
    <3>2. tri_exp((n - 1) - 1) < tri_exp(n - 1)
      BY <3>1, ExponentsGrow
    <3> QED
      BY <3>1, <3>2
  <2> QED
    BY <2>1, <2>2 DEF Grows
<1>6. ASSUME NEW q \in Field PROVE DiffTerms(w, w2, q) = PolyTerms(c, E, N, q)
  <2>1. ASSUME NEW n \in 1 .. N
        PROVE  diff_coeff_at(w, w2, n) * spec_pow_mod(q, tri_exp(n - 1), P)
                   = c[n] * Power(q, E[n])
    BY SpecPowIsPower
  <2> QED
    BY <2>1 DEF DiffTerms, PolyTerms
<1>7. \E n \in 1 .. N : c[n] % P # 0
  OBVIOUS
<1>8. \A q \in Field : IsTotal(F[q], N, PolyTerms(c, E, N, q))
  BY <1>2, <1>6
<1>9. E[N] = tri_exp(N - 1) \/ ~ (N >= 1)
  BY <1>1
<1> HIDE DEF c, E, Good
<1>10. N >= 1 /\ [q \in Field |-> F[q][N]] \in Nonzero[E[N]]
  BY <1>1, <1>4, <1>5, <1>7, <1>8, SumNonzero
<1>11. [q \in Field |-> F[q][N]] = Collisions(w, w2)
  BY <1>2 DEF Collisions, Good
<1> QED
  BY <1>1, <1>9, <1>10, <1>11

(***************************************************************************)
(* The bases under which two logs of one length collide, and the two forms *)
(* of the difference polynomial.                                           *)
(***************************************************************************)
LEMMA DigestIsResidue ==
    ASSUME NEW w \in Seq(Int), NEW q \in Int
    PROVE  ramanujan_spec(w, q, P) \in Field /\ ramanujan_spec(w, q, P) \in Int
<1>1. Len(w) \in Nat
  BY LenProperties
<1>2. PICK f : /\ IsTotal(f, Len(w), Terms(w, q))
               /\ ramanujan_spec(w, q, P) = f[Len(w)]
  BY RamanujanIs
<1>3. f[Len(w)] \in Field
  BY <1>1, <1>2 DEF IsTotal
<1> QED
  BY <1>2, <1>3, FieldIsInt

LEMMA EvalIsSum ==
    ASSUME NEW w \in Seq(Int), NEW w2 \in Seq(Int), Len(w) = Len(w2), NEW q \in Int
    PROVE  diff_poly_eval_mod(w, w2, q, P) = diff_poly_sum_full(w, w2, q, P)
  BY DiffIsDifference, ParamAssumption DEF diff_poly_eval_mod

LEMMA BadBasesAreRoots ==
    ASSUME NEW w \in Seq(Int), NEW w2 \in Seq(Int), Len(w) = Len(w2)
    PROVE  /\ {q \in 0 .. (P - 1) : bad_q_for_traces(w, w2, q, P)}
                  = Roots(Collisions(w, w2))
           /\ {q \in 0 .. (P - 1) : root_q_for_diff_poly(w, w2, q, P)}
                  = Roots(Collisions(w, w2))
<1>1. ASSUME NEW q \in Field
      PROVE  /\ bad_q_for_traces(w, w2, q, P) <=> Collisions(w, w2)[q] = 0
             /\ root_q_for_diff_poly(w, w2, q, P) <=> Collisions(w, w2)[q] = 0
  <2>1. q \in Int /\ 0 <= q /\ q < P
    BY ParamAssumption DEF Field
  <2>2. PICK a \in Int : a = ramanujan_spec(w, q, P) /\ a \in Field
    BY <2>1, DigestIsResidue
  <2>3. PICK b \in Int : b = ramanujan_spec(w2, q, P) /\ b \in Field
    BY <2>1, DigestIsResidue
  <2>4. Collisions(w, w2)[q] = diff_poly_sum_full(w, w2, q, P)
    BY DEF Collisions
  <2>5. diff_poly_sum_full(w, w2, q, P) = (a - b) % P
    BY <2>1, <2>2, <2>3, DiffIsDifference
  <2>6. a % P = a /\ b % P = b
    BY <2>2, <2>3, FieldModSelf
  <2>7. ASSUME a = b PROVE (a - b) % P = 0
    BY <2>7, ModMinus
  <2>8. ASSUME (a - b) % P = 0 PROVE a = b
    BY <2>6, <2>8, ModMinus
  <2>9. diff_poly_eval_mod(w, w2, q, P) = diff_poly_sum_full(w, w2, q, P)
    BY <2>1, EvalIsSum
  <2>10. bad_q_for_traces(w, w2, q, P) <=> a = b
    BY <2>1, <2>2, <2>3 DEF bad_q_for_traces
  <2>11. root_q_for_diff_poly(w, w2, q, P) <=> diff_poly_eval_mod(w, w2, q, P) = 0
    BY <2>1 DEF root_q_for_diff_poly
  <2> QED
    BY <2>4, <2>5, <2>7, <2>8, <2>9, <2>10, <2>11
<1> QED
  BY <1>1 DEF Roots, Field

(***************************************************************************)
(* theorem_probabilistic_tamper_detection with the hypotheses it needs:    *)
(* over a domain, two logs of n entries that differ modulo p collide under *)
(* at most n (n - 1) / 2 of the p bases, for every p, n and entries.       *)
(***************************************************************************)
THEOREM FewBasesCollide == Spec => []FewBadBasesInField
<1>1. IInv => FewBadBasesInField
  <2> SUFFICES ASSUME IInv, Compared
               PROVE  /\ \A q \in 0 .. (P - 1) :
                            diff_poly_eval_mod(logs, other, q, P)
                                = diff_poly_sum_full(logs, other, q, P)
                      /\ bad_q_count(logs, other, P)
                            = diff_poly_root_count(logs, other, P)
                      /\ (is_domain_mod_p(P) /\ NonzeroModP)
                            => Within(logs, other)
    BY DEF FewBadBasesInField
  <2>1. /\ logs \in Seq(Int) /\ other \in Seq(Int) /\ Len(logs) = Len(other)
        /\ DOMAIN logs = 1 .. Len(logs)
    BY LogsAreIntegers, LenProperties DEF IInv, TypeOK, Compared
  <2> DEFINE h == Collisions(logs, other)
             N == Len(logs)
  <2>2. ASSUME NEW q \in 0 .. (P - 1)
        PROVE  diff_poly_eval_mod(logs, other, q, P)
                   = diff_poly_sum_full(logs, other, q, P)
    <3>1. q \in Int
      OBVIOUS
    <3> QED
      BY <2>1, <3>1, EvalIsSum
  <2>3. /\ bad_q_count(logs, other, P) = Cardinality(Roots(h))
        /\ diff_poly_root_count(logs, other, P) = Cardinality(Roots(h))
    BY <2>1, BadBasesAreRoots DEF bad_q_count, diff_poly_root_count
  <2>4. ASSUME is_domain_mod_p(P), NonzeroModP PROVE Within(logs, other)
    <3>1. \E n \in 1 .. N : diff_coeff_at(logs, other, n) % P # 0
      BY <2>1, <2>4 DEF NonzeroModP
    <3>2. N \in Nat /\ N >= 1 /\ h \in Nonzero[tri_exp(N - 1)]
      BY <2>1, <3>1, DifferenceNonzero
    <3> HIDE DEF h, N
    <3>3. tri_exp(N - 1) \in Nat
      BY <3>2, ExponentsGrow
    <3>4. Cardinality(Roots(h)) <= tri_exp(N - 1)
      BY <2>4, <3>2, <3>3, SpecDomain, FewRoots
    <3>5. tri_exp(N - 1) = square_degree_bound(N)
      <4>1. (N - 1) + 1 = N /\ ~ (N <= 0)
        BY <3>2
      <4> QED
        BY <4>1 DEF tri_exp, square_degree_bound
    <3> QED
      BY <2>3, <3>4, <3>5 DEF Within, N
  <2> QED
    BY <2>2, <2>3, <2>4
<1> QED
  BY <1>1, BothInvariants, PTL
=============================================================================
