--------------------------- MODULE MetricsProofs ---------------------------
(***************************************************************************)
(* Theorems about Metrics, for every modulus below the word, every set of  *)
(* bases and entries and every number of samples: the digests are the      *)
(* closed form, which damage they show, what the reports localise, and how *)
(* many bases can let two logs collide.                                    *)
(***************************************************************************)
EXTENDS Metrics, ModulusLemmas
LOCAL INSTANCE SequencesExt
LOCAL INSTANCE FiniteSetsExt

Binaries == {"main", "main1"}

-----------------------------------------------------------------------------
(***************************************************************************)
(* The arithmetic on words.  add_mod_u64 adds modulo p, although the sum   *)
(* of two residues need not fit the word.                                  *)
(***************************************************************************)
LEMMA AddExact ==
    ASSUME NEW a \in Field, NEW b \in Field
    PROVE  add_mod_u64(a, b, P) = (a + b) % P
<1>1. P \in Nat /\ P > 1 /\ P < Word /\ Word \in Nat
      /\ a \in Nat /\ b \in Nat /\ a < P /\ b < P
  BY ParamAssumption, MetricsAssumption DEF Field
<1>2. (P - b) % Word = P - b
  BY <1>1
<1>3. CASE a >= P - b
  <2>1. add_mod_u64(a, b, P) = a - (P - b)
    BY <1>2, <1>3 DEF add_mod_u64
  <2>2. a - (P - b) \in 0 .. (P - 1) /\ a + b = 1 * P + (a - (P - b))
    BY <1>1, <1>3
  <2>3. (a + b) % P = a - (P - b)
    BY <1>1, <2>2, ModOf
  <2> QED
    BY <2>1, <2>3
<1>4. CASE ~ (a >= P - b)
  <2>1. a + b \in 0 .. (P - 1)
    BY <1>1, <1>4
  <2>2. (a + b) % Word = a + b
    BY <1>1, <2>1
  <2>3. (a + b) % P = a + b
    BY <2>1, ModSmall
  <2> QED
    BY <1>2, <1>4, <2>2, <2>3 DEF add_mod_u64
<1> QED
  BY <1>3, <1>4

LEMMA MulTyped ==
    ASSUME NEW a \in Int, NEW b \in Int
    PROVE  mul_mod_u64(a, b, P) \in Field
<1>1. a * b \in Int
  OBVIOUS
<1> QED
  BY <1>1, ResidueInField DEF mul_mod_u64

(***************************************************************************)
(* The loop of pow_mod_u64: what its recursive function is, and what its   *)
(* variables hold.  In every turn base is a power b^m, result a power b^r, *)
(* and r + m exp is the exponent asked for.                                *)
(***************************************************************************)
PowState == [base : Field, exp : Nat, result : Field]

PowStart(b, e) == [base |-> b % P, exp |-> e, result |-> 1 % P]

IsPowRun(f, b, e) ==
    /\ f \in [0 .. e -> PowState]
    /\ f[0] = PowStart(b, e)
    /\ \A k \in 1 .. e : f[k] = pow_turn(f[k - 1], P)

LEMMA PowTurnTyped ==
    ASSUME NEW t \in PowState
    PROVE  pow_turn(t, P) \in PowState
<1>1. t.base \in Int /\ t.result \in Int /\ t.exp \in Nat
  BY FieldIsInt DEF PowState
<1>2. mul_mod_u64(t.base, t.base, P) \in Field
      /\ mul_mod_u64(t.result, t.base, P) \in Field
  BY <1>1, MulTyped
<1>3. t.exp \div 2 \in Nat
  BY <1>1
<1> QED
  BY <1>2, <1>3 DEF pow_turn, PowState

LEMMA PowStartTyped ==
    ASSUME NEW b \in Int, NEW e \in Nat
    PROVE  PowStart(b, e) \in PowState
<1>1. b % P \in Field /\ 1 % P \in Field
  BY ResidueInField
<1> QED
  BY <1>1 DEF PowStart, PowState

LEMMA PowRunExists ==
    ASSUME NEW b \in Int, NEW e \in Nat
    PROVE  \E f : IsPowRun(f, b, e) /\ pow_mod_u64(b, e, P) = f[e].result
<1> DEFINE S == PowStart(b, e)
           G == [k \in 1 .. e |-> [t \in PowState |-> pow_turn(t, P)]]
           Fix(f) == f = [k \in 0 .. e |->
                            IF k = 0
                            THEN [base |-> b % P, exp |-> e, result |-> 1 % P]
                            ELSE pow_turn(f[k - 1], P)]
           D == CHOOSE f : Fix(f)
<1>1. S \in PowState /\ G \in [1 .. e -> [PowState -> PowState]]
  BY PowStartTyped, PowTurnTyped
<1>2. PICK f \in [0 .. e -> PowState] : IsLoop(f, e, S, G)
  BY <1>1, LoopExists
<1>3. ASSUME NEW k \in 1 .. e PROVE f[k] = pow_turn(f[k - 1], P)
  <2>1. k - 1 \in 0 .. e
    OBVIOUS
  <2>2. f[k - 1] \in PowState /\ f[k] = G[k][f[k - 1]]
    BY <1>2, <2>1 DEF IsLoop
  <2> QED
    BY <2>2
<1>4. f[0] = S
  BY <1>2 DEF IsLoop
<1>5. Fix(f)
  BY <1>2, <1>3, <1>4 DEF PowStart
<1>6. Fix(D)
  BY <1>5
<1>7. pow_mod_u64(b, e, P) = D[e].result
  BY DEF pow_mod_u64
<1> HIDE DEF D
<1>8. D[0] = S /\ \A k \in 1 .. e : D[k] = pow_turn(D[k - 1], P)
  <2> DEFINE Body(k) == IF k = 0 THEN PowStart(b, e) ELSE pow_turn(D[k - 1], P)
  <2>1. D = [k \in 0 .. e |-> Body(k)]
    BY <1>6 DEF PowStart
  <2> HIDE DEF Body
  <2>2. \A k \in 0 .. e : D[k] = Body(k)
    BY <2>1
  <2>3. \A k \in 1 .. e : k \in 0 .. e /\ k # 0
    OBVIOUS
  <2> QED
    BY <2>2, <2>3 DEF Body
<1>9. IsOver(D, e) /\ IsOver(f, e)
  BY <1>2, <1>6 DEF IsOver
<1>10. D = f
  <2> HIDE DEF S, G, Fix
  <2> QED
    BY <1>3, <1>4, <1>8, <1>9, LoopUnique
<1> QED
  BY <1>2, <1>3, <1>4, <1>7, <1>10 DEF IsPowRun

Reads(t, b, e) ==
    \E m \in Nat, r \in Nat :
        t.base = Power(b, m) /\ t.result = Power(b, r) /\ r + m * t.exp = e

LEMMA Halves ==
    ASSUME NEW e \in Nat
    PROVE  e \div 2 \in Nat /\ e % 2 \in {0, 1} /\ e = 2 * (e \div 2) + (e % 2)
  OBVIOUS

LEMMA PowTurnExact ==
    ASSUME NEW t \in PowState, NEW b \in Int, NEW e \in Nat, Reads(t, b, e)
    PROVE  Reads(pow_turn(t, P), b, e)
<1>1. CASE t.exp = 0
  BY <1>1 DEF pow_turn
<1>2. CASE t.exp # 0
  <2> DEFINE u == pow_turn(t, P)
             h == t.exp \div 2
  <2>1. t.exp \in Nat
    BY DEF PowState
  <2>2. /\ u.base = (t.base * t.base) % P /\ u.exp = h
        /\ u.result = IF t.exp % 2 = 1 THEN (t.result * t.base) % P
                      ELSE t.result
    BY <1>2 DEF pow_turn, mul_mod_u64
  <2>3. PICK m \in Nat, r \in Nat :
            /\ t.base = Power(b, m) /\ t.result = Power(b, r)
            /\ r + m * t.exp = e
    BY DEF Reads
  <2>4. u.base = Power(b, m + m)
    BY <2>2, <2>3, PowerAdd
  <2>5. h \in Nat /\ t.exp % 2 \in {0, 1} /\ t.exp = 2 * h + (t.exp % 2)
    BY <2>1, Halves
  <2>6. CASE t.exp % 2 = 1
    <3>1. u.result = Power(b, r + m)
      BY <2>2, <2>3, <2>6, PowerAdd
    <3>2. (r + m) + (m + m) * h = e
      BY <2>3, <2>5, <2>6
    <3>3. r + m \in Nat /\ m + m \in Nat
      OBVIOUS
    <3> QED
      BY <2>2, <2>4, <3>1, <3>2, <3>3 DEF Reads
  <2>7. CASE t.exp % 2 = 0
    <3>1. u.result = Power(b, r)
      BY <2>2, <2>3, <2>7
    <3>2. r + (m + m) * h = e
      BY <2>3, <2>5, <2>7
    <3>3. m + m \in Nat
      OBVIOUS
    <3> QED
      BY <2>2, <2>4, <3>1, <3>2, <3>3 DEF Reads
  <2> QED
    BY <2>5, <2>6, <2>7
<1> QED
  BY <1>1, <1>2

(***************************************************************************)
(* pow_mod_u64 returns the power.                                          *)
(***************************************************************************)
LEMMA PowExact ==
    ASSUME NEW b \in Int, NEW e \in Nat
    PROVE  pow_mod_u64(b, e, P) = Power(b, e)
<1>1. PICK f : IsPowRun(f, b, e) /\ pow_mod_u64(b, e, P) = f[e].result
  BY PowRunExists
<1>2. /\ \A k \in 0 .. e : f[k] \in PowState
      /\ f[0] = PowStart(b, e)
      /\ \A k \in 1 .. e : f[k] = pow_turn(f[k - 1], P)
  BY <1>1 DEF IsPowRun
<1> DEFINE Left(k) == f[k].exp = 0 \/ f[k].exp + k <= e
           B == {k \in Nat : k <= e => Left(k) /\ Reads(f[k], b, e)}
<1>3. 0 \in B
  <2>1. Power(b, 0) = 1 /\ 1 % P = 1
    BY PowerIs, ModSmall, ParamAssumption
  <2>2. Power(b, 1) = b % P
    <3>1. Power(b, 0 + 1) = (b * Power(b, 0)) % P
      BY PowerIs
    <3> QED
      BY <2>1, <3>1
  <2>3. /\ f[0].base = Power(b, 1) /\ f[0].result = Power(b, 0)
        /\ f[0].exp = e /\ 0 + 1 * f[0].exp = e
    BY <1>2, <2>1, <2>2 DEF PowStart
  <2>4. Reads(f[0], b, e)
    BY <2>3 DEF Reads
  <2> QED
    BY <2>3, <2>4
<1>4. ASSUME NEW k \in Nat, k \in B PROVE k + 1 \in B
  <2>1. SUFFICES ASSUME k + 1 <= e PROVE Left(k + 1) /\ Reads(f[k + 1], b, e)
    OBVIOUS
  <2>2. /\ k \in 0 .. e /\ k + 1 \in 1 .. e /\ (k + 1) - 1 = k
        /\ Left(k) /\ Reads(f[k], b, e)
    BY <1>4, <2>1
  <2>3. f[k + 1] = pow_turn(f[k], P) /\ f[k] \in PowState
    BY <1>2, <2>2
  <2>4. f[k].exp \in Nat
    BY <2>3 DEF PowState
  <2>5. /\ f[k].exp # 0 => f[k + 1].exp = f[k].exp \div 2
        /\ f[k].exp = 0 => f[k + 1].exp = 0
    BY <2>3 DEF pow_turn
  <2>6. f[k].exp # 0 => f[k].exp \div 2 <= f[k].exp - 1
    BY <2>4
  <2>7. Left(k + 1)
    BY <2>2, <2>4, <2>5, <2>6
  <2>8. Reads(f[k + 1], b, e)
    BY <2>2, <2>3, PowTurnExact
  <2> QED
    BY <2>7, <2>8
<1> HIDE DEF B
<1>5. e \in B
  BY <1>3, <1>4, SetInduction
<1>6. f[e].exp = 0
  <2>1. f[e] \in PowState /\ Left(e)
    BY <1>2, <1>5 DEF B
  <2>2. f[e].exp \in Nat
    BY <2>1 DEF PowState
  <2> QED
    BY <2>1, <2>2
<1>7. PICK m \in Nat, r \in Nat : f[e].result = Power(b, r) /\ r + m * f[e].exp = e
  BY <1>5 DEF B, Reads
<1>8. r = e
  BY <1>6, <1>7
<1> QED
  BY <1>1, <1>7, <1>8

-----------------------------------------------------------------------------
(***************************************************************************)
(* The loops over a log: the states are the totals of the terms            *)
(* (x_n mod p) q^(e_n), whatever index the log starts at.                  *)
(***************************************************************************)
Terms(b, base, l, o) ==
    [n \in 1 .. Len(l) |-> (l[n] % P) * Power(base, Exponent(b, o + n - 1))]

LEMMA WeightIs ==
    ASSUME NEW b \in Binaries, NEW base \in Int, NEW i \in Nat
    PROVE  /\ Exponent(b, i) \in Nat
           /\ weight_for_index(b, base, i) = Power(base, Exponent(b, i))
           /\ Power(base, Exponent(b, i)) \in Field
           /\ Power(base, Exponent(b, i)) \in Int
<1>1. PICK c \in Nat, d \in Nat : c = i * i /\ d = i * (i + 1)
  OBVIOUS
<1>2. d \div 2 \in Nat
  OBVIOUS
<1>3. Exponent(b, i) = IF b = "main" THEN c ELSE d \div 2
  BY <1>1 DEF Exponent
<1>4. Exponent(b, i) \in Nat
  BY <1>1, <1>2, <1>3
<1>5. weight_for_index(b, base, i) = pow_mod_u64(base, Exponent(b, i), P)
  BY DEF weight_for_index, square_weight, triangular_weight, Exponent
<1> QED
  BY <1>4, <1>5, PowExact, PowerIs, FieldIsInt

LEMMA TermsTyped ==
    ASSUME NEW b \in Binaries, NEW base \in Int, NEW l \in Seq(Nat), NEW o \in Nat
    PROVE  Terms(b, base, l, o) \in [1 .. Len(l) -> Int]
<1> SUFFICES ASSUME NEW n \in 1 .. Len(l)
             PROVE  (l[n] % P) * Power(base, Exponent(b, o + n - 1)) \in Int
  BY DEF Terms
<1>1. l[n] \in Int /\ o + n - 1 \in Nat
  BY LenProperties, ElementOfSeq
<1>2. PICK x \in Int, i \in Nat : x = l[n] /\ i = o + n - 1
  BY <1>1
<1>3. PICK y \in Int : y = x % P
  BY DivMod
<1>4. PICK z \in Int : z = Power(base, Exponent(b, i))
  BY WeightIs
<1>5. y * z \in Int
  OBVIOUS
<1> QED
  BY <1>2, <1>3, <1>4, <1>5

LEMMA AbsorbExact ==
    ASSUME NEW b \in Binaries, NEW base \in Int, NEW s \in Field,
           NEW x \in Int, NEW i \in Nat
    PROVE  Absorb(b, base, s, x, i)
               = (s + (x % P) * Power(base, Exponent(b, i))) % P
<1>1. PICK y \in Int : y = (x % P) * Power(base, Exponent(b, i))
  BY WeightIs, DivMod
<1>2. term_at(b, base, x, i) = y % P
  BY <1>1, WeightIs DEF term_at, mul_mod_u64
<1>3. y % P \in Field /\ y % P \in Int /\ s \in Int
  BY ResidueInField, FieldIsInt
<1>4. add_mod_u64(s, y % P, P) = (s + (y % P)) % P
  BY <1>3, AddExact
<1>5. ((y % P) + s) % P = (y + s) % P
  BY <1>3, ModPlus
<1>6. (y % P) + s = s + (y % P) /\ y + s = s + y
  BY <1>3
<1>7. PICK z \in Int : z = s + y
  BY <1>3
<1>8. z % P \in Field
  BY ResidueInField
<1>9. (z % P) % P = z % P
  BY <1>8, FieldModSelf
<1> QED
  BY <1>1, <1>2, <1>4, <1>5, <1>6, <1>7, <1>9 DEF Absorb

LEMMA StatesTotal ==
    ASSUME NEW b \in Binaries, NEW base \in Int, NEW l \in Seq(Nat), NEW o \in Nat
    PROVE  IsTotal(States(b, base, l, o), Len(l), Terms(b, base, l, o))
<1> DEFINE N == Len(l)
           t == Terms(b, base, l, o)
           Fix(f) == f = [n \in 0 .. Len(l) |->
                            IF n = 0 THEN 0
                            ELSE Absorb(b, base, f[n - 1], l[n], o + n - 1)]
           D == CHOOSE f : Fix(f)
<1>1. N \in Nat /\ t \in [1 .. N -> Int]
  BY LenProperties, TermsTyped
<1>2. PICK f : IsTotal(f, N, t)
  BY <1>1, TotalExists
<1>3. ASSUME NEW n \in 1 .. N
      PROVE  f[n] = Absorb(b, base, f[n - 1], l[n], o + n - 1)
  <2>1. n - 1 \in 0 .. N /\ o + n - 1 \in Nat /\ l[n] \in Int
    BY <1>1, ElementOfSeq
  <2>2. f[n - 1] \in Field /\ f[n] = (f[n - 1] + t[n]) % P
    BY <1>1, <1>2, <2>1 DEF IsTotal
  <2>3. t[n] = (l[n] % P) * Power(base, Exponent(b, o + n - 1))
    BY DEF Terms
  <2> QED
    BY <2>1, <2>2, <2>3, AbsorbExact
<1>4. f \in [0 .. N -> Field] /\ f[0] = 0
  BY <1>2 DEF IsTotal
<1>5. Fix(f)
  BY <1>3, <1>4
<1>6. Fix(D)
  BY <1>5
<1>7. States(b, base, l, o) = D
  BY DEF States
<1> HIDE DEF D
<1>8. /\ D[0] = 0
      /\ \A n \in 1 .. N : D[n] = Absorb(b, base, D[n - 1], l[n], o + n - 1)
  <2> DEFINE Body(n) == IF n = 0 THEN 0
                        ELSE Absorb(b, base, D[n - 1], l[n], o + n - 1)
  <2>1. D = [n \in 0 .. N |-> Body(n)]
    BY <1>6
  <2> HIDE DEF Body
  <2>2. \A n \in 0 .. N : D[n] = Body(n)
    BY <2>1
  <2>3. 0 \in 0 .. N /\ \A n \in 1 .. N : n \in 0 .. N /\ n # 0
    BY <1>1
  <2> QED
    BY <2>2, <2>3 DEF Body
<1>9. IsOver(D, N) /\ IsOver(f, N)
  BY <1>4, <1>6 DEF IsOver
<1>10. D = f
  <2> HIDE DEF Fix, t, N
  <2> QED
    BY <1>1, <1>3, <1>4, <1>8, <1>9, LoopUnique
<1> QED
  BY <1>2, <1>7, <1>10

LEMMA StateTyped ==
    ASSUME NEW b \in Binaries, NEW base \in Int, NEW l \in Seq(Nat), NEW o \in Nat
    PROVE  /\ shifted_state_for_logs(b, base, l, o) \in Field
           /\ shifted_state_for_logs(b, base, l, o) \in Int
           /\ state_for_logs(b, base, l) \in Field
           /\ state_for_logs(b, base, l) \in Int
<1>1. Len(l) \in 0 .. Len(l) /\ Len(l) \in Nat
  BY LenProperties
<1>2. /\ IsTotal(States(b, base, l, o), Len(l), Terms(b, base, l, o))
      /\ IsTotal(States(b, base, l, 0), Len(l), Terms(b, base, l, 0))
  BY StatesTotal
<1> QED
  BY <1>1, <1>2, TotalTyped DEF state_for_logs, shifted_state_for_logs

(***************************************************************************)
(* The digest in unbounded arithmetic, reduced once, is the state.         *)
(***************************************************************************)
LEMMA DigestIsState ==
    ASSUME NEW b \in Binaries, NEW base \in Int, NEW l \in Seq(Nat)
    PROVE  state_for_logs(b, base, l) = Digest(b, base, l)
<1> DEFINE N == Len(l)
           w(n) == Power(base, Exponent(b, n - 1))
           G == [n \in 1 .. N |-> [r \in Int |-> r + l[n] * w(n)]]
           Fix(f) == f = [n \in 0 .. Len(l) |->
                            IF n = 0 THEN 0
                            ELSE f[n - 1] + l[n] * Power(base, Exponent(b, n - 1))]
           D == CHOOSE f : Fix(f)
<1>1. N \in Nat /\ 0 \in Int
  BY LenProperties
<1>2. ASSUME NEW n \in 1 .. N PROVE l[n] \in Int /\ w(n) \in Int
  <2>1. n - 1 \in Nat /\ l[n] \in Int
    BY <1>1, ElementOfSeq
  <2> QED
    BY <2>1, WeightIs
<1>3. G \in [1 .. N -> [Int -> Int]]
  <2>1. ASSUME NEW n \in 1 .. N, NEW r \in Int PROVE r + l[n] * w(n) \in Int
    <3> HIDE DEF w
    <3> QED
      BY <1>2
  <2> HIDE DEF w
  <2> QED
    BY <2>1
<1>4. PICK f \in [0 .. N -> Int] : IsLoop(f, N, 0, G)
  BY <1>1, <1>3, LoopExists
<1>5. ASSUME NEW n \in 1 .. N PROVE f[n] = f[n - 1] + l[n] * w(n)
  <2>1. n - 1 \in 0 .. N
    OBVIOUS
  <2>2. f[n - 1] \in Int /\ f[n] = G[n][f[n - 1]]
    BY <1>4, <2>1 DEF IsLoop
  <2> HIDE DEF w
  <2> QED
    BY <2>2
<1>6. f[0] = 0
  BY <1>4 DEF IsLoop
<1>7. Fix(f)
  BY <1>4, <1>5, <1>6
<1>8. Fix(D)
  BY <1>7
<1>9. Digest(b, base, l) = D[N] % P
  BY DEF Digest
<1> HIDE DEF D
<1>10. D[0] = 0 /\ \A n \in 1 .. N : D[n] = D[n - 1] + l[n] * w(n)
  <2> DEFINE Body(n) == IF n = 0 THEN 0 ELSE D[n - 1] + l[n] * w(n)
  <2>1. D = [n \in 0 .. N |-> Body(n)]
    BY <1>8
  <2> HIDE DEF Body
  <2>2. \A n \in 0 .. N : D[n] = Body(n)
    BY <2>1
  <2>3. 0 \in 0 .. N /\ \A n \in 1 .. N : n \in 0 .. N /\ n # 0
    BY <1>1
  <2> QED
    BY <2>2, <2>3 DEF Body
<1>11. IsOver(D, N) /\ IsOver(f, N)
  BY <1>4, <1>8 DEF IsOver
<1>12. D = f
  <2> HIDE DEF Fix, w, N
  <2> QED
    BY <1>1, <1>5, <1>6, <1>10, <1>11, LoopUnique
<1> DEFINE g == States(b, base, l, 0)
           t == Terms(b, base, l, 0)
<1>13. IsTotal(g, N, t)
  BY StatesTotal
<1> DEFINE B == {n \in Nat : n <= N => g[n] = f[n] % P}
<1>14. 0 \in B
  <2>1. 0 % P = 0
    BY ModSmall, ParamAssumption
  <2> QED
    BY <1>6, <1>13, <2>1 DEF IsTotal
<1>15. ASSUME NEW n \in Nat, n \in B PROVE n + 1 \in B
  <2>1. SUFFICES ASSUME n + 1 <= N PROVE g[n + 1] = f[n + 1] % P
    OBVIOUS
  <2>2. n + 1 \in 1 .. N /\ (n + 1) - 1 = n /\ n \in 0 .. N /\ n <= N
    BY <1>1, <2>1
  <2>3. g[n] = f[n] % P
    BY <1>15, <2>2
  <2>4. PICK c \in Int, y \in Int, z \in Int :
            c = f[n] /\ y = l[n + 1] /\ z = w(n + 1)
    BY <1>2, <1>4, <2>2
  <2>5. t[n + 1] = (y % P) * z
    <3>1. 0 + (n + 1) - 1 = (n + 1) - 1
      OBVIOUS
    <3> QED
      BY <2>2, <2>4, <3>1 DEF Terms
  <2>6. g[n + 1] = (g[n] + t[n + 1]) % P
    BY <1>13, <2>2 DEF IsTotal
  <2>7. f[n + 1] = c + y * z
    BY <1>5, <2>2, <2>4
  <2> HIDE DEF g, t, w
  <2>8. ((c % P) + z * (y % P)) % P = (c + z * y) % P
    BY ModAffine
  <2>9. z * (y % P) = (y % P) * z /\ z * y = y * z
    <3>1. y % P \in Int
      BY DivMod
    <3> QED
      BY <3>1
  <2> QED
    BY <2>3, <2>4, <2>5, <2>6, <2>7, <2>8, <2>9
<1>16. Nat \subseteq B
  <2> HIDE DEF B
  <2> QED
    BY <1>14, <1>15, SetInduction
<1>17. g[N] = f[N] % P
  BY <1>1, <1>16
<1> HIDE DEF w, G, Fix
<1> QED
  BY <1>9, <1>12, <1>17 DEF state_for_logs

-----------------------------------------------------------------------------
(***************************************************************************)
(* The damaged logs are logs: what each attack keeps and what it changes.  *)
(***************************************************************************)
LEMMA MidIs ==
    ASSUME NEW l \in Seq(Nat), Len(l) >= 1
    PROVE  Mid(l) \in 1 .. Len(l)
<1>1. PICK n \in Nat : n = Len(l) /\ n >= 1
  BY LenProperties
<1>2. n \div 2 + 1 \in 1 .. n
  BY <1>1
<1> QED
  BY <1>1, <1>2 DEF Mid

LEMMA TamperedLog ==
    ASSUME NEW l \in Seq(Nat), Len(l) >= 1
    PROVE  /\ Damaged("tampered", l) \in Seq(Nat)
           /\ Len(Damaged("tampered", l)) = Len(l)
           /\ \A j \in 1 .. Len(l) :
                j # Mid(l) => Damaged("tampered", l)[j] = l[j]
           /\ \/ Damaged("tampered", l)[Mid(l)] = l[Mid(l)] + 1
              \/ Damaged("tampered", l)[Mid(l)] = l[Mid(l)] - 1
<1> DEFINE m == Mid(l)
           e == IF l[m] % 2 = 0 THEN l[m] + 1 ELSE l[m] - 1
<1>1. m \in 1 .. Len(l)
  BY MidIs
<1> HIDE DEF m
<1>2. PICK x \in Nat : x = l[m]
  BY <1>1, ElementOfSeq
<1>3. e \in Nat /\ (e = x + 1 \/ e = x - 1)
  <2>1. x % 2 # 0 => x > 0
    OBVIOUS
  <2> QED
    BY <1>2, <2>1
<1>4. Damaged("tampered", l) = [l EXCEPT ![m] = e]
  BY DEF Damaged, run_edit_attack, m
<1> HIDE DEF e
<1>5. /\ [l EXCEPT ![m] = e] \in Seq(Nat)
      /\ Len([l EXCEPT ![m] = e]) = Len(l)
      /\ \A j \in 1 .. Len(l) :
            [l EXCEPT ![m] = e][j] = IF j = m THEN e ELSE l[j]
  BY <1>1, <1>3, ExceptSeq
<1> QED
  BY <1>1, <1>2, <1>3, <1>4, <1>5 DEF m

LEMMA ReorderedLog ==
    ASSUME NEW l \in Seq(Nat), Len(l) >= 1
    PROVE  /\ Damaged("reordered", l) \in Seq(Nat)
           /\ Len(Damaged("reordered", l)) = Len(l)
           /\ \A j \in 1 .. Len(l) :
                Damaged("reordered", l)[j]
                    = IF j = Len(l) THEN l[1]
                      ELSE IF j = 1 THEN l[Len(l)] ELSE l[j]
<1> DEFINE n == Len(l)
           s == [l EXCEPT ![1] = l[n]]
           d == [s EXCEPT ![n] = l[1]]
<1>1. n \in Nat /\ 1 \in 1 .. n /\ n \in 1 .. n
  BY LenProperties
<1>2. l[1] \in Nat /\ l[n] \in Nat
  BY <1>1, ElementOfSeq
<1>3. Damaged("reordered", l) = d
  BY DEF Damaged, run_reorder_attack, Last
<1> HIDE DEF n
<1>4. /\ s \in Seq(Nat) /\ Len(s) = n
      /\ \A j \in 1 .. n : s[j] = IF j = 1 THEN l[n] ELSE l[j]
  BY <1>1, <1>2, ExceptSeq DEF n
<1> HIDE DEF s
<1>5. n \in 1 .. Len(s)
  BY <1>1, <1>4
<1>6. /\ d \in Seq(Nat) /\ Len(d) = Len(s)
      /\ \A j \in 1 .. Len(s) : d[j] = IF j = n THEN l[1] ELSE s[j]
  BY <1>2, <1>4, <1>5, ExceptSeq
<1> HIDE DEF d
<1> QED
  BY <1>3, <1>4, <1>6 DEF n

\* A part of a log.
LEMMA PartTyped ==
    ASSUME NEW l \in Seq(Nat), NEW a \in Nat, NEW z \in Nat, a >= 1, z <= Len(l)
    PROVE  /\ SubSeq(l, a, z) \in Seq(Nat)
           /\ Len(SubSeq(l, a, z)) = IF a <= z THEN z - a + 1 ELSE 0
           /\ \A j \in 1 .. z - a + 1 : SubSeq(l, a, z)[j] = l[a + j - 1]
<1>1. Len(l) \in Nat
  BY LenProperties
<1>2. ASSUME NEW i \in a .. z PROVE l[i] \in Nat
  <2>1. i \in 1 .. Len(l)
    BY <1>1
  <2> QED
    BY <2>1, ElementOfSeq
<1>3. a \in Int /\ z \in Int
  OBVIOUS
<1> QED
  BY <1>2, <1>3, SubSeqProperties

LEMMA TruncatedLog ==
    ASSUME NEW l \in Seq(Nat), Len(l) >= 1
    PROVE  /\ Damaged("truncated", l) \in Seq(Nat)
           /\ Len(Damaged("truncated", l)) \in Nat
           /\ Len(Damaged("truncated", l)) < Len(l)
           /\ \A j \in 1 .. Len(Damaged("truncated", l)) :
                Damaged("truncated", l)[j] = l[j]
<1>1. PICK n \in Nat : n = Len(l) /\ n >= 1
  BY LenProperties
<1>2. PICK k \in Nat : k = n \div 2 /\ k < n
  BY <1>1
<1> DEFINE d == Damaged("truncated", l)
           s == SubSeq(l, 1, k)
<1>3. d = s
  BY <1>1, <1>2 DEF Damaged, run_truncation_attack
<1>4. /\ s \in Seq(Nat)
      /\ Len(s) = IF 1 <= k THEN k - 1 + 1 ELSE 0
      /\ \A j \in 1 .. k - 1 + 1 : s[j] = l[1 + j - 1]
  BY <1>1, <1>2, PartTyped
<1> HIDE DEF d, s
<1>5. Len(s) = k
  BY <1>2, <1>4
<1>6. \A j \in 1 .. k : s[j] = l[j]
  <2>1. ASSUME NEW j \in 1 .. k PROVE s[j] = l[j]
    <3>1. j \in 1 .. k - 1 + 1 /\ 1 + j - 1 = j
      BY <1>2
    <3> QED
      BY <1>4, <3>1
  <2> QED
    BY <2>1
<1>7. d \in Seq(Nat) /\ Len(d) = k /\ \A j \in 1 .. k : d[j] = l[j]
  BY <1>3, <1>4, <1>5, <1>6
<1> QED
  BY <1>1, <1>2, <1>7 DEF d

LEMMA Joined ==
    ASSUME NEW s \in Seq(Nat), NEW t \in Seq(Nat)
    PROVE  s \o t \in Seq(Nat) /\ Len(s \o t) = Len(s) + Len(t)
  BY ConcatProperties

LEMMA InsertedLog ==
    ASSUME NEW l \in Seq(Nat), Len(l) >= 1
    PROVE  /\ Damaged("inserted", l) \in Seq(Nat)
           /\ Len(Damaged("inserted", l)) = Len(l) + 1
<1>1. PICK n \in Nat : n = Len(l) /\ n >= 1
  BY LenProperties
<1>2. PICK m \in Nat : m = Mid(l) /\ m >= 1 /\ m <= n
  BY <1>1, MidIs
<1>3. InsertionValue \in Nat
  BY MetricsAssumption, ParamAssumption
<1> DEFINE s == SubSeq(l, 1, m - 1)
           v == << InsertionValue >>
           t == SubSeq(l, m, n)
<1>4. Damaged("inserted", l) = s \o v \o t
  BY <1>1, <1>2 DEF Damaged, run_insertion_attack, InsertAt
<1>5. m - 1 \in Nat /\ m - 1 <= n
  BY <1>2
<1>6. s \in Seq(Nat) /\ Len(s) = m - 1
  BY <1>1, <1>2, <1>5, PartTyped
<1>7. t \in Seq(Nat) /\ Len(t) = n - m + 1
  BY <1>1, <1>2, PartTyped
<1>8. v \in Seq(Nat) /\ Len(v) = 1
  BY <1>3
<1> HIDE DEF s, v, t
<1>9. PICK r \in Seq(Nat) : r = s \o v /\ Len(r) = Len(s) + Len(v)
  BY <1>6, <1>8, Joined
<1>10. PICK d \in Seq(Nat) : d = r \o t /\ Len(d) = Len(r) + Len(t)
  BY <1>7, Joined
<1>11. Len(d) = n + 1
  BY <1>6, <1>7, <1>8, <1>9, <1>10
<1> QED
  BY <1>1, <1>4, <1>9, <1>10, <1>11

LEMMA DeletedLog ==
    ASSUME NEW l \in Seq(Nat), Len(l) >= 1
    PROVE  /\ Damaged("deleted", l) \in Seq(Nat)
           /\ Len(Damaged("deleted", l)) = Len(l) - 1
<1>1. PICK n \in Nat : n = Len(l) /\ n >= 1
  BY LenProperties
<1>2. PICK m \in Nat : m = Mid(l) /\ m >= 1 /\ m <= n
  BY <1>1, MidIs
<1> DEFINE s == SubSeq(l, 1, m - 1)
           t == SubSeq(l, m + 1, n)
<1>3. Damaged("deleted", l) = s \o t
  BY <1>1, <1>2 DEF Damaged, run_deletion_attack, RemoveAt
<1>4. m - 1 \in Nat /\ m - 1 <= n
  BY <1>2
<1>5. s \in Seq(Nat) /\ Len(s) = m - 1
  BY <1>1, <1>2, <1>4, PartTyped
<1>6. t \in Seq(Nat) /\ Len(t) = n - m
  BY <1>1, <1>2, PartTyped
<1> HIDE DEF s, t
<1>7. PICK d \in Seq(Nat) : d = s \o t /\ Len(d) = Len(s) + Len(t)
  BY <1>5, <1>6, Joined
<1>8. Len(d) = n - 1
  BY <1>2, <1>5, <1>6, <1>7
<1> QED
  BY <1>1, <1>3, <1>7, <1>8

AttackNames == {"tampered", "reordered", "inserted", "deleted", "truncated"}

LEMMA DamagedTyped ==
    ASSUME NEW l \in Seq(Nat), Len(l) >= 1, NEW attack \in AttackNames
    PROVE  /\ Damaged(attack, l) \in Seq(Nat)
           /\ Len(Damaged(attack, l)) = Len(l)
                <=> attack \in {"tampered", "reordered"}
<1>1. Len(l) \in Nat
  BY LenProperties
<1>2. CASE attack = "tampered"
  BY <1>2, TamperedLog
<1>3. CASE attack = "reordered"
  BY <1>3, ReorderedLog
<1>4. CASE attack = "inserted"
  BY <1>1, <1>4, InsertedLog
<1>5. CASE attack = "deleted"
  BY <1>1, <1>5, DeletedLog
<1>6. CASE attack = "truncated"
  BY <1>1, <1>6, TruncatedLog
<1> QED
  BY <1>2, <1>3, <1>4, <1>5, <1>6 DEF AttackNames

-----------------------------------------------------------------------------
(***************************************************************************)
(* The states of two logs: where their terms agree the difference is       *)
(* carried along, where they differ it changes.                            *)
(***************************************************************************)
LEMMA TermIs ==
    ASSUME NEW b \in Binaries, NEW base \in Int, NEW l \in Seq(Nat), NEW o \in Nat,
           NEW n \in 1 .. Len(l)
    PROVE  \E x \in Field, w \in Field :
             /\ x \in Int /\ w \in Int
             /\ x = l[n] % P /\ w = Power(base, Exponent(b, o + n - 1))
             /\ Terms(b, base, l, o)[n] = x * w
<1>1. PICK y \in Nat, i \in Nat : y = l[n] /\ i = o + n - 1
  BY LenProperties, ElementOfSeq
<1>2. PICK x \in Field : x = y % P
  BY ResidueInField
<1>3. PICK w \in Field : w = Power(base, Exponent(b, i))
  BY WeightIs
<1>4. Terms(b, base, l, o)[n] = (l[n] % P) * Power(base, Exponent(b, o + n - 1))
  BY DEF Terms
<1>5. x \in Int /\ w \in Int
  BY FieldIsInt
<1> QED
  BY <1>1, <1>2, <1>3, <1>4, <1>5

LEMMA TermAtStart ==
    ASSUME NEW b \in Binaries, NEW base \in Int, NEW l \in Seq(Nat),
           NEW n \in 1 .. Len(l)
    PROVE  \E x \in Field, w \in Field :
             /\ x \in Int /\ w \in Int
             /\ x = l[n] % P /\ w = Power(base, Exponent(b, n - 1))
             /\ Terms(b, base, l, 0)[n] = x * w
<1>1. PICK o \in Nat, i \in Nat : o = 0 /\ i = n - 1
  BY LenProperties
<1>2. o + n - 1 = i
  BY <1>1
<1>3. \E x \in Field, w \in Field :
         /\ x \in Int /\ w \in Int
         /\ x = l[n] % P /\ w = Power(base, Exponent(b, o + n - 1))
         /\ Terms(b, base, l, o)[n] = x * w
  BY TermIs
<1> QED
  BY <1>1, <1>2, <1>3

LEMMA WeightNonzero ==
    ASSUME IsDomain, NEW b \in Binaries, NEW base \in Int, base % P # 0,
           NEW i \in Nat
    PROVE  Power(base, Exponent(b, i)) % P # 0
<1>1. PICK e \in Nat : e = Exponent(b, i)
  BY WeightIs
<1>2. Power(base, e) % P # 0
  BY PowerNonzero
<1> QED
  BY <1>1, <1>2

\* Residues that differ, weighed alike, differ.
LEMMA WeighedDiffer ==
    ASSUME IsDomain, NEW x \in Field, NEW y \in Field, x # y,
           NEW w \in Int, w % P # 0
    PROVE  (x * w - y * w) % P # 0
<1>1. x \in Int /\ y \in Int
  BY FieldIsInt
<1>2. PICK d \in Int : d = x - y
  BY <1>1
<1>3. x % P = x /\ y % P = y
  BY <1>1, FieldModSelf
<1>4. d % P # 0
  BY <1>1, <1>2, <1>3, ModMinus
<1>5. (d * w) % P # 0
  BY <1>4, DomainProduct
<1>6. d * w = x * w - y * w
  BY <1>1, <1>2
<1> QED
  BY <1>5, <1>6

\* The states of both logs, as totals.
LEMMA BothStates ==
    ASSUME NEW b \in Binaries, NEW base \in Int,
           NEW l \in Seq(Nat), NEW m \in Seq(Nat), Len(m) = Len(l)
    PROVE  /\ Len(l) \in Nat
           /\ Terms(b, base, l, 0) \in [1 .. Len(l) -> Int]
           /\ Terms(b, base, m, 0) \in [1 .. Len(l) -> Int]
           /\ IsTotal(States(b, base, l, 0), Len(l), Terms(b, base, l, 0))
           /\ IsTotal(States(b, base, m, 0), Len(l), Terms(b, base, m, 0))
           /\ Summed(States(b, base, l, 0), States(b, base, m, 0),
                     Terms(b, base, l, 0), Terms(b, base, m, 0), Len(l))
<1>1. /\ Len(l) \in Nat
      /\ Terms(b, base, l, 0) \in [1 .. Len(l) -> Int]
      /\ Terms(b, base, m, 0) \in [1 .. Len(l) -> Int]
      /\ IsTotal(States(b, base, l, 0), Len(l), Terms(b, base, l, 0))
      /\ IsTotal(States(b, base, m, 0), Len(l), Terms(b, base, m, 0))
  BY LenProperties, TermsTyped, StatesTotal
<1> QED
  BY <1>1 DEF Summed

LEMMA TermsAgree ==
    ASSUME NEW b \in Binaries, NEW base \in Int,
           NEW l \in Seq(Nat), NEW m \in Seq(Nat), Len(m) = Len(l),
           NEW j \in 1 .. Len(l), l[j] % P = m[j] % P
    PROVE  Terms(b, base, l, 0)[j] = Terms(b, base, m, 0)[j]
  BY DEF Terms

LEMMA TermsApart ==
    ASSUME IsDomain, NEW b \in Binaries, NEW base \in Int, base % P # 0,
           NEW l \in Seq(Nat), NEW m \in Seq(Nat), Len(m) = Len(l),
           NEW j \in 1 .. Len(l), l[j] % P # m[j] % P
    PROVE  (Terms(b, base, l, 0)[j] - Terms(b, base, m, 0)[j]) % P # 0
<1>1. j \in 1 .. Len(m) /\ 0 \in Nat /\ 0 + j - 1 \in Nat
  BY LenProperties
<1>2. PICK x \in Field, w \in Field :
         /\ x \in Int /\ w \in Int
         /\ x = l[j] % P /\ w = Power(base, Exponent(b, 0 + j - 1))
         /\ Terms(b, base, l, 0)[j] = x * w
  BY <1>1, TermIs
<1>3. PICK y \in Field, v \in Field :
         /\ y \in Int /\ v \in Int
         /\ y = m[j] % P /\ v = Power(base, Exponent(b, 0 + j - 1))
         /\ Terms(b, base, m, 0)[j] = y * v
  BY <1>1, TermIs
<1>4. w % P # 0
  BY <1>1, <1>2, WeightNonzero
<1>5. (x * w - y * w) % P # 0
  BY <1>2, <1>3, <1>4, WeighedDiffer
<1> QED
  BY <1>2, <1>3, <1>5

-----------------------------------------------------------------------------
(***************************************************************************)
(* What the state shows of an attack.  A flipped bit: one term changes, by *)
(* a factor that p does not divide times a weight that it does not.        *)
(***************************************************************************)
LEMMA TamperedSeen ==
    ASSUME IsDomain, NEW b \in Binaries, NEW base \in Int, base % P # 0,
           NEW l \in Seq(Nat), Len(l) >= 1
    PROVE  state_for_logs(b, base, l)
               # state_for_logs(b, base, Damaged("tampered", l))
<1> DEFINE m == Damaged("tampered", l)
           i == Mid(l)
<1>1. /\ m \in Seq(Nat) /\ Len(m) = Len(l)
      /\ \A j \in 1 .. Len(l) : j # i => m[j] = l[j]
      /\ m[i] = l[i] + 1 \/ m[i] = l[i] - 1
      /\ i \in 1 .. Len(l)
  BY TamperedLog, MidIs
<1> HIDE DEF m, i
<1> DEFINE N == Len(l)
           t == Terms(b, base, l, 0)
           u == Terms(b, base, m, 0)
           f == States(b, base, l, 0)
           g == States(b, base, m, 0)
<1>2. N \in Nat /\ Summed(f, g, t, u, N)
  BY <1>1, BothStates
<1>3. AgreeBut(t, u, i, N)
  BY <1>1, TermsAgree DEF AgreeBut
<1>4. l[i] % P # m[i] % P
  <2>1. PICK x \in Nat, y \in Nat : x = l[i] /\ y = m[i]
    BY <1>1, ElementOfSeq
  <2>2. PICK d \in Int : d = x - y /\ (d = 1 \/ d = -1)
    BY <1>1, <2>1
  <2>3. d % P # 0
    <3>1. 1 % P = 1
      BY ModSmall, ParamAssumption
    <3>2. CASE d = -1
      <4>1. P - 1 \in 0 .. (P - 1) /\ d = (-1) * P + (P - 1) /\ P - 1 # 0
        BY <3>2, ParamAssumption
      <4>2. d % P = P - 1
        BY <4>1, ModOf
      <4> QED
        BY <4>1, <4>2
    <3> QED
      BY <2>2, <3>1, <3>2
  <2>4. x % P # y % P
    BY <2>2, <2>3, ModMinus
  <2> QED
    BY <2>1, <2>4
<1>5. (t[i] - u[i]) % P # 0
  BY <1>1, <1>4, TermsApart
<1>6. Delta(f, g, N) = (t[i] - u[i]) % P
  <2>1. i \in 1 .. N
    BY <1>1
  <2> HIDE DEF f, g, t, u, N
  <2>2. DriftsOnce(f, g, t, u, i, N)
    BY <1>2, <1>3, <2>1, SingleChange
  <2> QED
    BY <2>2 DEF DriftsOnce
<1>7. N \in 0 .. N
  BY <1>2
<1>8. f[N] # g[N]
  <2> HIDE DEF f, g, t, u, N
  <2> QED
    BY <1>2, <1>5, <1>6, <1>7, DeltaNone
<1> QED
  BY <1>1, <1>8 DEF state_for_logs, m

(***************************************************************************)
(* The exchange of the first and the last entry changes the state by their *)
(* difference times what the last weight exceeds 1, the first weight, by.  *)
(***************************************************************************)
Exchange(x, z, w) == (z - x) * (w - 1)

ExchangeVanishes(x, z, w) == Exchange(x, z, w) % P = 0

LEMMA ExchangeZero ==
    ASSUME IsDomain, NEW x \in Field, NEW z \in Field, NEW w \in Field
    PROVE  /\ ExchangeVanishes(x, z, w) => x = z \/ w = 1
           /\ x = z \/ w = 1 => ExchangeVanishes(x, z, w)
<1>1. PICK d \in Int, v \in Int : d = z - x /\ v = w - 1
  BY FieldIsInt
<1>2. x \in Int /\ z \in Int /\ w \in Int
  BY FieldIsInt
<1>3. x % P = x /\ z % P = z /\ w % P = w /\ 1 % P = 1 /\ 0 % P = 0
  BY <1>2, FieldModSelf, ModSmall, ParamAssumption
<1>4. Exchange(x, z, w) = d * v
  BY <1>1 DEF Exchange
<1>5. ASSUME x # z, w # 1 PROVE (d * v) % P # 0
  <2>1. d % P # 0
    BY <1>1, <1>2, <1>3, <1>5, ModMinus
  <2>2. v % P # 0
    BY <1>1, <1>2, <1>3, <1>5, ModMinus
  <2> QED
    BY <2>1, <2>2, DomainProduct
<1>6. ASSUME x = z \/ w = 1 PROVE d * v = 0
  <2>1. d = 0 \/ v = 0
    BY <1>1, <1>2, <1>6
  <2> QED
    BY <2>1
<1>7. (d * v) % P = 0 => x = z \/ w = 1
  BY <1>5
<1>8. x = z \/ w = 1 => (d * v) % P = 0
  BY <1>3, <1>6
<1> QED
  BY <1>4, <1>7, <1>8 DEF ExchangeVanishes

LEMMA ExchangeSum ==
    ASSUME NEW x \in Field, NEW z \in Field, NEW w \in Field
    PROVE  (((x - z) % P) + (z * w - x * w)) % P = Exchange(x, z, w) % P
<1>1. PICK d \in Int, v \in Int : d = x - z /\ v = z * w - x * w
  BY FieldIsInt
<1>2. x \in Int /\ z \in Int /\ w \in Int
  BY FieldIsInt
<1>3. ((d % P) + v) % P = (d + v) % P
  BY ModPlus
<1>4. d + v = Exchange(x, z, w)
  BY <1>1, <1>2 DEF Exchange
<1> QED
  BY <1>1, <1>3, <1>4

ExchangeSeen(b, base, l, m) ==
    state_for_logs(b, base, l) # state_for_logs(b, base, m)
        <=> /\ l[1] % P # l[Len(l)] % P
            /\ Power(base, Exponent(b, Len(l) - 1)) # 1

Exchanged(f, g, N, x, z, w) == Delta(f, g, N) = Exchange(x, z, w) % P

LEMMA ExchangeDelta ==
    ASSUME NEW N \in Nat, N > 1,
           NEW t, NEW u, NEW f, NEW g, Summed(f, g, t, u, N),
           NEW x \in Field, NEW z \in Field, NEW w \in Field,
           t[1] = x, u[1] = z, t[N] = z * w, u[N] = x * w,
           \A j \in 2 .. (N - 1) : t[j] = u[j]
    PROVE  Exchanged(f, g, N, x, z, w)
<1>1. PICK a \in 0 .. N, k \in 0 .. N : a = 1 /\ k = N - 1 /\ k \in a .. N
  OBVIOUS
<1>2. Delta(f, g, 0) = 0
  BY DeltaFirst
<1>3. a \in 1 .. N /\ N \in 1 .. N
  BY <1>1
<1>4. Drifts(f, g, t, u, a) /\ Drifts(f, g, t, u, N)
  BY <1>3, DeltaStep
<1>5. Delta(f, g, a) = (x - z) % P
  <2>1. PICK d \in Int : d = x - z
    BY FieldIsInt
  <2>2. Delta(f, g, a) = (Delta(f, g, a - 1) + (t[a] - u[a])) % P
    BY <1>4 DEF Drifts
  <2>3. Delta(f, g, a) = (0 + d) % P /\ 0 + d = d
    BY <1>1, <1>2, <2>1, <2>2
  <2> QED
    BY <2>1, <2>3
<1>6. AgreeBetween(t, u, a, k)
  BY <1>1 DEF AgreeBetween
<1>7. Delta(f, g, k) = Delta(f, g, a)
  BY <1>1, <1>6, DeltaCarried
<1>8. Delta(f, g, N) = (Delta(f, g, k) + (z * w - x * w)) % P
  BY <1>1, <1>4 DEF Drifts
<1>9. Delta(f, g, N) = (((x - z) % P) + (z * w - x * w)) % P
  BY <1>5, <1>7, <1>8
<1> QED
  BY <1>9, ExchangeSum DEF Exchanged

LEMMA ReorderedSeen ==
    ASSUME IsDomain, NEW b \in Binaries, NEW base \in Int,
           NEW l \in Seq(Nat), Len(l) >= 1
    PROVE  ExchangeSeen(b, base, l, Damaged("reordered", l))
<1> DEFINE m == Damaged("reordered", l)
           t == Terms(b, base, l, 0)
           u == Terms(b, base, m, 0)
           f == States(b, base, l, 0)
           g == States(b, base, m, 0)
<1>1. PICK N \in Nat : N = Len(l) /\ N >= 1
  BY LenProperties
<1>2. /\ m \in Seq(Nat) /\ Len(m) = N
      /\ \A j \in 1 .. N :
           m[j] = IF j = N THEN l[1] ELSE IF j = 1 THEN l[N] ELSE l[j]
  BY <1>1, ReorderedLog
<1> HIDE DEF m
<1>3. Summed(f, g, t, u, N)
  BY <1>1, <1>2, BothStates
<1>4. state_for_logs(b, base, l) = f[N] /\ state_for_logs(b, base, m) = g[N]
  BY <1>1, <1>2 DEF state_for_logs
<1>5. ASSUME NEW j \in 1 .. N, m[j] = l[j] PROVE t[j] = u[j]
  BY <1>1, <1>2, <1>5, TermsAgree
<1>6. PICK k \in 1 .. N, n \in 1 .. N : k = 1 /\ n = N
  BY <1>1
<1>7. CASE N = 1
  <2>1. AgreeUpTo(t, u, N)
    BY <1>2, <1>5, <1>7 DEF AgreeUpTo
  <2> HIDE DEF f, g, t, u
  <2>2. N \in 0 .. N
    BY <1>1
  <2>3. Delta(f, g, N) = 0
    BY <1>3, <2>1, <2>2, NoChange
  <2>4. f[N] = g[N]
    BY <1>3, <2>2, <2>3, DeltaNone
  <2> QED
    BY <1>1, <1>4, <1>7, <2>4 DEF ExchangeSeen, m
<1>8. CASE N > 1
  <2>1. /\ k \in 1 .. Len(m) /\ n \in 1 .. Len(m)
        /\ k \in 1 .. Len(l) /\ n \in 1 .. Len(l)
    BY <1>1, <1>2
  <2>2. PICK x \in Field, w1 \in Field :
           /\ x \in Int /\ w1 \in Int
           /\ x = l[k] % P /\ w1 = Power(base, Exponent(b, k - 1))
           /\ t[k] = x * w1
    BY <2>1, TermAtStart
  <2>3. PICK z1 \in Field, v1 \in Field :
           /\ z1 \in Int /\ v1 \in Int
           /\ z1 = m[k] % P /\ v1 = Power(base, Exponent(b, k - 1))
           /\ u[k] = z1 * v1
    BY <1>2, <2>1, TermAtStart
  <2>4. PICK z \in Field, w \in Field :
           /\ z \in Int /\ w \in Int
           /\ z = l[n] % P /\ w = Power(base, Exponent(b, n - 1))
           /\ t[n] = z * w
    BY <2>1, TermAtStart
  <2>5. PICK x1 \in Field, v \in Field :
           /\ x1 \in Int /\ v \in Int
           /\ x1 = m[n] % P /\ v = Power(base, Exponent(b, n - 1))
           /\ u[n] = x1 * v
    BY <1>2, <2>1, TermAtStart
  <2>6. m[k] = l[n] /\ m[n] = l[k]
    BY <1>2, <1>6, <1>8
  <2>7. w1 = 1 /\ v1 = 1
    <3>1. Exponent(b, 0) = 0
      BY DEF Exponent
    <3>2. Power(base, 0) = 1 /\ k - 1 = 0
      BY <1>6, PowerIs
    <3> QED
      BY <2>2, <2>3, <3>1, <3>2
  <2>8. t[1] = x /\ u[1] = z /\ t[N] = z * w /\ u[N] = x * w
    <3>1. t[1] = t[k] /\ u[1] = u[k] /\ t[N] = t[n] /\ u[N] = u[n]
      BY <1>6
    <3>2. z1 = z /\ x1 = x /\ v = w
      BY <2>2, <2>3, <2>4, <2>5, <2>6
    <3> HIDE DEF t, u
    <3> QED
      BY <2>2, <2>3, <2>4, <2>5, <2>7, <3>1, <3>2
  <2>9. \A j \in 2 .. (N - 1) : t[j] = u[j]
    <3>1. ASSUME NEW j \in 2 .. (N - 1) PROVE j \in 1 .. N /\ m[j] = l[j]
      BY <1>2
    <3> QED
      BY <1>5, <3>1
  <2> HIDE DEF f, g, t, u
  <2>10. Exchanged(f, g, N, x, z, w)
    BY <1>3, <1>8, <2>8, <2>9, ExchangeDelta
  <2>11. Delta(f, g, N) = Exchange(x, z, w) % P
    BY <2>10 DEF Exchanged
  <2>12. N \in 0 .. N
    BY <1>1
  <2>13. f[N] = g[N] <=> ExchangeVanishes(x, z, w)
    BY <1>3, <2>11, <2>12, DeltaNone DEF ExchangeVanishes
  <2>14. f[N] # g[N] <=> x # z /\ w # 1
    BY <2>13, ExchangeZero
  <2>15. /\ x = l[1] % P /\ z = l[Len(l)] % P
         /\ w = Power(base, Exponent(b, Len(l) - 1))
    BY <1>1, <1>6, <2>2, <2>4
  <2> QED
    BY <1>4, <2>14, <2>15 DEF ExchangeSeen, m
<1>9. N = 1 \/ N > 1
  BY <1>1
<1> QED
  BY <1>7, <1>8, <1>9

(***************************************************************************)
(* What a truncation loses is the sum of the lost entries at their offset. *)
(***************************************************************************)
RestOf(l, s) == SubSeq(l, s + 1, Len(l))

LEMMA RestTerms ==
    ASSUME NEW b \in Binaries, NEW base \in Int,
           NEW l \in Seq(Nat), NEW s \in 0 .. Len(l)
    PROVE  /\ RestOf(l, s) \in Seq(Nat)
           /\ Len(RestOf(l, s)) \in Nat /\ s + Len(RestOf(l, s)) = Len(l)
           /\ Excerpted(Terms(b, base, RestOf(l, s), s), Terms(b, base, l, 0), s,
                        Len(RestOf(l, s)))
<1>1. PICK N \in Nat, k \in Nat : N = Len(l) /\ k = s + 1 /\ k >= 1
  BY LenProperties
<1> DEFINE r == RestOf(l, s)
<1>2. r = SubSeq(l, k, N)
  BY <1>1 DEF RestOf
<1>3. /\ r \in Seq(Nat)
      /\ Len(r) = IF k <= N THEN N - k + 1 ELSE 0
      /\ \A j \in 1 .. N - k + 1 : r[j] = l[k + j - 1]
  BY <1>1, <1>2, PartTyped
<1>4. Len(r) = N - s
  BY <1>1, <1>3
<1>5. Len(r) \in Nat /\ s + Len(r) = N /\ N - k + 1 = N - s
  BY <1>1, <1>4
<1> HIDE DEF r
<1>6. ASSUME NEW n \in 1 .. Len(r)
      PROVE  Terms(b, base, r, s)[n] = Terms(b, base, l, 0)[s + n]
  <2>1. n \in 1 .. N - k + 1 /\ s + n \in 1 .. Len(l) /\ k + n - 1 = s + n
    BY <1>1, <1>4, <1>5
  <2>2. r[n] = l[s + n]
    BY <1>3, <2>1
  <2>3. s + n - 1 = 0 + (s + n) - 1
    BY <1>5
  <2> QED
    BY <2>1, <2>2, <2>3 DEF Terms
<1> QED
  BY <1>1, <1>3, <1>5, <1>6 DEF Excerpted, r

LEMMA StateSplits ==
    ASSUME NEW b \in Binaries, NEW base \in Int,
           NEW l \in Seq(Nat), NEW m \in Seq(Nat), Len(m) <= Len(l),
           \A j \in 1 .. Len(m) : m[j] = l[j]
    PROVE  state_for_logs(b, base, l)
               = (state_for_logs(b, base, m)
                    + shifted_state_for_logs(b, base, RestOf(l, Len(m)), Len(m))) % P
<1>1. Len(m) \in 0 .. Len(l) /\ Len(m) \in Nat /\ Len(l) \in Nat
  BY LenProperties
<1> DEFINE s == Len(m)
           N == Len(l)
           r == RestOf(l, s)
           M == Len(r)
           t == Terms(b, base, l, 0)
           u == Terms(b, base, m, 0)
           v == Terms(b, base, r, s)
           f == States(b, base, l, 0)
           g == States(b, base, m, 0)
           h == States(b, base, r, s)
<1>2. r \in Seq(Nat) /\ M \in Nat /\ s + M = N /\ Excerpted(v, t, s, M)
  BY <1>1, RestTerms
<1>3. t \in [1 .. N -> Int] /\ IsTotal(f, N, t) /\ IsTotal(g, s, u)
      /\ IsTotal(h, M, v)
  BY <1>1, <1>2, TermsTyped, StatesTotal
<1>4. \A n \in 1 .. s : u[n] = t[n]
  <2>1. ASSUME NEW n \in 1 .. s PROVE n \in 1 .. N /\ m[n] = l[n]
    BY <1>1
  <2> QED
    BY <2>1 DEF Terms
<1>5. f[N] = (g[s] + h[M]) % P
  <2>1. N \in Nat /\ s \in 0 .. N
    BY <1>1
  <2> HIDE DEF s, N, r, M, t, u, v, f, g, h
  <2>2. SumsTo(f, N, g, s, h, M)
    BY <1>2, <1>3, <1>4, <2>1, TotalsSplit
  <2> QED
    BY <2>2 DEF SumsTo
<1> QED
  BY <1>5 DEF state_for_logs, shifted_state_for_logs

TruncationSeen(b, base, l, m) ==
    state_for_logs(b, base, l) # state_for_logs(b, base, m)
        <=> shifted_state_for_logs(b, base, RestOf(l, Len(m)), Len(m)) # 0

LEMMA TruncatedSeen ==
    ASSUME NEW b \in Binaries, NEW base \in Int, NEW l \in Seq(Nat), Len(l) >= 1
    PROVE  TruncationSeen(b, base, l, Damaged("truncated", l))
<1> DEFINE m == Damaged("truncated", l)
<1>1. /\ m \in Seq(Nat) /\ Len(m) \in Nat /\ Len(m) < Len(l)
      /\ \A j \in 1 .. Len(m) : m[j] = l[j]
  BY TruncatedLog
<1> HIDE DEF m
<1>2. Len(l) \in Nat /\ Len(m) \in 0 .. Len(l) /\ Len(m) <= Len(l)
  BY <1>1, LenProperties
<1>3. RestOf(l, Len(m)) \in Seq(Nat)
  BY <1>2, RestTerms
<1>4. PICK x \in Field : x = state_for_logs(b, base, m)
  BY <1>1, StateTyped
<1>5. PICK y \in Field : y = shifted_state_for_logs(b, base, RestOf(l, Len(m)), Len(m))
  BY <1>1, <1>3, StateTyped
<1>6. state_for_logs(b, base, l) = (x + y) % P
  BY <1>1, <1>2, <1>4, <1>5, StateSplits
<1>7. x \in Int /\ y \in Int /\ x % P = x /\ 0 \in Field /\ 0 \in Int
  BY FieldIsInt, FieldModSelf, ParamAssumption DEF Field
<1>8. y = 0 => (x + y) % P = x
  <2>1. x + 0 = x
    BY <1>7
  <2> QED
    BY <1>7, <2>1
<1>9. ASSUME (x + y) % P = x PROVE y = 0
  <2>1. y + x = x + y /\ 0 + x = x
    BY <1>7
  <2>2. (y + x) % P = (0 + x) % P
    BY <1>7, <1>9, <2>1
  <2> QED
    BY <1>7, <2>2, FieldCancel
<1> QED
  BY <1>4, <1>5, <1>6, <1>8, <1>9 DEF TruncationSeen, m

-----------------------------------------------------------------------------
(***************************************************************************)
(* The first and the last position where two functions differ.             *)
(***************************************************************************)
Over(F, N) == DOMAIN F = 1 .. N /\ F = [n \in 1 .. N |-> F[n]]

IsFirst(F, G, i) == F[i] # G[i] /\ \A j \in 1 .. (i - 1) : F[j] = G[j]

LEMMA FirstExists ==
    ASSUME NEW N \in Nat, NEW F, NEW G, Over(F, N), Over(G, N), F # G
    PROVE  \E i \in 1 .. N : IsFirst(F, G, i)
<1> DEFINE D == {i \in 1 .. N : F[i] # G[i]}
<1>1. D \subseteq Nat
  OBVIOUS
<1>2. D # {}
  BY DEF Over
<1>3. PICK i \in D : \A k \in D : i <= k
  BY <1>1, <1>2, NatMinimum
<1>4. ASSUME NEW j \in 1 .. (i - 1) PROVE F[j] = G[j]
  BY <1>3
<1> QED
  BY <1>3, <1>4 DEF IsFirst

LEMMA FirstIs ==
    ASSUME NEW N \in Nat, NEW F, NEW G, Over(F, N), Over(G, N),
           NEW i \in 1 .. N, IsFirst(F, G, i)
    PROVE  /\ FirstDiffering(F, G) = i
           /\ i \in Differing(F, G)
           /\ Min(Differing(F, G)) = i
           /\ F # G
<1> DEFINE D == Differing(F, G)
<1>1. D = {k \in 1 .. N : F[k] # G[k]}
  BY DEF Over, Differing
<1>2. i \in D /\ \A k \in D : i <= k
  BY <1>1 DEF IsFirst
<1>3. \A k \in D : k \in Int
  BY <1>1
<1> HIDE DEF D
<1>4. \A k \in D : (\A j \in D : k <= j) => k = i
  BY <1>2, <1>3
<1>5. Min(D) = i
  BY <1>2, <1>4 DEF Min
<1>6. F # G
  BY DEF IsFirst
<1> QED
  BY <1>2, <1>5, <1>6 DEF FirstDiffering, D

IsLast(F, G, z, N) == F[z] # G[z] /\ \A j \in (z + 1) .. N : F[j] = G[j]

LEMMA LastExists ==
    ASSUME NEW N \in Nat, NEW F, NEW G, Over(F, N), Over(G, N), F # G
    PROVE  \E z \in 1 .. N :
             Max(Differing(F, G)) = z /\ IsLast(F, G, z, N)
<1> DEFINE D == Differing(F, G)
           B == {N - i : i \in D}
<1>1. D = {k \in 1 .. N : F[k] # G[k]}
  BY DEF Over, Differing
<1>2. D # {}
  BY <1>1 DEF Over
<1>3. \A k \in D : k \in Nat /\ k <= N
  BY <1>1
<1> HIDE DEF D
<1>4. B \subseteq Nat /\ B # {}
  BY <1>2, <1>3
<1>5. PICK c \in B : \A k \in B : c <= k
  BY <1>4, NatMinimum
<1>6. PICK z \in D : c = N - z
  BY <1>5
<1>7. \A k \in D : z >= k
  <2>1. ASSUME NEW k \in D PROVE z >= k
    <3>1. N - z <= N - k
      BY <1>5, <1>6
    <3> QED
      BY <1>3, <3>1
  <2> QED
    BY <2>1
<1>8. \A k \in D : (\A j \in D : k >= j) => k = z
  BY <1>3, <1>7
<1>9. Max(D) = z
  BY <1>7, <1>8 DEF Max
<1>10. ASSUME NEW j \in (z + 1) .. N PROVE F[j] = G[j]
  <2>1. j \in 1 .. N /\ ~ (z >= j)
    BY <1>3
  <2>2. j \notin D
    BY <1>7, <2>1
  <2> QED
    BY <1>1, <2>1, <2>2
<1>11. z \in 1 .. N /\ F[z] # G[z]
  BY <1>1
<1> QED
  BY <1>9, <1>10, <1>11 DEF D, IsLast

LEMMA LogsOver ==
    ASSUME NEW l \in Seq(Nat), NEW m \in Seq(Nat), Len(m) = Len(l)
    PROVE  /\ Over(l, Len(l)) /\ Over(m, Len(l))
           /\ Over(Residues(l), Len(l)) /\ Over(Residues(m), Len(l))
           /\ \A j \in 1 .. Len(l) : /\ Residues(l)[j] = l[j] % P
                                     /\ Residues(m)[j] = m[j] % P
<1>1. /\ DOMAIN l = 1 .. Len(l) /\ DOMAIN m = 1 .. Len(l)
      /\ l \in [1 .. Len(l) -> Nat] /\ m \in [1 .. Len(l) -> Nat]
  BY LenProperties
<1>2. /\ Residues(l) = [i \in 1 .. Len(l) |-> l[i] % P]
      /\ Residues(m) = [i \in 1 .. Len(l) |-> m[i] % P]
  BY <1>1 DEF Residues
<1> QED
  BY <1>1, <1>2 DEF Over

(***************************************************************************)
(* The prefix states part company at the first residues that differ: until *)
(* then all terms agree, and there the weight keeps the difference.        *)
(***************************************************************************)
LEMMA PrefixFirst ==
    ASSUME IsDomain, NEW b \in Binaries, NEW base \in Int, base % P # 0,
           NEW l \in Seq(Nat), NEW m \in Seq(Nat), Len(m) = Len(l)
    PROVE  prefix_divergence(b, base, l, m)
               = FirstDiffering(Residues(l), Residues(m))
<1>1. PICK N \in Nat : N = Len(l)
  BY LenProperties
<1> DEFINE R == Residues(l)
           S == Residues(m)
           A == prefix_states(b, base, l)
           B == prefix_states(b, base, m)
           t == Terms(b, base, l, 0)
           u == Terms(b, base, m, 0)
           f == States(b, base, l, 0)
           g == States(b, base, m, 0)
<1>2. Summed(f, g, t, u, N)
  BY <1>1, BothStates
<1>3. /\ Over(R, N) /\ Over(S, N)
      /\ \A j \in 1 .. N : R[j] = l[j] % P /\ S[j] = m[j] % P
  BY <1>1, LogsOver
<1>4. A = [i \in 1 .. N |-> f[i]] /\ B = [i \in 1 .. N |-> g[i]]
  BY <1>1 DEF prefix_states
<1>5. Over(A, N) /\ Over(B, N) /\ \A j \in 1 .. N : A[j] = f[j] /\ B[j] = g[j]
  <2> HIDE DEF A, B, f, g
  <2> QED
    BY <1>4 DEF Over
<1>6. ASSUME NEW j \in 1 .. N, R[j] = S[j] PROVE t[j] = u[j]
  BY <1>1, <1>3, <1>6, TermsAgree
<1>7. ASSUME NEW j \in 1 .. N, R[j] # S[j] PROVE (t[j] - u[j]) % P # 0
  BY <1>1, <1>3, <1>7, TermsApart
<1>8. prefix_divergence(b, base, l, m) = FirstDiffering(A, B)
  BY DEF prefix_divergence
<1> HIDE DEF R, S, A, B, t, u, f, g
<1>9. CASE R = S
  <2>1. \A j \in 1 .. N : t[j] = u[j]
    BY <1>6, <1>9
  <2>2. ASSUME NEW n \in 1 .. N PROVE f[n] = g[n]
    <3>1. n \in 0 .. N /\ AgreeUpTo(t, u, n)
      BY <2>1 DEF AgreeUpTo
    <3>2. Delta(f, g, n) = 0
      BY <1>2, <3>1, NoChange
    <3> QED
      BY <1>2, <3>1, <3>2, DeltaNone, SMTT(60)
  <2>3. A = B
    BY <1>4, <2>2
  <2> QED
    BY <1>8, <1>9, <2>3 DEF FirstDiffering, R, S
<1>10. CASE R # S
  <2>1. PICK i \in 1 .. N : IsFirst(R, S, i)
    BY <1>3, <1>10, FirstExists
  <2>2. FirstDiffering(R, S) = i
    BY <1>3, <2>1, FirstIs
  <2>3. R[i] # S[i] /\ \A j \in 1 .. (i - 1) : R[j] = S[j]
    BY <2>1 DEF IsFirst
  <2>4. \A j \in 1 .. (i - 1) : t[j] = u[j]
    BY <1>6, <2>3
  <2>5. ASSUME NEW n \in 0 .. (i - 1) PROVE Delta(f, g, n) = 0
    <3>1. n \in 0 .. N /\ AgreeUpTo(t, u, n)
      BY <2>4 DEF AgreeUpTo
    <3> QED
      BY <1>2, <3>1, NoChange
  <2>6. \A n \in 1 .. (i - 1) : f[n] = g[n]
    <3>1. ASSUME NEW n \in 1 .. (i - 1) PROVE f[n] = g[n]
      <4>1. n \in 0 .. N /\ n \in 0 .. (i - 1)
        OBVIOUS
      <4>2. Delta(f, g, n) = 0
        BY <2>5, <4>1
      <4> QED
        BY <1>2, <4>1, <4>2, DeltaNone
    <3> QED
      BY <3>1
  <2>7. f[i] # g[i]
    <3>1. Drifts(f, g, t, u, i)
      BY <1>2, DeltaStep
    <3>2. PICK d \in Int : d = t[i] - u[i]
      BY <1>2 DEF Summed
    <3>3. i - 1 \in 0 .. (i - 1)
      OBVIOUS
    <3>4. Delta(f, g, i - 1) = 0
      BY <2>5, <3>3
    <3>5. Delta(f, g, i) = (0 + d) % P /\ 0 + d = d
      BY <3>1, <3>2, <3>4 DEF Drifts
    <3>6. d % P # 0
      BY <1>7, <2>3, <3>2
    <3>7. i \in 0 .. N /\ Delta(f, g, i) # 0
      BY <3>5, <3>6
    <3> QED
      BY <1>2, <3>7, DeltaNone
  <2>8. IsFirst(A, B, i)
    <3>1. \A j \in 1 .. (i - 1) : j \in 1 .. N
      OBVIOUS
    <3> QED
      BY <1>5, <2>6, <2>7, <3>1 DEF IsFirst
  <2>9. FirstDiffering(A, B) = i
    BY <1>5, <2>8, FirstIs
  <2> QED
    BY <1>8, <2>2, <2>9 DEF R, S
<1> QED
  BY <1>9, <1>10

-----------------------------------------------------------------------------
(***************************************************************************)
(* A window of two logs that agree outside it carries the difference of    *)
(* their states.                                                           *)
(***************************************************************************)
Change(x, y, b, base, l, m) ==
    (y - x) % P = (state_for_logs(b, base, m) - state_for_logs(b, base, l)) % P

PartOf(l, a, z) == SubSeq(l, a + 1, z)

LEMMA PartTerms ==
    ASSUME NEW b \in Binaries, NEW base \in Int, NEW l \in Seq(Nat),
           NEW a \in Nat, NEW z \in Nat, a < z, z <= Len(l)
    PROVE  /\ PartOf(l, a, z) \in Seq(Nat)
           /\ Len(PartOf(l, a, z)) = z - a
           /\ Excerpted(Terms(b, base, PartOf(l, a, z), a), Terms(b, base, l, 0), a,
                        z - a)
<1>1. PICK N \in Nat, k \in Nat : N = Len(l) /\ k = a + 1 /\ k >= 1 /\ k <= z
  BY LenProperties
<1> DEFINE r == PartOf(l, a, z)
<1>2. r = SubSeq(l, k, z)
  BY <1>1 DEF PartOf
<1>3. /\ r \in Seq(Nat)
      /\ Len(r) = IF k <= z THEN z - k + 1 ELSE 0
      /\ \A j \in 1 .. z - k + 1 : r[j] = l[k + j - 1]
  BY <1>1, <1>2, PartTyped
<1>4. Len(r) = z - a
  BY <1>1, <1>3
<1> HIDE DEF r
<1>5. ASSUME NEW n \in 1 .. (z - a)
      PROVE  Terms(b, base, r, a)[n] = Terms(b, base, l, 0)[a + n]
  <2>1. /\ n \in 1 .. z - k + 1 /\ n \in 1 .. Len(r)
        /\ a + n \in 1 .. Len(l) /\ k + n - 1 = a + n
    BY <1>1, <1>4
  <2>2. r[n] = l[a + n]
    BY <1>3, <2>1
  <2>3. a + n - 1 = 0 + (a + n) - 1
    OBVIOUS
  <2> QED
    BY <2>1, <2>2, <2>3 DEF Terms
<1> QED
  BY <1>3, <1>4, <1>5 DEF Excerpted, r

LEMMA WindowChange ==
    ASSUME NEW b \in Binaries, NEW base \in Int,
           NEW l \in Seq(Nat), NEW m \in Seq(Nat), Len(m) = Len(l),
           NEW a \in Nat, NEW z \in Nat, a < z, z <= Len(l),
           \A j \in 1 .. a : l[j] = m[j],
           \A j \in (z + 1) .. Len(l) : l[j] = m[j]
    PROVE  Change(shifted_state_for_logs(b, base, PartOf(l, a, z), a),
                  shifted_state_for_logs(b, base, PartOf(m, a, z), a),
                  b, base, l, m)
<1>1. PICK N \in Nat, M \in Nat : N = Len(l) /\ M = z - a /\ a + M = z /\ z <= N
  BY LenProperties
<1> DEFINE t == Terms(b, base, m, 0)
           u == Terms(b, base, l, 0)
           f == States(b, base, m, 0)
           g == States(b, base, l, 0)
           r == PartOf(m, a, z)
           s == PartOf(l, a, z)
           v == Terms(b, base, r, a)
           w == Terms(b, base, s, a)
           h == States(b, base, r, a)
           k == States(b, base, s, a)
<1>2. Summed(f, g, t, u, N)
  BY <1>1, BothStates
<1>3. r \in Seq(Nat) /\ Len(r) = M /\ Excerpted(v, t, a, M)
  <2>1. z <= Len(m)
    BY <1>1
  <2>2. /\ PartOf(m, a, z) \in Seq(Nat)
        /\ Len(PartOf(m, a, z)) = z - a
        /\ Excerpted(Terms(b, base, PartOf(m, a, z), a),
                     Terms(b, base, m, 0), a, z - a)
    BY <2>1, PartTerms
  <2>3. z - a = M
    BY <1>1
  <2> QED
    BY <2>2, <2>3
<1>4. s \in Seq(Nat) /\ Len(s) = M /\ Excerpted(w, u, a, M)
  <2>1. z <= Len(l)
    BY <1>1
  <2>2. /\ PartOf(l, a, z) \in Seq(Nat)
        /\ Len(PartOf(l, a, z)) = z - a
        /\ Excerpted(Terms(b, base, PartOf(l, a, z), a),
                     Terms(b, base, l, 0), a, z - a)
    BY <2>1, PartTerms
  <2>3. z - a = M
    BY <1>1
  <2> QED
    BY <2>2, <2>3
<1>5. v \in [1 .. M -> Int] /\ IsTotal(h, M, v)
  BY <1>3, TermsTyped, StatesTotal
<1>6. w \in [1 .. M -> Int] /\ IsTotal(k, M, w)
  BY <1>4, TermsTyped, StatesTotal
<1>7. \A j \in 1 .. N : l[j] = m[j] => t[j] = u[j]
  BY <1>1, TermsAgree
<1>8. /\ shifted_state_for_logs(b, base, r, a) = h[M]
      /\ shifted_state_for_logs(b, base, s, a) = k[M]
      /\ state_for_logs(b, base, m) = f[N]
      /\ state_for_logs(b, base, l) = g[N]
  BY <1>1, <1>3, <1>4 DEF shifted_state_for_logs, state_for_logs
<1> HIDE DEF t, u, f, g, v, w, h, k
<1>9. Delta(f, g, a) = 0
  <2>1. \A j \in 1 .. a : j \in 1 .. N
    BY <1>1
  <2>2. a \in 0 .. N /\ AgreeUpTo(t, u, a)
    BY <1>1, <1>7, <2>1 DEF AgreeUpTo
  <2> QED
    BY <1>2, <2>2, NoChange
<1>10. Delta(f, g, z) = Delta(h, k, M)
  <2>1. Summed(h, k, v, w, M)
    BY <1>5, <1>6 DEF Summed
  <2>2. z = a + M /\ z <= N
    BY <1>1
  <2>3. Excerpted(v, t, a, M) /\ Excerpted(w, u, a, M)
    BY <1>3, <1>4
  <2> QED
    BY <1>2, <1>9, <2>1, <2>2, <2>3, DeltaWindow
<1>11. Delta(f, g, N) = Delta(f, g, z)
  <2>1. z \in 0 .. N /\ N \in z .. N
    BY <1>1
  <2>2. AgreeBetween(t, u, z, N)
    <3>1. \A j \in (z + 1) .. N : j \in 1 .. N /\ j \in (z + 1) .. Len(l)
      BY <1>1
    <3> QED
      BY <1>7, <3>1 DEF AgreeBetween
  <2> QED
    BY <1>2, <2>1, <2>2, DeltaCarried
<1>12. Delta(h, k, M) = Delta(f, g, N)
  BY <1>1, <1>10, <1>11
<1> QED
  BY <1>8, <1>12 DEF Change, Delta, r, s

(***************************************************************************)
(* The three windows the programs print.                                   *)
(***************************************************************************)
LEMMA NoDifference ==
    ASSUME NEW b \in Binaries, NEW base \in Int, NEW l \in Seq(Nat)
    PROVE  Change(0, 0, b, base, l, l)
<1>1. PICK x \in Int : x = state_for_logs(b, base, l)
  BY StateTyped
<1>2. x - x = 0 /\ 0 - 0 = 0
  OBVIOUS
<1> QED
  BY <1>1, <1>2 DEF Change

LEMMA LocalizedChange ==
    ASSUME NEW base \in Int,
           NEW l \in Seq(Nat), NEW m \in Seq(Nat), Len(m) = Len(l)
    PROVE  Change(localize_window(base, l, m)[1], localize_window(base, l, m)[2],
                  "main", base, l, m)
<1>1. "main" \in Binaries
  BY DEF Binaries
<1>2. CASE l = m
  <2>1. localize_window(base, l, m) = <<0, 0>>
    BY <1>2 DEF localize_window, mismatch_window, None
  <2> QED
    BY <1>1, <1>2, <2>1, NoDifference
<1>3. CASE l # m
  <2>1. PICK N \in Nat : N = Len(l) /\ Over(l, N) /\ Over(m, N)
    BY LenProperties, LogsOver
  <2>2. PICK i \in 1 .. N : IsFirst(l, m, i)
    BY <1>3, <2>1, FirstExists
  <2>3. Min(Differing(l, m)) = i
    BY <2>1, <2>2, FirstIs
  <2>4. PICK z \in 1 .. N : Max(Differing(l, m)) = z /\ IsLast(l, m, z, N)
    BY <1>3, <2>1, LastExists
  <2>5. l[i] # m[i] /\ \A j \in 1 .. (i - 1) : l[j] = m[j]
    BY <2>2 DEF IsFirst
  <2>6. PICK a \in Nat : a = i - 1
    OBVIOUS
  <2>7. a + 1 = i /\ a < z /\ z <= N /\ z \in Nat
    <3>1. ~ (z < i)
      <4>1. z < i => z \in 1 .. (i - 1)
        OBVIOUS
      <4> QED
        BY <2>4, <2>5, <4>1 DEF IsLast
    <3> QED
      BY <2>6, <3>1
  <2>8. /\ mismatch_window(l, m)[1] = i /\ mismatch_window(l, m)[2] = z
        /\ i # None
    BY <1>3, <2>3, <2>4 DEF mismatch_window, None
  <2>9. /\ localize_window(base, l, m)[1]
             = shifted_state_for_logs("main", base, PartOf(l, a, z), a)
        /\ localize_window(base, l, m)[2]
             = shifted_state_for_logs("main", base, PartOf(m, a, z), a)
    BY <2>6, <2>7, <2>8 DEF localize_window, window_state, PartOf
  <2>10. Change(shifted_state_for_logs("main", base, PartOf(l, a, z), a),
                shifted_state_for_logs("main", base, PartOf(m, a, z), a),
                "main", base, l, m)
    BY <1>1, <2>1, <2>4, <2>5, <2>6, <2>7, WindowChange DEF IsLast
  <2> QED
    BY <2>9, <2>10
<1> QED
  BY <1>2, <1>3

LEMMA TamperedChange ==
    ASSUME NEW base \in Int, NEW l \in Seq(Nat), Len(l) >= 1
    PROVE  LET m == Damaged("tampered", l)
           IN  Change(tampered_window(base, l, m)[1], tampered_window(base, l, m)[2],
                      "main1", base, l, m)
<1> DEFINE m == Damaged("tampered", l)
<1>1. "main1" \in Binaries
  BY DEF Binaries
<1>2. PICK N \in Nat : N = Len(l)
  BY LenProperties
<1>3. PICK i \in 1 .. N : i = Mid(l)
  BY <1>2, MidIs
<1>4. /\ m \in Seq(Nat) /\ Len(m) = N
      /\ \A j \in 1 .. N : j # i => m[j] = l[j]
      /\ m[i] = l[i] + 1 \/ m[i] = l[i] - 1
  BY <1>2, <1>3, TamperedLog
<1> HIDE DEF m
<1>5. m[i] # l[i]
  <2>1. l[i] \in Nat
    BY <1>2, ElementOfSeq
  <2> QED
    BY <1>4, <2>1
<1>6. FirstDiffering(l, m) = i
  <2>1. IsFirst(l, m, i)
    BY <1>4, <1>5 DEF IsFirst
  <2>2. Over(l, N) /\ Over(m, N)
    BY <1>2, <1>4, LogsOver
  <2> QED
    BY <2>1, <2>2, FirstIs
<1> DEFINE t == Terms("main1", base, m, 0)
           u == Terms("main1", base, l, 0)
           f == States("main1", base, m, 0)
           g == States("main1", base, l, 0)
<1>7. Summed(f, g, t, u, N)
  BY <1>1, <1>2, <1>4, BothStates
<1>8. AgreeBut(t, u, i, N)
  BY <1>1, <1>2, <1>4, TermsAgree, SMTT(30) DEF AgreeBut
<1>9. DriftsOnce(f, g, t, u, i, N)
  <2> HIDE DEF f, g, t, u
  <2> QED
    BY <1>7, <1>8, SingleChange
<1>10. i - 1 \in Nat /\ i # None /\ i \in 1 .. Len(m) /\ i \in 1 .. Len(l)
  BY <1>2, <1>4 DEF None
<1>11. PICK x \in Field, wx \in Field :
         /\ x \in Int /\ wx \in Int
         /\ x = l[i] % P /\ wx = Power(base, Exponent("main1", i - 1))
         /\ u[i] = x * wx
  BY <1>1, <1>10, TermAtStart
<1>12. PICK y \in Field, wy \in Field :
         /\ y \in Int /\ wy \in Int
         /\ y = m[i] % P /\ wy = Power(base, Exponent("main1", i - 1))
         /\ t[i] = y * wy
  BY <1>1, <1>4, <1>10, TermAtStart
<1>13. PICK c \in Int, d \in Int : c = u[i] /\ d = t[i]
  BY <1>7 DEF Summed
<1>14. /\ term_at("main1", base, l[i], i - 1) = c % P
       /\ term_at("main1", base, m[i], i - 1) = d % P
  <2>1. weight_for_index("main1", base, i - 1) = Power(base, Exponent("main1", i - 1))
    BY <1>1, <1>10, WeightIs
  <2> QED
    BY <1>11, <1>12, <1>13, <2>1 DEF term_at, mul_mod_u64
<1>15. /\ tampered_window(base, l, m)[1] = c % P
       /\ tampered_window(base, l, m)[2] = d % P
  BY <1>6, <1>10, <1>14 DEF tampered_window
<1>16. ((d % P) - (c % P)) % P = (d - c) % P
  BY ModSub
<1>17. Delta(f, g, N) = (d - c) % P
  BY <1>9, <1>13 DEF DriftsOnce
<1>18. /\ state_for_logs("main1", base, m) = f[N]
       /\ state_for_logs("main1", base, l) = g[N]
  BY <1>2, <1>4 DEF state_for_logs
<1> QED
  BY <1>15, <1>16, <1>17, <1>18 DEF Change, Delta, m

LEMMA ReorderedChange ==
    ASSUME NEW base \in Int, NEW l \in Seq(Nat), NEW m \in Seq(Nat)
    PROVE  Change(reordered_window(base, l, m)[1], reordered_window(base, l, m)[2],
                  "main1", base, l, m)
  BY DEF Change, reordered_window, shifted_state_for_logs, state_for_logs

(***************************************************************************)
(* The two halves of a log, the second from its offset, make up the whole. *)
(***************************************************************************)
Half(b, base, l, k) ==
    (state_for_logs(b, base, SubSeq(l, 1, k))
        + shifted_state_for_logs(b, base, SubSeq(l, k + 1, Len(l)), k)) % P

LEMMA HalvesCompose ==
    ASSUME NEW b \in Binaries, NEW base \in Int,
           NEW l \in Seq(Nat), NEW k \in 0 .. Len(l)
    PROVE  Half(b, base, l, k) = state_for_logs(b, base, l)
<1> DEFINE m == SubSeq(l, 1, k)
<1>1. k \in Nat /\ Len(l) \in Nat
  BY LenProperties
<1>2. /\ m \in Seq(Nat) /\ Len(m) = k
      /\ \A j \in 1 .. k : m[j] = l[j]
  <2>1. /\ m \in Seq(Nat)
        /\ Len(m) = IF 1 <= k THEN k - 1 + 1 ELSE 0
        /\ \A j \in 1 .. k - 1 + 1 : m[j] = l[1 + j - 1]
    BY <1>1, PartTyped
  <2> HIDE DEF m
  <2>2. Len(m) = k
    BY <1>1, <2>1
  <2> QED
    BY <1>1, <2>1, <2>2
<1> HIDE DEF m
<1>3. state_for_logs(b, base, l)
          = (state_for_logs(b, base, m)
               + shifted_state_for_logs(b, base, RestOf(l, Len(m)), Len(m))) % P
  BY <1>1, <1>2, StateSplits, SMTT(30)
<1> QED
  BY <1>2, <1>3 DEF Half, RestOf, m

-----------------------------------------------------------------------------
(***************************************************************************)
(* The bases that let two logs collide are roots of the polynomial of      *)
(* their differences, whose degree is the printed bound.                   *)
(***************************************************************************)
LEMMA ExponentGrows ==
    ASSUME NEW b \in Binaries, NEW i \in Nat
    PROVE  Exponent(b, i) < Exponent(b, i + 1)
<1>1. PICK c \in Nat : c = i * i
  OBVIOUS
<1>2. (i + 1) * (i + 1) = c + 2 * i + 1 /\ i * (i + 1) = c + i
      /\ (i + 1) * ((i + 1) + 1) = (c + i) + 2 * (i + 1)
  BY <1>1
<1>3. CASE b = "main"
  <2>1. Exponent(b, i) = c /\ Exponent(b, i + 1) = c + 2 * i + 1
    BY <1>1, <1>2, <1>3 DEF Exponent
  <2> QED
    BY <2>1
<1>4. CASE b = "main1"
  <2>1. /\ Exponent(b, i) = (c + i) \div 2
        /\ Exponent(b, i + 1) = ((c + i) + 2 * (i + 1)) \div 2
    BY <1>2, <1>4 DEF Exponent
  <2>2. PICK d \in Nat : d = c + i
    OBVIOUS
  <2>3. d \div 2 < (d + 2 * (i + 1)) \div 2
    OBVIOUS
  <2> QED
    BY <2>1, <2>2, <2>3
<1> QED
  BY <1>3, <1>4 DEF Binaries

Degrees(b, N) == [n \in 1 .. N |-> Exponent(b, n - 1)]

LEMMA DegreesGrow ==
    ASSUME NEW b \in Binaries, NEW N \in Nat
    PROVE  Grows(Degrees(b, N), N)
<1>1. ASSUME NEW n \in 1 .. N PROVE Exponent(b, n - 1) \in Nat
  <2>1. PICK i \in Nat : i = n - 1
    OBVIOUS
  <2> QED
    BY <2>1, WeightIs, 0 \in Int
<1>2. ASSUME NEW n \in 2 .. N
      PROVE  Degrees(b, N)[n - 1] < Degrees(b, N)[n]
  <2>1. PICK i \in Nat : i = (n - 1) - 1 /\ i + 1 = n - 1
    OBVIOUS
  <2>2. n - 1 \in 1 .. N /\ n \in 1 .. N
    OBVIOUS
  <2>3. Exponent(b, i) < Exponent(b, i + 1)
    BY ExponentGrows
  <2>4. /\ Degrees(b, N)[n - 1] = Exponent(b, (n - 1) - 1)
        /\ Degrees(b, N)[n] = Exponent(b, n - 1)
    BY <2>2 DEF Degrees
  <2> QED
    BY <2>1, <2>3, <2>4
<1>3. Degrees(b, N) \in [1 .. N -> Nat]
  BY <1>1 DEF Degrees
<1> QED
  BY <1>2, <1>3 DEF Grows

LEMMA BoundIsDegree ==
    ASSUME NEW b \in Binaries, NEW N \in Nat, N >= 1
    PROVE  collision_probability_bound(b, N) = Exponent(b, N - 1)
<1>1. (N - 1) * ((N - 1) + 1) = N * (N - 1)
  OBVIOUS
<1> QED
  BY <1>1 DEF collision_probability_bound, Exponent

Coefficients(l, m) == [n \in 1 .. Len(l) |-> (m[n] % P) - (l[n] % P)]

Difference(b, x, l, m) ==
    [n \in 0 .. Len(l) |-> Delta(States(b, x, m, 0), States(b, x, l, 0), n)]

\* The difference of the states is the polynomial at the base.
LEMMA DifferenceIsPolynomial ==
    ASSUME NEW b \in Binaries, NEW x \in Field,
           NEW l \in Seq(Nat), NEW m \in Seq(Nat), Len(m) = Len(l)
    PROVE  IsTotal(Difference(b, x, l, m), Len(l),
                   PolyTerms(Coefficients(l, m), Degrees(b, Len(l)), Len(l), x))
<1>1. PICK N \in Nat : N = Len(l)
  BY LenProperties
<1> DEFINE t == Terms(b, x, m, 0)
           u == Terms(b, x, l, 0)
           f == States(b, x, m, 0)
           g == States(b, x, l, 0)
           p == PolyTerms(Coefficients(l, m), Degrees(b, N), N, x)
           D == Difference(b, x, l, m)
<1>2. x \in Int
  BY FieldIsInt
<1>3. Summed(f, g, t, u, N)
  BY <1>1, <1>2, BothStates
<1>4. D = [n \in 0 .. N |-> Delta(f, g, n)]
  BY <1>1 DEF Difference
<1>5. ASSUME NEW n \in 1 .. N PROVE p[n] = t[n] - u[n]
  <2>1. n \in 1 .. Len(m) /\ n \in 1 .. Len(l)
    BY <1>1
  <2>2. PICK y \in Field, w \in Field :
           /\ y \in Int /\ w \in Int
           /\ y = m[n] % P /\ w = Power(x, Exponent(b, n - 1))
           /\ t[n] = y * w
    BY <1>2, <2>1, TermAtStart
  <2>3. PICK z \in Field, v \in Field :
           /\ z \in Int /\ v \in Int
           /\ z = l[n] % P /\ v = Power(x, Exponent(b, n - 1))
           /\ u[n] = z * v
    BY <1>2, <2>1, TermAtStart
  <2>4. /\ p[n] = Coefficients(l, m)[n] * Power(x, Degrees(b, N)[n])
        /\ Degrees(b, N)[n] = Exponent(b, n - 1)
    BY DEF PolyTerms, Degrees
  <2>5. Coefficients(l, m)[n] = y - z
    BY <2>1, <2>2, <2>3 DEF Coefficients
  <2>6. p[n] = (y - z) * w
    BY <2>2, <2>4, <2>5
  <2>7. (y - z) * w = y * w - z * w
    BY <2>2, <2>3
  <2>8. v = w
    BY <2>2, <2>3
  <2> HIDE DEF p, t, u
  <2> QED
    BY <2>2, <2>3, <2>6, <2>7, <2>8
<1> HIDE DEF f, g, t, u, p, D
<1>6. D \in [0 .. N -> Field]
  <2>1. \A n \in 0 .. N : Delta(f, g, n) \in Field
    BY <1>3, DeltaTyped
  <2> QED
    BY <1>4, <2>1
<1>7. D[0] = 0
  <2>1. Delta(f, g, 0) = 0
    BY <1>3, DeltaFirst
  <2> QED
    BY <1>4, <2>1
<1>8. ASSUME NEW n \in 1 .. N PROVE D[n] = (D[n - 1] + p[n]) % P
  <2>1. Drifts(f, g, t, u, n)
    BY <1>3, DeltaStep
  <2>2. n \in 0 .. N /\ n - 1 \in 0 .. N
    OBVIOUS
  <2>3. D[n] = Delta(f, g, n) /\ D[n - 1] = Delta(f, g, n - 1)
    BY <1>4, <2>2
  <2> QED
    BY <1>5, <2>1, <2>3 DEF Drifts
<1>9. IsTotal(D, N, p)
  BY <1>6, <1>7, <1>8 DEF IsTotal
<1> QED
  BY <1>1, <1>9 DEF D, p

Colliding(b, l, m) ==
    {base \in 1 .. (P - 1) :
        state_for_logs(b, base, m) = state_for_logs(b, base, l)}

LEMMA FewCollide ==
    ASSUME IsDomain, NEW b \in Binaries,
           NEW l \in Seq(Nat), NEW m \in Seq(Nat), Len(m) = Len(l),
           Residues(m) # Residues(l)
    PROVE  Cardinality(Colliding(b, l, m)) <= collision_probability_bound(b, Len(l))
<1>1. PICK N \in Nat : N = Len(l)
  BY LenProperties
<1> DEFINE c == Coefficients(l, m)
           E == Degrees(b, N)
           F == [x \in Field |-> Difference(b, x, l, m)]
           h == [x \in Field |-> F[x][N]]
<1>2. \A n \in 1 .. N : m[n] % P \in Int /\ l[n] % P \in Int
                        /\ m[n] % P \in Field /\ l[n] % P \in Field
  <2>1. ASSUME NEW n \in 1 .. N
        PROVE m[n] % P \in Int /\ l[n] % P \in Int
              /\ m[n] % P \in Field /\ l[n] % P \in Field
    <3>1. PICK y \in Int, z \in Int : y = m[n] /\ z = l[n]
      BY <1>1, ElementOfSeq
    <3>2. y % P \in Field /\ z % P \in Field
      BY ResidueInField
    <3> QED
      BY <3>1, <3>2, FieldIsInt
  <2> QED
    BY <2>1
<1>3. c \in [1 .. N -> Int]
  BY <1>1, <1>2 DEF Coefficients
<1>4. \E n \in 1 .. N : c[n] % P # 0
  <2>1. PICK n \in 1 .. N : m[n] % P # l[n] % P
    <3>1. /\ Over(Residues(l), N) /\ Over(Residues(m), N)
          /\ \A j \in 1 .. N : /\ Residues(l)[j] = l[j] % P
                               /\ Residues(m)[j] = m[j] % P
      BY <1>1, LogsOver
    <3> QED
      BY <3>1 DEF Over
  <2>2. PICK y \in Field, z \in Field : y = m[n] % P /\ z = l[n] % P
    BY <1>2
  <2>3. y \in Int /\ z \in Int /\ y # z
    BY <2>1, <2>2, FieldIsInt
  <2>4. y % P = y /\ z % P = z
    BY <2>3, FieldModSelf
  <2>5. (y - z) % P # 0
    BY <2>3, <2>4, ModMinus
  <2>6. c[n] = y - z
    BY <1>1, <2>2 DEF Coefficients
  <2> QED
    BY <2>5, <2>6
<1>5. Grows(E, N)
  BY DegreesGrow
<1>6. \A x \in Field : IsTotal(F[x], N, PolyTerms(c, E, N, x))
  BY <1>1, DifferenceIsPolynomial
<1> HIDE DEF c, E, F
<1>7. N >= 1 /\ E[N] \in Nat /\ h \in Nonzero[E[N]]
  BY <1>3, <1>4, <1>5, <1>6, SumNonzero
<1>8. IsFiniteSet(Roots(h)) /\ Cardinality(Roots(h)) <= E[N]
  BY <1>7, FewRoots
<1>9. E[N] = collision_probability_bound(b, N)
  BY <1>7, BoundIsDegree DEF E, Degrees
<1>10. Colliding(b, l, m) \in SUBSET Roots(h)
  <2>1. ASSUME NEW x \in Colliding(b, l, m) PROVE x \in Roots(h)
    <3>1. x \in Field /\ x \in Int
      BY ParamAssumption DEF Colliding, Field
    <3>2. States(b, x, m, 0)[N] = States(b, x, l, 0)[N]
      BY <1>1 DEF Colliding, state_for_logs
    <3> DEFINE f == States(b, x, m, 0)
               g == States(b, x, l, 0)
               t == Terms(b, x, m, 0)
               u == Terms(b, x, l, 0)
    <3>3. Summed(f, g, t, u, N)
      BY <1>1, <3>1, BothStates
    <3>4. N \in 0 .. N /\ f[N] = g[N]
      BY <3>2
    <3>5. h[x] = Delta(f, g, N)
      BY <1>1, <3>1, <3>4 DEF F, Difference
    <3> HIDE DEF f, g, t, u, h
    <3>6. Delta(f, g, N) = 0
      BY <3>3, <3>4, DeltaNone
    <3> QED
      BY <3>1, <3>5, <3>6 DEF Roots
  <2> QED
    BY <2>1
<1> HIDE DEF h
<1>11. /\ IsFiniteSet(Colliding(b, l, m))
       /\ Cardinality(Colliding(b, l, m)) <= Cardinality(Roots(h))
  BY <1>8, <1>10, FS_Subset
<1>12. Cardinality(Colliding(b, l, m)) \in Nat /\ Cardinality(Roots(h)) \in Nat
  BY <1>8, <1>11, FS_CardinalityType
<1> QED
  BY <1>1, <1>7, <1>8, <1>9, <1>11, <1>12

-----------------------------------------------------------------------------
(***************************************************************************)
(* The inductive invariant.  Every case is the report of its attack on the *)
(* present log: a log is replaced only when its cases are dropped.  Where  *)
(* the two halves have been composed, the log is still the one composed.   *)
(***************************************************************************)
CaseOf(b, base, l, attack, localise) ==
    LET changed == Damaged(attack, l)
    IN  [attack |-> attack,
         log    |-> changed,
         before |-> state_for_logs(b, base, l),
         after  |-> state_for_logs(b, base, changed),
         report |-> IF localise /\ Len(changed) = Len(l)
                    THEN localization_report(b, attack, base, l, changed)
                    ELSE NoReport]

CasesOf(b, base, l, localise, n) ==
    [k \in 1 .. n |-> CaseOf(b, base, l, Attacks[k], localise)]

Sections == {"sampling", "attacks", "composing", "section2", "large", "done"}

\* How many attacks a section has seen.
SeenBy(at, n) ==
    /\ at = "sampling" => n = 0
    /\ at = "attacks" => n < 5
    /\ at \in {"composing", "section2"} => n = 5
    /\ at = "large" => n < 2
    /\ at = "done" => n = 2

Localised(at) == at # "large" /\ at # "done"

TypesHold ==
    /\ binary \in Binaries
    /\ pc \in Sections
    /\ logs \in Seq(Entries)

BaseChosen ==
    /\ pc = "sampling" /\ binary = "main1" => q \in Bases
    /\ pc # "sampling" => q \in Bases /\ Len(logs) >= 1

CasesReported ==
    \E n \in 0 .. 5 : cases = CasesOf(binary, q, logs, Localised(pc), n)
                      /\ SeenBy(pc, n)

HalvesComposed ==
    composition # Unset =>
        /\ pc = "section2"
        /\ composition = <<Half(binary, q, logs, Len(logs) \div 2),
                           state_for_logs(binary, q, logs)>>

IInv == TypesHold /\ BaseChosen /\ CasesReported /\ HalvesComposed

LEMMA LogIsNat ==
    ASSUME NEW l \in Seq(Entries)
    PROVE  l \in Seq(Nat)
<1>1. Entries \subseteq Nat
  BY MetricsAssumption, ParamAssumption
<1>2. 1 \in Int /\ Len(l) \in Int
  BY LenProperties
<1>3. \A i \in 1 .. Len(l) : l[i] \in Nat
  BY <1>1, ElementOfSeq
<1>4. SubSeq(l, 1, Len(l)) \in Seq(Nat)
  BY <1>2, <1>3, SubSeqProperties
<1> QED
  BY <1>4, SubSeqFull

LEMMA BaseTyped ==
    ASSUME NEW base \in Bases
    PROVE  base \in Int /\ base % P # 0
<1>1. base \in 1 .. (P - 1)
  BY MetricsAssumption
<1>2. base % P = base
  BY <1>1, ModSmall, ParamAssumption
<1> QED
  BY <1>1, <1>2

LEMMA CaseIs ==
    ASSUME NEW attack, NEW localise
    PROVE  Case(attack, localise) = CaseOf(binary, q, logs, attack, localise)
  BY DEF Case, CaseOf

LEMMA NoCases ==
    ASSUME NEW b, NEW base, NEW l, NEW localise
    PROVE  CasesOf(b, base, l, localise, 0) = << >>
<1>1. 1 .. 0 = {}
  OBVIOUS
<1> QED
  BY <1>1 DEF CasesOf

LEMMA OneMoreCase ==
    ASSUME NEW b, NEW base, NEW l, NEW localise, NEW n \in Nat
    PROVE  Append(CasesOf(b, base, l, localise, n),
                  CaseOf(b, base, l, Attacks[n + 1], localise))
               = CasesOf(b, base, l, localise, n + 1)
<1> DEFINE C(k) == CaseOf(b, base, l, Attacks[k], localise)
           s == [k \in 1 .. n |-> C(k)]
           t == [k \in 1 .. (n + 1) |-> C(k)]
           S == {C(k) : k \in 1 .. (n + 1)}
<1>1. CasesOf(b, base, l, localise, n) = s
      /\ CasesOf(b, base, l, localise, n + 1) = t
  BY DEF CasesOf
<1> HIDE DEF C
<1>2. s \in Seq(S) /\ Len(s) = n /\ t \in Seq(S) /\ Len(t) = n + 1
  OBVIOUS
<1>3. C(n + 1) \in S
  OBVIOUS
<1>4. \A k \in 1 .. n : s[k] = C(k)
  OBVIOUS
<1>5. \A k \in 1 .. (n + 1) : t[k] = C(k)
  OBVIOUS
<1> HIDE DEF s, t, S
<1>6. /\ Append(s, C(n + 1)) \in Seq(S)
      /\ Len(Append(s, C(n + 1))) = n + 1
      /\ \A k \in 1 .. n : Append(s, C(n + 1))[k] = s[k]
      /\ Append(s, C(n + 1))[n + 1] = C(n + 1)
  BY <1>2, <1>3, AppendProperties
<1>7. \A k \in 1 .. (n + 1) : Append(s, C(n + 1))[k] = t[k]
  <2>1. \A k \in 1 .. (n + 1) : k \in 1 .. n \/ k = n + 1
    OBVIOUS
  <2> QED
    BY <1>4, <1>5, <1>6, <2>1
<1>8. Append(s, C(n + 1)) = t
  BY <1>2, <1>6, <1>7, SeqEqual
<1> QED
  BY <1>1, <1>2, <1>8 DEF C

LEMMA InitHolds == Init => IInv
<1> SUFFICES ASSUME Init PROVE IInv
  OBVIOUS
<1>1. TypesHold /\ BaseChosen
  BY DEF Init, TypesHold, BaseChosen, Binaries, Sections
<1>2. CasesReported
  <2>1. 0 \in 0 .. 5 /\ SeenBy(pc, 0)
    BY DEF Init, SeenBy
  <2>2. cases = CasesOf(binary, q, logs, Localised(pc), 0)
    BY NoCases DEF Init
  <2> QED
    BY <2>1, <2>2 DEF CasesReported
<1>3. HalvesComposed
  BY DEF Init, HalvesComposed
<1> QED
  BY <1>1, <1>2, <1>3 DEF IInv

\* What the log is in each step that gives a new one.
LEMMA UsableLog ==
    ASSUME NEW l \in Seq(Entries), Len(l) = Samples
    PROVE  /\ Tail(l) \in Seq(Entries) /\ Len(Tail(l)) >= 1
           /\ Front(l) \in Seq(Entries) /\ Len(Front(l)) >= 1
<1>1. Samples \in Nat /\ Samples >= 2
  BY MetricsAssumption
<1>2. l # << >>
  BY <1>1, EmptySeq
<1>3. Tail(l) \in Seq(Entries) /\ Len(Tail(l)) = Len(l) - 1
  BY <1>2, HeadTailProperties
<1>4. \A i \in 1 .. (Samples - 1) : l[i] \in Entries
  <2>1. \A i \in 1 .. (Samples - 1) : i \in 1 .. Len(l)
    BY <1>1
  <2> QED
    BY <2>1, ElementOfSeq
<1>5. 1 \in Int /\ Samples - 1 \in Int
  BY <1>1
<1>6. /\ SubSeq(l, 1, Samples - 1) \in Seq(Entries)
      /\ Len(SubSeq(l, 1, Samples - 1))
            = IF 1 <= Samples - 1 THEN Samples - 1 - 1 + 1 ELSE 0
  BY <1>4, <1>5, SubSeqProperties
<1>7. Front(l) = SubSeq(l, 1, Samples - 1)
  BY DEF Front
<1> QED
  BY <1>1, <1>3, <1>6, <1>7

LEMMA RepeatedLog ==
    ASSUME NEW l \in Seq(Entries), Len(l) >= 1
    PROVE  /\ [i \in 1 .. BigLen |-> l[((i - 1) % Len(l)) + 1]] \in Seq(Entries)
           /\ Len([i \in 1 .. BigLen |-> l[((i - 1) % Len(l)) + 1]]) >= 1
<1>1. BigLen \in Nat /\ BigLen >= 1
  BY MetricsAssumption
<1>2. PICK n \in Nat : n = Len(l) /\ n >= 1
  BY LenProperties
<1>3. ASSUME NEW i \in 1 .. BigLen PROVE l[((i - 1) % Len(l)) + 1] \in Entries
  <2>1. PICK k \in Nat : k = i - 1
    BY <1>1
  <2>2. k % n \in 0 .. (n - 1)
    BY <1>2
  <2>3. (k % n) + 1 \in 1 .. Len(l)
    BY <1>2, <2>2
  <2> QED
    BY <1>2, <2>1, <2>3, ElementOfSeq
<1> QED
  BY <1>1, <1>3

LEMMA NextPreserves == IInv /\ [Next]_vars => IInv'
<1> SUFFICES ASSUME IInv, [Next]_vars PROVE IInv'
  OBVIOUS
<1> USE DEF IInv
<1>1. CASE UNCHANGED vars
  BY <1>1 DEF vars, TypesHold, BaseChosen, CasesReported, HalvesComposed
<1>2. CASE \E x \in Entries : Sample(x)
  <2>1. PICK x \in Entries : Sample(x)
    BY <1>2
  <2>2. TypesHold' /\ BaseChosen'
    <3>1. Append(logs, x) \in Seq(Entries)
      BY AppendProperties DEF TypesHold
    <3> QED
      BY <2>1, <3>1 DEF TypesHold, BaseChosen, Sample
  <2>3. CasesReported'
    <3>1. cases = << >> /\ SeenBy(pc, 0)
      BY <2>1, NoCases DEF CasesReported, SeenBy, Sample
    <3>2. cases' = CasesOf(binary', q', logs', Localised(pc'), 0)
      BY <2>1, <3>1, NoCases DEF Sample
    <3>3. SeenBy(pc', 0) /\ 0 \in 0 .. 5
      BY <2>1, <3>1 DEF Sample
    <3> QED
      BY <3>2, <3>3 DEF CasesReported
  <2>4. HalvesComposed'
    BY <2>1 DEF HalvesComposed, Sample
  <2> QED
    BY <2>2, <2>3, <2>4
<1>3. CASE DropWarmUp
  <2>1. TypesHold' /\ BaseChosen'
    BY <1>3, UsableLog DEF TypesHold, BaseChosen, DropWarmUp, Sections
  <2>2. CasesReported'
    <3>1. cases = << >>
      BY <1>3, NoCases DEF CasesReported, SeenBy, DropWarmUp
    <3>2. cases' = CasesOf(binary', q', logs', Localised(pc'), 0)
      BY <1>3, <3>1, NoCases DEF DropWarmUp
    <3>3. SeenBy(pc', 0) /\ 0 \in 0 .. 5
      BY <1>3 DEF DropWarmUp, SeenBy
    <3> QED
      BY <3>2, <3>3 DEF CasesReported
  <2>3. HalvesComposed'
    BY <1>3 DEF HalvesComposed, DropWarmUp
  <2> QED
    BY <2>1, <2>2, <2>3
<1>4. CASE TakeUsable
  <2>1. TypesHold' /\ BaseChosen'
    BY <1>4, UsableLog DEF TypesHold, BaseChosen, TakeUsable, Sections
  <2>2. CasesReported'
    <3>1. cases = << >>
      BY <1>4, NoCases DEF CasesReported, SeenBy, TakeUsable
    <3>2. cases' = CasesOf(binary', q', logs', Localised(pc'), 0)
      BY <1>4, <3>1, NoCases DEF TakeUsable
    <3>3. SeenBy(pc', 0) /\ 0 \in 0 .. 5
      BY <1>4 DEF TakeUsable, SeenBy
    <3> QED
      BY <3>2, <3>3 DEF CasesReported
  <2>3. HalvesComposed'
    BY <1>4 DEF HalvesComposed, TakeUsable
  <2> QED
    BY <2>1, <2>2, <2>3
<1>5. CASE Attack
  <2>1. PICK n \in 0 .. 5 : /\ cases = CasesOf(binary, q, logs, Localised(pc), n)
                            /\ SeenBy(pc, n)
    BY DEF CasesReported
  <2>2. n < 5 /\ n \in Nat /\ Localised(pc) = TRUE
    BY <1>5, <2>1 DEF Attack, SeenBy, Localised
  <2>3. cases = CasesOf(binary, q, logs, TRUE, n) /\ Len(cases) = n
    <3>1. cases = CasesOf(binary, q, logs, TRUE, n)
      BY <2>1, <2>2
    <3> QED
      BY <2>2, <3>1 DEF CasesOf
  <2>4. cases' = CasesOf(binary, q, logs, TRUE, n + 1)
    <3>1. cases' = Append(cases, CaseOf(binary, q, logs, Attacks[n + 1], TRUE))
      BY <1>5, <2>3, CaseIs DEF Attack
    <3> QED
      BY <2>2, <2>3, <3>1, OneMoreCase
  <2>5. Len(cases') = n + 1
    <3>1. n + 1 \in Nat
      BY <2>2
    <3> QED
      BY <2>4, <3>1 DEF CasesOf
  <2>6. pc' = IF n + 1 = 5 THEN "composing" ELSE "attacks"
    BY <1>5, <2>5 DEF Attack, Attacks
  <2>7. SeenBy(pc', n + 1) /\ Localised(pc') = TRUE /\ n + 1 \in 0 .. 5
    BY <2>2, <2>6 DEF SeenBy, Localised
  <2>8. binary' = binary /\ q' = q /\ logs' = logs /\ composition' = composition
    BY <1>5 DEF Attack
  <2>9. CasesReported'
    BY <2>4, <2>7, <2>8 DEF CasesReported
  <2>10. TypesHold' /\ BaseChosen'
    BY <1>5, <2>6, <2>8 DEF TypesHold, BaseChosen, Sections, Attack
  <2>11. HalvesComposed'
    BY <1>5, <2>8 DEF HalvesComposed, Attack
  <2> QED
    BY <2>9, <2>10, <2>11
<1>6. CASE Compose
  <2>1. binary' = binary /\ q' = q /\ logs' = logs /\ cases' = cases
        /\ pc = "composing" /\ pc' = "section2"
    BY <1>6 DEF Compose
  <2>2. TypesHold' /\ BaseChosen'
    BY <2>1 DEF TypesHold, BaseChosen, Sections
  <2>3. CasesReported'
    BY <2>1 DEF CasesReported, SeenBy, Localised
  <2>4. composition' = Unset
        \/ composition' = <<Half(binary, q, logs, Len(logs) \div 2),
                            state_for_logs(binary, q, logs)>>
    BY <1>6 DEF Compose, Half
  <2>5. HalvesComposed'
    BY <2>1, <2>4 DEF HalvesComposed
  <2> QED
    BY <2>2, <2>3, <2>5
<1>7. CASE RepeatLog
  <2>1. TypesHold' /\ BaseChosen'
    BY <1>7, RepeatedLog DEF TypesHold, BaseChosen, RepeatLog, Sections
  <2>2. CasesReported'
    <3>1. cases' = CasesOf(binary', q', logs', Localised(pc'), 0)
      BY <1>7, NoCases DEF RepeatLog
    <3>2. SeenBy(pc', 0) /\ 0 \in 0 .. 5
      BY <1>7 DEF RepeatLog, SeenBy
    <3> QED
      BY <3>1, <3>2 DEF CasesReported
  <2>3. HalvesComposed'
    BY <1>7 DEF HalvesComposed, RepeatLog
  <2> QED
    BY <2>1, <2>2, <2>3
<1>8. CASE GenerateLog
  <2>1. logs' \in Seq(Entries) /\ Len(logs') >= 1
    <3>1. BigLen \in Nat /\ BigLen >= 1
      BY MetricsAssumption
    <3> QED
      BY <1>8, <3>1 DEF GenerateLog
  <2>2. TypesHold' /\ BaseChosen'
    BY <1>8, <2>1 DEF TypesHold, BaseChosen, GenerateLog, Sections
  <2>3. CasesReported'
    <3>1. cases' = CasesOf(binary', q', logs', Localised(pc'), 0)
      BY <1>8, NoCases DEF GenerateLog
    <3>2. SeenBy(pc', 0) /\ 0 \in 0 .. 5
      BY <1>8 DEF GenerateLog, SeenBy
    <3> QED
      BY <3>1, <3>2 DEF CasesReported
  <2>4. HalvesComposed'
    BY <1>8 DEF HalvesComposed, GenerateLog
  <2> QED
    BY <2>2, <2>3, <2>4
<1>9. CASE AttackLarge
  <2>1. PICK n \in 0 .. 5 : /\ cases = CasesOf(binary, q, logs, Localised(pc), n)
                            /\ SeenBy(pc, n)
    BY DEF CasesReported
  <2>2. n < 2 /\ n \in Nat /\ Localised(pc) = FALSE
    BY <1>9, <2>1 DEF AttackLarge, SeenBy, Localised
  <2>3. cases = CasesOf(binary, q, logs, FALSE, n) /\ Len(cases) = n
    <3>1. cases = CasesOf(binary, q, logs, FALSE, n)
      BY <2>1, <2>2
    <3> QED
      BY <2>2, <3>1 DEF CasesOf
  <2>4. cases' = CasesOf(binary, q, logs, FALSE, n + 1)
    <3>1. cases' = Append(cases, CaseOf(binary, q, logs, Attacks[n + 1], FALSE))
      BY <1>9, <2>3, CaseIs DEF AttackLarge
    <3> QED
      BY <2>2, <2>3, <3>1, OneMoreCase
  <2>5. Len(cases') = n + 1
    <3>1. n + 1 \in Nat
      BY <2>2
    <3> QED
      BY <2>4, <3>1 DEF CasesOf
  <2>6. pc' = IF n + 1 = 2 THEN "done" ELSE "large"
    BY <1>9, <2>5 DEF AttackLarge
  <2>7. SeenBy(pc', n + 1) /\ Localised(pc') = FALSE /\ n + 1 \in 0 .. 5
    BY <2>2, <2>6 DEF SeenBy, Localised
  <2>8. binary' = binary /\ q' = q /\ logs' = logs /\ composition' = composition
    BY <1>9 DEF AttackLarge
  <2>9. CasesReported'
    BY <2>4, <2>7, <2>8 DEF CasesReported
  <2>10. TypesHold' /\ BaseChosen'
    BY <1>9, <2>6, <2>8 DEF TypesHold, BaseChosen, Sections, AttackLarge
  <2>11. HalvesComposed'
    BY <1>9, <2>8 DEF HalvesComposed, AttackLarge
  <2> QED
    BY <2>9, <2>10, <2>11
<1> QED
  BY <1>1, <1>2, <1>3, <1>4, <1>5, <1>6, <1>7, <1>8, <1>9 DEF Next

(***************************************************************************)
(* Sampling takes no more than it should, a log has at least one entry     *)
(* once the sampling is over, every case is the report of its attack, and  *)
(* the halves are composed from the log that is there.                     *)
(***************************************************************************)
THEOREM MetricsInvariant == Spec => []IInv
  BY InitHolds, NextPreserves, PTL DEF Spec

-----------------------------------------------------------------------------
(***************************************************************************)
(* What a case is.                                                         *)
(***************************************************************************)
ReportHolds(c, b, base, l, at) ==
    /\ c.attack \in AttackNames
    /\ c.log = Damaged(c.attack, l)
    /\ c.before = state_for_logs(b, base, l)
    /\ c.after = state_for_logs(b, base, c.log)
    /\ Localised(at) /\ Len(c.log) = Len(l) =>
         c.report = localization_report(b, c.attack, base, l, c.log)

LEMMA CaseHolds ==
    ASSUME IInv, NEW k \in DOMAIN cases
    PROVE  ReportHolds(cases[k], binary, q, logs, pc)
<1>1. PICK n \in 0 .. 5 : cases = CasesOf(binary, q, logs, Localised(pc), n)
  BY DEF IInv, CasesReported
<1>2. k \in 1 .. n /\ k \in 1 .. 5
  BY <1>1 DEF CasesOf
<1>3. cases[k] = CaseOf(binary, q, logs, Attacks[k], Localised(pc))
  BY <1>1, <1>2 DEF CasesOf
<1>4. Attacks[k] \in AttackNames
  BY <1>2 DEF Attacks, AttackNames
<1> QED
  BY <1>3, <1>4 DEF CaseOf, ReportHolds

LEMMA StateIs ==
    ASSUME IInv, cases # << >>
    PROVE  /\ binary \in Binaries
           /\ q \in Bases /\ q \in Int /\ q % P # 0
           /\ logs \in Seq(Nat) /\ Len(logs) >= 1
<1>1. pc # "sampling"
  BY NoCases DEF IInv, CasesReported, SeenBy
<1>2. q \in Bases /\ Len(logs) >= 1
  BY <1>1 DEF IInv, BaseChosen
<1>3. binary \in Binaries /\ logs \in Seq(Nat)
  BY LogIsNat DEF IInv, TypesHold
<1>4. q \in Int /\ q % P # 0
  BY <1>2, BaseTyped
<1> QED
  BY <1>2, <1>3, <1>4

LEMMA CaseState ==
    ASSUME IInv, NEW k \in DOMAIN cases
    PROVE  /\ cases # << >>
           /\ ReportHolds(cases[k], binary, q, logs, pc)
           /\ binary \in Binaries /\ q \in Int /\ q % P # 0
           /\ logs \in Seq(Nat) /\ Len(logs) >= 1
           /\ cases[k].attack \in AttackNames
           /\ cases[k].log \in Seq(Nat)
<1>1. cases # << >>
  OBVIOUS
<1>2. ReportHolds(cases[k], binary, q, logs, pc)
  BY CaseHolds
<1>3. /\ binary \in Binaries /\ q \in Int /\ q % P # 0
      /\ logs \in Seq(Nat) /\ Len(logs) >= 1
  BY <1>1, StateIs
<1>4. cases[k].attack \in AttackNames
  BY <1>2 DEF ReportHolds
<1>5. cases[k].log \in Seq(Nat)
  BY <1>2, <1>3, <1>4, DamagedTyped DEF ReportHolds
<1> QED
  BY <1>1, <1>2, <1>3, <1>4, <1>5

(***************************************************************************)
(* The printed states are the sums of the entries times their powers of q  *)
(* in unbounded arithmetic, for every modulus below the word and every     *)
(* log: add_mod_u64 and the square-and-multiply loop lose nothing.         *)
(***************************************************************************)
THEOREM StatesAreDigests == Spec => []DigestExact
<1>1. ASSUME IInv PROVE DigestExact
  <2> SUFFICES ASSUME NEW k \in DOMAIN cases
               PROVE  /\ cases[k].before = Digest(binary, q, logs)
                      /\ cases[k].after = Digest(binary, q, cases[k].log)
    BY DEF DigestExact
  <2>1. /\ ReportHolds(cases[k], binary, q, logs, pc)
        /\ binary \in Binaries /\ q \in Int
        /\ logs \in Seq(Nat) /\ cases[k].log \in Seq(Nat)
    BY <1>1, CaseState
  <2>2. /\ state_for_logs(binary, q, logs) = Digest(binary, q, logs)
        /\ state_for_logs(binary, q, cases[k].log) = Digest(binary, q, cases[k].log)
    BY <2>1, DigestIsState
  <2> QED
    BY <2>1, <2>2 DEF ReportHolds
<1> QED
  BY <1>1, MetricsInvariant, PTL

LEMMA PrimeStays == IsPrime => []IsPrime
<1>1. IsPrime => IsPrime'
  BY DEF IsPrime
<1> QED
  BY <1>1, PTL

(***************************************************************************)
(* For a prime p, whatever the log: the flipped bit is always seen, the    *)
(* exchange of the ends exactly when their residues differ and the last    *)
(* weight is not 1, and a truncation exactly when what it loses does not   *)
(* sum to 0 at its offset.                                                 *)
(***************************************************************************)
THEOREM AttacksSeen == IsPrime /\ Spec => []AttackSeenExactly
<1>1. ASSUME IsPrime, IInv PROVE AttackSeenExactly
  <2> SUFFICES ASSUME NEW k \in DOMAIN cases
               PROVE  LET c == cases[k]
                          last == Len(logs)
                      IN  /\ c.attack = "tampered" => Seen(c)
                          /\ c.attack = "reordered" =>
                              (Seen(c) <=>
                                 /\ logs[1] % P # logs[last] % P
                                 /\ Power(q, Exponent(binary, last - 1)) # 1)
                          /\ c.attack = "truncated" =>
                              (Seen(c) <=>
                                 shifted_state_for_logs(binary, q, Lost(c), Len(c.log)) # 0)
    BY DEF AttackSeenExactly
  <2> DEFINE c == cases[k]
  <2>1. /\ ReportHolds(c, binary, q, logs, pc)
        /\ binary \in Binaries /\ q \in Int /\ q % P # 0
        /\ logs \in Seq(Nat) /\ Len(logs) >= 1
    BY <1>1, CaseState
  <2>2. IsDomain
    BY <1>1, PrimesAreDomains
  <2> HIDE DEF c
  <2>3. /\ c.log = Damaged(c.attack, logs)
        /\ c.before = state_for_logs(binary, q, logs)
        /\ c.after = state_for_logs(binary, q, c.log)
    BY <2>1 DEF ReportHolds
  <2>4. c.attack = "tampered" => Seen(c)
    <3>1. state_for_logs(binary, q, logs)
              # state_for_logs(binary, q, Damaged("tampered", logs))
      BY <2>1, <2>2, TamperedSeen
    <3> QED
      BY <2>3, <3>1 DEF Seen
  <2>5. c.attack = "reordered" =>
          (Seen(c) <=> /\ logs[1] % P # logs[Len(logs)] % P
                       /\ Power(q, Exponent(binary, Len(logs) - 1)) # 1)
    <3>1. ExchangeSeen(binary, q, logs, Damaged("reordered", logs))
      BY <2>1, <2>2, ReorderedSeen
    <3> QED
      BY <2>3, <3>1 DEF Seen, ExchangeSeen
  <2>6. c.attack = "truncated" =>
          (Seen(c) <=>
             shifted_state_for_logs(binary, q, Lost(c), Len(c.log)) # 0)
    <3>1. TruncationSeen(binary, q, logs, Damaged("truncated", logs))
      BY <2>1, TruncatedSeen
    <3> QED
      BY <2>3, <3>1 DEF Seen, TruncationSeen, Lost, RestOf
  <2> QED
    BY <2>4, <2>5, <2>6 DEF c
<1> QED
  BY <1>1, MetricsInvariant, PrimeStays, PTL

LEMMA ReportedIs ==
    ASSUME IInv, NEW k \in Reported
    PROVE  /\ k \in DOMAIN cases
           /\ cases[k].attack \in {"tampered", "reordered"}
           /\ cases[k].log = Damaged(cases[k].attack, logs)
           /\ cases[k].log \in Seq(Nat)
           /\ Len(cases[k].log) = Len(logs)
           /\ cases[k].report = localization_report(binary, cases[k].attack, q,
                                                    logs, cases[k].log)
<1>1. /\ k \in DOMAIN cases /\ Len(cases[k].log) = Len(logs)
      /\ Localised(pc)
  BY DEF Reported, Localised
<1>2. /\ ReportHolds(cases[k], binary, q, logs, pc)
      /\ logs \in Seq(Nat) /\ Len(logs) >= 1
      /\ cases[k].attack \in AttackNames
      /\ cases[k].log \in Seq(Nat)
  BY <1>1, CaseState
<1>3. /\ cases[k].log = Damaged(cases[k].attack, logs)
      /\ cases[k].report = localization_report(binary, cases[k].attack, q,
                                               logs, cases[k].log)
  BY <1>1, <1>2 DEF ReportHolds
<1>4. cases[k].attack \in {"tampered", "reordered"}
  BY <1>1, <1>2, <1>3, DamagedTyped
<1> QED
  BY <1>1, <1>2, <1>3, <1>4

(***************************************************************************)
(* For a prime p, the first prefix state that differs names the first      *)
(* entry that differs modulo p, whatever happens to the log after it.      *)
(***************************************************************************)
THEOREM PrefixesLocalise == IsPrime /\ Spec => []PrefixLocalises
<1>1. ASSUME IsPrime, IInv PROVE PrefixLocalises
  <2> SUFFICES ASSUME NEW k \in Reported
               PROVE  cases[k].report.divergence
                          = FirstDiffering(Residues(logs), Residues(cases[k].log))
    BY DEF PrefixLocalises
  <2> DEFINE m == cases[k].log
  <2>1. /\ k \in DOMAIN cases /\ m \in Seq(Nat) /\ Len(m) = Len(logs)
        /\ cases[k].report = localization_report(binary, cases[k].attack, q, logs, m)
    BY <1>1, ReportedIs
  <2>2. /\ binary \in Binaries /\ q \in Int /\ q % P # 0 /\ logs \in Seq(Nat)
    BY <1>1, <2>1, CaseState
  <2>3. cases[k].report.divergence = prefix_divergence(binary, q, logs, m)
    BY <2>1 DEF localization_report
  <2>4. IsDomain
    BY <1>1, PrimesAreDomains
  <2> HIDE DEF m
  <2>5. prefix_divergence(binary, q, logs, m)
            = FirstDiffering(Residues(logs), Residues(m))
    BY <2>1, <2>2, <2>4, PrefixFirst
  <2> QED
    BY <2>3, <2>5 DEF m
<1> QED
  BY <1>1, MetricsInvariant, PrimeStays, PTL

(***************************************************************************)
(* Whichever window is printed carries the whole change of the state, and  *)
(* the two halves of a log always add up to the whole; for any modulus.    *)
(***************************************************************************)
THEOREM WindowsCarryChange == Spec => []WindowCarriesChange
<1>1. ASSUME IInv PROVE WindowCarriesChange
  <2>1. ASSUME NEW k \in Reported
        PROVE  LET c == cases[k]
               IN  (c.report.shifted[2] - c.report.shifted[1]) % P
                       = (c.after - c.before) % P
    <3> DEFINE m == cases[k].log
               a == cases[k].attack
               s == cases[k].report.shifted
    <3>1. /\ k \in DOMAIN cases /\ m \in Seq(Nat) /\ Len(m) = Len(logs)
          /\ a \in {"tampered", "reordered"}
          /\ m = Damaged(a, logs)
          /\ cases[k].report = localization_report(binary, a, q, logs, m)
      BY <1>1, <2>1, ReportedIs
    <3>2. /\ ReportHolds(cases[k], binary, q, logs, pc)
          /\ binary \in Binaries /\ q \in Int
          /\ logs \in Seq(Nat) /\ Len(logs) >= 1
      BY <1>1, <3>1, CaseState
    <3>3. s = ShiftedWindows(binary, a, q, logs, m)
      BY <3>1 DEF localization_report
    <3>4. /\ cases[k].before = state_for_logs(binary, q, logs)
          /\ cases[k].after = state_for_logs(binary, q, m)
      BY <3>2 DEF ReportHolds
    <3> HIDE DEF m, a, s
    <3>5. Change(s[1], s[2], binary, q, logs, m)
      <4>1. CASE binary = "main"
        <5>1. s = localize_window(q, logs, m)
          BY <3>3, <4>1 DEF ShiftedWindows
        <5>2. Change(localize_window(q, logs, m)[1], localize_window(q, logs, m)[2],
                     "main", q, logs, m)
          BY <3>1, <3>2, LocalizedChange
        <5> QED
          BY <4>1, <5>1, <5>2
      <4>2. CASE binary = "main1" /\ a = "tampered"
        <5>1. s = tampered_window(q, logs, m) /\ m = Damaged("tampered", logs)
          BY <3>1, <3>3, <4>2 DEF ShiftedWindows
        <5>2. Change(tampered_window(q, logs, m)[1], tampered_window(q, logs, m)[2],
                     "main1", q, logs, m)
          BY <3>2, <5>1, TamperedChange
        <5> QED
          BY <4>2, <5>1, <5>2
      <4>3. CASE binary = "main1" /\ a = "reordered"
        <5>1. s = reordered_window(q, logs, m)
          BY <3>3, <4>3 DEF ShiftedWindows
        <5>2. Change(reordered_window(q, logs, m)[1], reordered_window(q, logs, m)[2],
                     "main1", q, logs, m)
          BY <3>1, <3>2, ReorderedChange
        <5> QED
          BY <4>3, <5>1, <5>2
      <4> QED
        BY <3>1, <3>2, <4>1, <4>2, <4>3 DEF Binaries
    <3> QED
      BY <3>4, <3>5 DEF Change, s
  <2>2. ASSUME composition # Unset PROVE composition[1] = composition[2]
    <3>1. /\ pc = "section2"
          /\ composition = <<Half(binary, q, logs, Len(logs) \div 2),
                             state_for_logs(binary, q, logs)>>
      BY <1>1, <2>2 DEF IInv, HalvesComposed
    <3>2. q \in Bases /\ binary \in Binaries /\ logs \in Seq(Nat)
      BY <1>1, <3>1, LogIsNat DEF IInv, BaseChosen, TypesHold
    <3>3. q \in Int
      BY <3>2, BaseTyped
    <3>4. Len(logs) \div 2 \in 0 .. Len(logs)
      <4>1. PICK n \in Nat : n = Len(logs)
        BY <3>2, LenProperties
      <4> QED
        BY <4>1
    <3>5. Half(binary, q, logs, Len(logs) \div 2) = state_for_logs(binary, q, logs)
      BY <3>2, <3>3, <3>4, HalvesCompose
    <3> QED
      BY <3>1, <3>5
  <2> QED
    BY <2>1, <2>2 DEF WindowCarriesChange
<1> QED
  BY <1>1, MetricsInvariant, PTL

(***************************************************************************)
(* The printed collision bound holds of every log of the same length that  *)
(* differs somewhere modulo the prime p: the bases that hide the           *)
(* difference are roots of a polynomial whose degree is the bound.         *)
(***************************************************************************)
THEOREM FewBasesCollide == IsPrime /\ Spec => []CollisionBound
<1>1. ASSUME IsPrime, IInv PROVE CollisionBound
  <2> SUFFICES ASSUME pc = "attacks", NEW l \in [1 .. Len(logs) -> Entries],
                      Residues(l) # Residues(logs)
               PROVE  Cardinality(CollidingBases(l))
                          <= collision_probability_bound(binary, Len(logs))
    BY DEF CollisionBound
  <2>1. binary \in Binaries /\ logs \in Seq(Nat) /\ Len(logs) \in Nat
    BY <1>1, LogIsNat, LenProperties DEF IInv, TypesHold
  <2>2. l \in Seq(Entries) /\ Len(l) = Len(logs)
    BY <2>1
  <2>3. l \in Seq(Nat)
    BY <2>2, LogIsNat
  <2>4. IsDomain
    BY <1>1, PrimesAreDomains
  <2>5. Cardinality(Colliding(binary, logs, l))
            <= collision_probability_bound(binary, Len(logs))
    BY <2>1, <2>2, <2>3, <2>4, FewCollide
  <2>6. CollidingBases(l) = Colliding(binary, logs, l)
    BY DEF CollidingBases, Colliding
  <2> QED
    BY <2>5, <2>6
<1> QED
  BY <1>1, MetricsInvariant, PrimeStays, PTL
=============================================================================
