------------------------- MODULE AccumulatorLemmas -------------------------
(***************************************************************************)
(* Facts about FieldArith and Accumulator: the laws of Pow, the modular    *)
(* helpers where no intermediate result overflows, one update of the       *)
(* struct, and what the loops of ksentry_fast and ksentry_spec compute     *)
(* over a sequence.                                                        *)
(***************************************************************************)
EXTENDS Accumulator, ModulusLemmas

-----------------------------------------------------------------------------
(***************************************************************************)
(* Pow is a recursive function: that it satisfies its own equation is to   *)
(* be proved.  IsPowUpTo(n, f) says that f computes it on 0 .. n.  Such    *)
(* functions exist for every n and agree where they overlap, so that their *)
(* values glue to a function on Nat.                                       *)
(***************************************************************************)
IsPowUpTo(n, f) ==
    /\ f \in [0 .. n -> 0 .. (P - 1)]
    /\ f[0] = 1
    /\ \A i \in 1 .. n : f[i] = (f[i - 1] * (Q % P)) % P

LEMMA PowUpToExists ==
    ASSUME NEW n \in Nat
    PROVE  \E f : IsPowUpTo(n, f)
<1> DEFINE T == {i \in Nat : ~ \E f : IsPowUpTo(i, f)}
<1>1. SUFFICES ASSUME T # {} PROVE FALSE
  OBVIOUS
<1>2. PICK m \in T : \A k \in T : m <= k
  BY <1>1, NatMinimum
<1>3. m # 0
  <2> DEFINE one == [i \in 0 .. 0 |-> 1]
  <2>1. IsPowUpTo(0, one)
    BY ParamAssumption DEF IsPowUpTo
  <2> QED
    BY <2>1
<1>4. m - 1 \in Nat /\ m - 1 \notin T
  BY <1>2, <1>3
<1>5. PICK f : IsPowUpTo(m - 1, f)
  BY <1>4
<1> DEFINE g == [i \in 0 .. m |->
                   IF i = m THEN (f[m - 1] * (Q % P)) % P ELSE f[i]]
<1>6. f[m - 1] \in 0 .. (P - 1) /\ Q % P \in Int
  BY <1>3, <1>4, <1>5, ParamAssumption, BaseAssumption DEF IsPowUpTo
<1>7. (f[m - 1] * (Q % P)) % P \in 0 .. (P - 1)
  <2>1. f[m - 1] * (Q % P) \in Int
    BY <1>6
  <2> QED
    BY <2>1, DivMod
<1>8. g \in [0 .. m -> 0 .. (P - 1)]
  BY <1>3, <1>4, <1>5, <1>7 DEF IsPowUpTo
<1>9. g[0] = 1
  BY <1>3, <1>4, <1>5 DEF IsPowUpTo
<1>10. ASSUME NEW i \in 1 .. m PROVE g[i] = (g[i - 1] * (Q % P)) % P
  <2>1. CASE i = m
    BY <2>1, <1>3, <1>4
  <2>2. CASE i # m
    BY <2>2, <1>4, <1>5 DEF IsPowUpTo
  <2> QED
    BY <2>1, <2>2
<1>11. IsPowUpTo(m, g)
  BY <1>8, <1>9, <1>10 DEF IsPowUpTo
<1> QED
  BY <1>2, <1>11

LEMMA PowUpToAgree ==
    ASSUME NEW n \in Nat, NEW f, IsPowUpTo(n, f),
           NEW m \in Nat, NEW g, IsPowUpTo(m, g),
           NEW j \in Nat, j <= n, j <= m
    PROVE  f[j] = g[j]
<1> DEFINE T == {i \in Nat : i <= n /\ i <= m /\ f[i] # g[i]}
<1>1. SUFFICES ASSUME T # {} PROVE FALSE
  OBVIOUS
<1>2. PICK k \in T : \A i \in T : k <= i
  BY <1>1, NatMinimum
<1>3. k # 0
  BY <1>2 DEF IsPowUpTo
<1>4. k - 1 \in Nat /\ k - 1 \notin T
  BY <1>2, <1>3
<1>5. f[k - 1] = g[k - 1]
  BY <1>2, <1>4
<1>6. f[k] = (f[k - 1] * (Q % P)) % P /\ g[k] = (g[k - 1] * (Q % P)) % P
  BY <1>2, <1>3 DEF IsPowUpTo
<1> QED
  BY <1>2, <1>5, <1>6

LEMMA PowDef ==
    Pow = [e \in Nat |-> IF e = 0 THEN 1 ELSE (Pow[e - 1] * (Q % P)) % P]
<1> DEFINE F(n) == CHOOSE f : IsPowUpTo(n, f)
           G == [n \in Nat |-> F(n)[n]]
<1>1. ASSUME NEW n \in Nat PROVE IsPowUpTo(n, F(n))
  <2>1. \E f : IsPowUpTo(n, f)
    BY PowUpToExists
  <2> QED
    BY <2>1
<1> HIDE DEF F
<1>2. ASSUME NEW e \in Nat
      PROVE  G[e] = IF e = 0 THEN 1 ELSE (G[e - 1] * (Q % P)) % P
  <2>1. CASE e = 0
    BY <2>1, <1>1 DEF IsPowUpTo
  <2>2. CASE e # 0
    <3>1. e - 1 \in Nat
      BY <2>2
    <3>2. F(e)[e] = (F(e)[e - 1] * (Q % P)) % P
      BY <2>2, <1>1 DEF IsPowUpTo
    <3>3. F(e)[e - 1] = F(e - 1)[e - 1]
      <4>1. IsPowUpTo(e, F(e)) /\ IsPowUpTo(e - 1, F(e - 1))
        BY <1>1, <3>1
      <4>2. e - 1 <= e /\ e - 1 <= e - 1
        BY <3>1
      <4> QED
        BY <4>1, <4>2, <3>1, PowUpToAgree
    <3> QED
      BY <2>2, <3>1, <3>2, <3>3
  <2> QED
    BY <2>1, <2>2
<1>3. G = [e \in Nat |-> IF e = 0 THEN 1 ELSE (G[e - 1] * (Q % P)) % P]
  BY <1>2
<1> HIDE DEF G
<1> QED
  BY <1>3 DEF Pow

(***************************************************************************)
(* The values of Pow, its two equations, and the law of exponents.         *)
(***************************************************************************)
LEMMA PowStep ==
    /\ Pow[0] = 1
    /\ \A e \in Nat : Pow[e + 1] = (Pow[e] * (Q % P)) % P
<1> DEFINE Body(e) == IF e = 0 THEN 1 ELSE (Pow[e - 1] * (Q % P)) % P
<1>1. \A e \in Nat : Pow[e] = Body(e)
  <2>1. Pow = [e \in Nat |-> Body(e)]
    BY PowDef
  <2> HIDE DEF Body
  <2> QED
    BY <2>1
<1>2. Pow[0] = 1
  BY <1>1
<1>3. ASSUME NEW e \in Nat PROVE Pow[e + 1] = (Pow[e] * (Q % P)) % P
  <2>1. e + 1 \in Nat /\ e + 1 # 0 /\ (e + 1) - 1 = e
    OBVIOUS
  <2>2. Pow[e + 1] = Body(e + 1)
    BY <1>1, <2>1
  <2> QED
    BY <2>1, <2>2
<1> QED
  BY <1>2, <1>3

LEMMA PowRange ==
    ASSUME NEW e \in Nat
    PROVE  Pow[e] \in 0 .. (P - 1)
<1> DEFINE T == {i \in Nat : Pow[i] \notin 0 .. (P - 1)}
<1>1. SUFFICES ASSUME T # {} PROVE FALSE
  OBVIOUS
<1>2. PICK k \in T : \A i \in T : k <= i
  BY <1>1, NatMinimum
<1>3. k # 0
  BY <1>2, PowStep, ParamAssumption
<1>4. k - 1 \in Nat /\ k - 1 \notin T /\ k = (k - 1) + 1
  BY <1>2, <1>3
<1>5. Pow[k - 1] * (Q % P) \in Int /\ Pow[k] = (Pow[k - 1] * (Q % P)) % P
  <2>1. Pow[k - 1] \in Int /\ Q % P \in Int
    BY <1>4, ParamAssumption, BaseAssumption
  <2> QED
    BY <2>1, <1>4, PowStep
<1>6. Pow[k] \in 0 .. (P - 1)
  BY <1>5, DivMod
<1> QED
  BY <1>2, <1>6

LEMMA PowAdd ==
    ASSUME NEW a \in Nat, NEW b \in Nat
    PROVE  Pow[a + b] = (Pow[a] * Pow[b]) % P
<1> DEFINE T == {i \in Nat : Pow[a + i] # (Pow[a] * Pow[i]) % P}
<1>1. SUFFICES ASSUME T # {} PROVE FALSE
  OBVIOUS
<1>2. PICK k \in T : \A i \in T : k <= i
  BY <1>1, NatMinimum
<1>3. k # 0
  <2>1. Pow[a] \in 0 .. (P - 1) /\ Pow[0] = 1
    BY PowRange, PowStep
  <2>2. (Pow[a] * 1) % P = Pow[a]
    BY <2>1, ModSmall, ParamAssumption
  <2>3. a + 0 = a
    OBVIOUS
  <2> QED
    BY <1>2, <2>1, <2>2, <2>3
<1> DEFINE j == k - 1
           q == Q % P
<1>4. j \in Nat /\ j \notin T /\ k = j + 1
  BY <1>2, <1>3
<1> HIDE DEF j
<1>5. /\ Pow[a] \in Int /\ Pow[j] \in Int /\ q \in Int
      /\ Pow[a] * Pow[j] \in Int /\ Pow[j] * q \in Int
  <2>1. Pow[a] \in Int /\ Pow[j] \in Int
    BY <1>4, PowRange, ParamAssumption
  <2>2. q \in Int
    BY ParamAssumption, BaseAssumption
  <2> QED
    BY <2>1, <2>2
<1>6. Pow[a + j] = (Pow[a] * Pow[j]) % P
  BY <1>4
<1>7. Pow[a + k] = (Pow[a + j] * q) % P
  <2>1. a + j \in Nat /\ a + k = (a + j) + 1
    BY <1>4
  <2> QED
    BY <2>1, PowStep
<1>8. Pow[k] = (Pow[j] * q) % P
  BY <1>4, PowStep
<1> HIDE DEF q
<1>9. Pow[a + k] = ((Pow[a] * Pow[j]) * q) % P
  BY <1>5, <1>6, <1>7, ModTimes
<1>10. (Pow[a] * Pow[k]) % P = ((Pow[j] * q) * Pow[a]) % P
  <2>1. (((Pow[j] * q) % P) * Pow[a]) % P = ((Pow[j] * q) * Pow[a]) % P
    BY <1>5, ModTimes
  <2>2. Pow[a] * ((Pow[j] * q) % P) = ((Pow[j] * q) % P) * Pow[a]
    <3>1. (Pow[j] * q) % P \in Int
      BY <1>5, DivMod
    <3> QED
      BY <3>1, <1>5
  <2> QED
    BY <2>1, <2>2, <1>8
<1>11. (Pow[a] * Pow[j]) * q = (Pow[j] * q) * Pow[a]
  BY <1>5
<1> QED
  BY <1>2, <1>9, <1>10, <1>11

(***************************************************************************)
(* T_(n+1) = T_n + (n + 1): the step from one triangular exponent to the   *)
(* next, which is why the updater of the code can keep q^(T_n) by one      *)
(* multiplication.                                                         *)
(***************************************************************************)
LEMMA TriangularStep ==
    ASSUME NEW n \in Nat
    PROVE  /\ triangular_exp(n) \in Nat
           /\ triangular_exp(n + 1) = triangular_exp(n) + (n + 1)
<1> DEFINE x == n * (n + 1)
<1>1. x \in Nat /\ (n + 1) * ((n + 1) + 1) = x + 2 * (n + 1)
  OBVIOUS
<1> HIDE DEF x
<1>2. x \div 2 \in Nat /\ (x + 2 * (n + 1)) \div 2 = x \div 2 + (n + 1)
  BY <1>1
<1> QED
  BY <1>1, <1>2 DEF triangular_exp, x

-----------------------------------------------------------------------------
(***************************************************************************)
(* The two helpers return field elements whatever overflows.               *)
(***************************************************************************)
LEMMA HelpersInField ==
    ASSUME NEW a \in Nat, NEW b \in Nat
    PROVE  mod_mul(a, b, P) \in Field /\ mod_add(a, b, P) \in Field
<1> DEFINE r == a % P
           s == b % P
<1>1. r \in Nat /\ s \in Nat
  BY ParamAssumption
<1> HIDE DEF r, s
<1>2. (r * s) % Word \in Int /\ (r + s) % Word \in Int
  <2>1. r * s \in Int /\ r + s \in Int
    BY <1>1
  <2> QED
    BY <2>1, ParamAssumption
<1>3. ((r * s) % Word) % P \in 0 .. (P - 1) /\ ((r + s) % Word) % P \in 0 .. (P - 1)
  BY <1>2, DivMod
<1> QED
  BY <1>3 DEF mod_mul, mod_add, Field, r, s

(***************************************************************************)
(* Where they do not overflow, they compute modulo P.                      *)
(***************************************************************************)
LEMMA MulExact ==
    ASSUME NEW a \in Field, NEW b \in Field, ~ MulOverflows(a, b, P)
    PROVE  mod_mul(a, b, P) = (a * b) % P
<1>1. a % P = a /\ b % P = b
  BY ModSmall DEF Field
<1>2. a * b \in Nat /\ a * b < Word
  <2>1. a \in Nat /\ b \in Nat
    BY ParamAssumption DEF Field
  <2>2. a * b \in Nat
    BY <2>1
  <2> QED
    BY <1>1, <2>2, ParamAssumption DEF MulOverflows
<1>3. (a * b) % Word = a * b
  <2> DEFINE c == a * b
  <2>1. c \in Nat /\ c < Word
    BY <1>2
  <2> HIDE DEF c
  <2>2. c % Word = c
    BY <2>1, ParamAssumption
  <2> QED
    BY <2>2 DEF c
<1> QED
  BY <1>1, <1>3 DEF mod_mul

LEMMA AddExact ==
    ASSUME NEW a \in Field, NEW b \in Field, ~ AddOverflows(a, b, P)
    PROVE  mod_add(a, b, P) = (a + b) % P
<1>1. a % P = a /\ b % P = b
  BY ModSmall DEF Field
<1>2. (a + b) % Word = a + b
  BY <1>1, ParamAssumption DEF AddOverflows, Field
<1> QED
  BY <1>1, <1>2 DEF mod_add

LEMMA NoHelperOverflows ==
    ASSUME NEW a \in Field, NEW b \in Field, NoOverflow
    PROVE  ~ MulOverflows(a, b, P) /\ ~ AddOverflows(a, b, P)
<1>1. a % P = a /\ b % P = b
  BY ModSmall DEF Field
<1>2. a * b <= (P - 1) * (P - 1)
  <2>1. /\ a \in Nat /\ b \in Nat /\ P - 1 \in Nat
        /\ a <= P - 1 /\ b <= P - 1
    BY ParamAssumption DEF Field
  <2>2. a * b <= a * (P - 1)
    BY <2>1
  <2>3. a * (P - 1) <= (P - 1) * (P - 1)
    BY <2>1
  <2> QED
    BY <2>1, <2>2, <2>3
<1>3. a * b < Word
  <2>1. a * b \in Int /\ (P - 1) * (P - 1) \in Int
    BY ParamAssumption DEF Field
  <2> QED
    BY <1>2, <2>1, ParamAssumption DEF NoOverflow
<1>4. ~ (a * b >= Word)
  <2>1. a * b \in Int
    BY ParamAssumption DEF Field
  <2> QED
    BY <1>3, <2>1, ParamAssumption
<1>5. ~ (a + b >= Word)
  BY ParamAssumption DEF NoOverflow, Field
<1> QED
  BY <1>1, <1>4, <1>5 DEF MulOverflows, AddOverflows

-----------------------------------------------------------------------------
(***************************************************************************)
(* The struct is well typed at any moment.                                 *)
(***************************************************************************)
Struct == [n : Nat, acc : Field, weight : Field, step : Field]

LEMMA NewTyped == new \in Struct /\ new.n = 0
<1>1. Q % P \in Field
  BY ResidueInField, ParamAssumption, BaseAssumption
<1>2. 0 \in Field /\ 1 \in Field
  BY ParamAssumption DEF Field
<1> QED
  BY <1>1, <1>2 DEF new, Struct

LEMMA UpdateTyped ==
    ASSUME NEW s \in Struct, NEW x \in Nat
    PROVE  update(s, x) \in Struct /\ update(s, x).n = s.n + 1
<1>1. x % P \in Field /\ Q % P \in Field
  BY ResidueInField, ParamAssumption, BaseAssumption
<1>2. s.acc \in Nat /\ s.weight \in Nat /\ s.step \in Nat
      /\ x % P \in Nat /\ Q % P \in Nat
  BY <1>1, FieldIsNat DEF Struct
<1>3. mod_mul(x % P, s.weight, P) \in Field
  BY <1>2, HelpersInField
<1>4. mod_add(s.acc, mod_mul(x % P, s.weight, P), P) \in Field
  BY <1>2, <1>3, FieldIsNat, HelpersInField
<1>5. mod_mul(s.weight, s.step, P) \in Field /\ mod_mul(s.step, Q % P, P) \in Field
  BY <1>2, HelpersInField
<1> QED
  BY <1>4, <1>5 DEF update, Struct

(***************************************************************************)
(* An update that does not overflow is the exact one.                      *)
(***************************************************************************)
LEMMA UpdateExact ==
    ASSUME NEW s \in Struct, NEW x \in Nat, ~ UpdateOverflows(s, x)
    PROVE  /\ update(s, x).acc = (s.acc + (x % P) * s.weight) % P
           /\ update(s, x).weight = (s.weight * s.step) % P
           /\ update(s, x).step = (s.step * (Q % P)) % P
<1>1. x % P \in Field /\ Q % P \in Field
  BY ResidueInField, ParamAssumption, BaseAssumption
<1>2. s.acc \in Field /\ s.weight \in Field /\ s.step \in Field
  BY DEF Struct
<1> DEFINE y == x % P
           m == mod_mul(y, s.weight, P)
<1>3. m = (y * s.weight) % P
  BY <1>1, <1>2, MulExact DEF UpdateOverflows
<1>4. m \in Field
  BY <1>1, <1>2, FieldIsNat, HelpersInField
<1>5. mod_add(s.acc, m, P) = (s.acc + m) % P
  BY <1>2, <1>4, AddExact DEF UpdateOverflows
<1>6. (s.acc + m) % P = (s.acc + y * s.weight) % P
  <2>1. y * s.weight \in Int /\ s.acc \in Int /\ m \in Int
    <3>1. y \in Nat /\ s.weight \in Nat /\ s.acc \in Nat /\ m \in Nat
      BY <1>1, <1>2, <1>4, FieldIsNat
    <3> QED
      BY <3>1
  <2>2. (((y * s.weight) % P) + s.acc) % P = (y * s.weight + s.acc) % P
    BY <2>1, ModPlus
  <2>3. s.acc + m = m + s.acc /\ s.acc + y * s.weight = y * s.weight + s.acc
    BY <2>1
  <2> QED
    BY <1>3, <2>2, <2>3
<1>7. update(s, x).acc = (s.acc + y * s.weight) % P
  BY <1>5, <1>6 DEF update
<1>8. /\ mod_mul(s.weight, s.step, P) = (s.weight * s.step) % P
      /\ mod_mul(s.step, Q % P, P) = (s.step * (Q % P)) % P
  BY <1>1, <1>2, MulExact DEF UpdateOverflows
<1> QED
  BY <1>7, <1>8 DEF update

LEMMA UpdateNeverOverflows ==
    ASSUME NEW s \in Struct, NEW x \in Nat, NoOverflow
    PROVE  ~ UpdateOverflows(s, x)
<1>1. x % P \in Field /\ Q % P \in Field
  BY ResidueInField, ParamAssumption, BaseAssumption
<1>2. s.acc \in Field /\ s.weight \in Field /\ s.step \in Field
  BY DEF Struct
<1>3. mod_mul(x % P, s.weight, P) \in Field
  BY <1>1, <1>2, FieldIsNat, HelpersInField
<1> QED
  BY <1>1, <1>2, <1>3, NoHelperOverflows DEF UpdateOverflows

-----------------------------------------------------------------------------
(***************************************************************************)
(* What the recursive function inside updated is: after n elements it      *)
(* holds a struct, and one update leads from one to the next.              *)
(***************************************************************************)
IsRun(f, s, xs) ==
    /\ f \in [0 .. Len(xs) -> Struct]
    /\ f[0] = s
    /\ \A n \in 1 .. Len(xs) : f[n] = update(f[n - 1], xs[n])

LEMMA UpdatedRun ==
    ASSUME NEW s \in Struct, NEW xs \in Seq(Nat)
    PROVE  \E f : IsRun(f, s, xs) /\ updated(s, xs) = f[Len(xs)]
<1> DEFINE N == Len(xs)
           G == [n \in 1 .. N |-> [t \in Struct |-> update(t, xs[n])]]
           Fix(f) == f = [n \in 0 .. Len(xs) |->
                            IF n = 0 THEN s ELSE update(f[n - 1], xs[n])]
           D == CHOOSE f : Fix(f)
<1>1. N \in Nat /\ \A n \in 1 .. N : xs[n] \in Nat
  BY LenProperties
<1>2. ASSUME NEW n \in 1 .. N, NEW t \in Struct PROVE update(t, xs[n]) \in Struct
  BY <1>1, UpdateTyped
<1>3. G \in [1 .. N -> [Struct -> Struct]]
  BY <1>2
<1>4. PICK f \in [0 .. N -> Struct] : IsLoop(f, N, s, G)
  BY <1>1, <1>3, LoopExists
<1>5. \A n \in 1 .. N : f[n - 1] \in Struct /\ f[n] = update(f[n - 1], xs[n])
  <2>1. ASSUME NEW n \in 1 .. N
        PROVE f[n - 1] \in Struct /\ f[n] = update(f[n - 1], xs[n])
    <3>1. n - 1 \in 0 .. N
      BY <1>1
    <3>2. f[n - 1] \in Struct /\ f[n] = G[n][f[n - 1]]
      BY <1>4, <3>1 DEF IsLoop
    <3> QED
      BY <3>2
  <2> QED
    BY <2>1
<1>6. Fix(f)
  BY <1>1, <1>4, <1>5 DEF IsLoop
<1>7. Fix(D)
  BY <1>6
<1>8. updated(s, xs) = D[Len(xs)]
  BY DEF updated
<1> HIDE DEF D
<1>9. ASSUME NEW g, Fix(g), NEW n \in 1 .. N
       PROVE  g[n] = update(g[n - 1], xs[n])
  <2> DEFINE Body(k) == IF k = 0 THEN s ELSE update(g[k - 1], xs[k])
  <2>1. g = [k \in 0 .. N |-> Body(k)]
    BY <1>9
  <2> HIDE DEF Body
  <2>2. g[n] = Body(n)
    BY <1>1, <2>1
  <2> QED
    BY <1>1, <2>2 DEF Body
<1>10. D = f
  <2> DEFINE T == {n \in Nat : n <= N /\ D[n] # f[n]}
  <2>1. T = {}
    <3>1. SUFFICES ASSUME T # {} PROVE FALSE
      OBVIOUS
    <3>2. PICK m \in T : \A k \in T : m <= k
      BY <3>1, NatMinimum
    <3>3. m # 0
      BY <1>1, <1>6, <1>7, <3>2
    <3>4. m - 1 \in Nat /\ m - 1 \notin T /\ m \in 1 .. N
      BY <1>1, <3>2, <3>3
    <3>5. D[m] = update(D[m - 1], xs[m]) /\ f[m] = update(f[m - 1], xs[m])
      BY <1>6, <1>7, <1>9, <3>4
    <3> QED
      BY <3>2, <3>4, <3>5
  <2>2. \A n \in 0 .. N : D[n] = f[n]
    BY <1>1, <2>1
  <2> QED
    BY <1>6, <1>7, <2>2
<1> QED
  BY <1>4, <1>5, <1>8, <1>10 DEF IsRun, IsLoop

LEMMA RunsAgree ==
    ASSUME NEW s \in Struct, NEW xs \in Seq(Nat), NEW ys \in Seq(Nat),
           NEW f, IsRun(f, s, xs), NEW g, IsRun(g, s, ys),
           NEW k \in Nat, k <= Len(xs), k <= Len(ys),
           \A n \in 1 .. k : xs[n] = ys[n]
    PROVE  f[k] = g[k]
<1> DEFINE T == {n \in Nat : n <= k /\ f[n] # g[n]}
<1>1. SUFFICES ASSUME T # {} PROVE FALSE
  OBVIOUS
<1>2. PICK m \in T : \A n \in T : m <= n
  BY <1>1, NatMinimum
<1>3. m # 0
  BY <1>2 DEF IsRun
<1>4. m - 1 \in Nat /\ m - 1 \notin T /\ m \in 1 .. k
  BY <1>2, <1>3
<1>5. m \in 1 .. Len(xs) /\ m \in 1 .. Len(ys)
  BY <1>4, LenProperties
<1>6. f[m] = update(f[m - 1], xs[m]) /\ g[m] = update(g[m - 1], ys[m])
  BY <1>5 DEF IsRun
<1> QED
  BY <1>2, <1>4, <1>6

LEMMA UpdatedEmpty ==
    ASSUME NEW s \in Struct
    PROVE  updated(s, << >>) = s
<1>1. << >> \in Seq(Nat) /\ Len(<< >>) = 0
  BY EmptySeq
<1>2. PICK f : IsRun(f, s, << >>) /\ updated(s, << >>) = f[Len(<< >>)]
  BY <1>1, UpdatedRun
<1> QED
  BY <1>1, <1>2 DEF IsRun

LEMMA UpdatedAppend ==
    ASSUME NEW s \in Struct, NEW xs \in Seq(Nat), NEW x \in Nat
    PROVE  updated(s, Append(xs, x)) = update(updated(s, xs), x)
<1> DEFINE ys == Append(xs, x)
           n == Len(xs)
<1>1. /\ n \in Nat /\ ys \in Seq(Nat) /\ Len(ys) = n + 1
      /\ \A i \in 1 .. n : ys[i] = xs[i]
      /\ ys[n + 1] = x
  BY LenProperties, AppendProperties
<1> HIDE DEF ys
<1>2. PICK f : IsRun(f, s, xs) /\ updated(s, xs) = f[n]
  BY UpdatedRun
<1>3. PICK g : IsRun(g, s, ys) /\ updated(s, ys) = g[n + 1]
  BY <1>1, UpdatedRun
<1> HIDE DEF n
<1>4. g[n] = f[n]
  <2>1. n <= Len(xs) /\ n <= Len(ys) /\ \A i \in 1 .. n : xs[i] = ys[i]
    BY <1>1 DEF n
  <2> QED
    BY <1>1, <1>2, <1>3, <2>1, RunsAgree
<1>5. g[n + 1] = update(g[n], ys[n + 1])
  <2>1. n + 1 \in 1 .. Len(ys) /\ (n + 1) - 1 = n
    BY <1>1
  <2> QED
    BY <1>3, <2>1 DEF IsRun
<1> QED
  BY <1>1, <1>2, <1>3, <1>4, <1>5 DEF ys

LEMMA UpdatedTyped ==
    ASSUME NEW s \in Struct, NEW xs \in Seq(Nat)
    PROVE  updated(s, xs) \in Struct
<1>1. PICK f : IsRun(f, s, xs) /\ updated(s, xs) = f[Len(xs)]
  BY UpdatedRun
<1>2. Len(xs) \in 0 .. Len(xs)
  BY LenProperties
<1> QED
  BY <1>1, <1>2 DEF IsRun

-----------------------------------------------------------------------------
(***************************************************************************)
(* The same for the sum inside ksentry_spec.                               *)
(***************************************************************************)
Term(x, n) == (x % P) * Pow[triangular_exp(n)]

IsSum(f, xs) ==
    /\ f \in [0 .. Len(xs) -> Field]
    /\ f[0] = 0
    /\ \A n \in 1 .. Len(xs) : f[n] = (f[n - 1] + Term(xs[n], n - 1)) % P

LEMMA TermTyped ==
    ASSUME NEW x \in Int, NEW n \in Nat
    PROVE  Term(x, n) \in Nat
<1>1. x % P \in Nat /\ triangular_exp(n) \in Nat
  BY ResidueInField, FieldIsNat, TriangularStep
<1>2. Pow[triangular_exp(n)] \in Nat
  BY <1>1, PowRange
<1>3. \A a, b \in Nat : a * b \in Nat
  OBVIOUS
<1> QED
  BY <1>1, <1>2, <1>3 DEF Term

LEMMA SpecSum ==
    ASSUME NEW xs \in Seq(Nat)
    PROVE  \E f : IsSum(f, xs) /\ ksentry_spec(xs) = f[Len(xs)]
<1> DEFINE N == Len(xs)
           G == [n \in 1 .. N |-> [d \in Field |-> (d + Term(xs[n], n - 1)) % P]]
           Fix(f) == f = [n \in 0 .. Len(xs) |->
                            IF n = 0 THEN 0
                            ELSE (f[n - 1] + (xs[n] % P)
                                        * Pow[triangular_exp(n - 1)]) % P]
           D == CHOOSE f : Fix(f)
<1>1. N \in Nat /\ \A n \in 1 .. N : xs[n] \in Nat
  BY LenProperties
<1>2. ASSUME NEW n \in 1 .. N, NEW d \in Field
      PROVE (d + Term(xs[n], n - 1)) % P \in Field
  <2>1. Term(xs[n], n - 1) \in Nat /\ d \in Nat
    <3>1. xs[n] \in Int /\ n - 1 \in Nat /\ d \in Nat
      BY <1>1, FieldIsNat
    <3> QED
      BY <3>1, TermTyped
  <2>2. d + Term(xs[n], n - 1) \in Int
    BY <2>1
  <2> QED
    BY <2>2, ResidueInField
<1>3. G \in [1 .. N -> [Field -> Field]] /\ 0 \in Field
  <2>1. 0 \in Field
    BY ParamAssumption DEF Field
  <2> QED
    BY <1>2, <2>1
<1>4. PICK f \in [0 .. N -> Field] : IsLoop(f, N, 0, G)
  BY <1>1, <1>3, LoopExists
<1>5. \A n \in 1 .. N : f[n] = (f[n - 1] + Term(xs[n], n - 1)) % P
  <2>1. ASSUME NEW n \in 1 .. N
        PROVE f[n] = (f[n - 1] + Term(xs[n], n - 1)) % P
    <3>1. n - 1 \in 0 .. N
      BY <1>1
    <3>2. f[n - 1] \in Field /\ f[n] = G[n][f[n - 1]]
      BY <1>4, <3>1 DEF IsLoop
    <3> QED
      BY <3>2
  <2> QED
    BY <2>1
<1>6. Fix(f)
  <2>1. \A n \in 1 .. N :
            f[n] = (f[n - 1] + (xs[n] % P) * Pow[triangular_exp(n - 1)]) % P
    BY <1>5 DEF Term
  <2>2. f[0] = 0
    BY <1>4 DEF IsLoop
  <2> HIDE DEF G
  <2> QED
    BY <1>1, <2>1, <2>2
<1>7. Fix(D)
  BY <1>6
<1>8. ksentry_spec(xs) = D[Len(xs)]
  BY DEF ksentry_spec
<1> HIDE DEF D
<1>9. ASSUME NEW g, Fix(g), NEW n \in 1 .. N
      PROVE  g[n] = (g[n - 1] + Term(xs[n], n - 1)) % P
  <2> DEFINE Body(k) == IF k = 0 THEN 0
                        ELSE (g[k - 1] + (xs[k] % P)
                                    * Pow[triangular_exp(k - 1)]) % P
  <2>1. g = [k \in 0 .. N |-> Body(k)]
    BY <1>9
  <2> HIDE DEF Body
  <2>2. g[n] = Body(n)
    BY <1>1, <2>1
  <2> QED
    BY <1>1, <2>2 DEF Body, Term
<1>10. D = f
  <2> DEFINE T == {n \in Nat : n <= N /\ D[n] # f[n]}
  <2>1. T = {}
    <3>1. SUFFICES ASSUME T # {} PROVE FALSE
      OBVIOUS
    <3>2. PICK m \in T : \A k \in T : m <= k
      BY <3>1, NatMinimum
    <3>3. m # 0
      BY <1>1, <1>6, <1>7, <3>2
    <3>4. m - 1 \in Nat /\ m - 1 \notin T /\ m \in 1 .. N
      BY <1>1, <3>2, <3>3
    <3>5. /\ D[m] = (D[m - 1] + Term(xs[m], m - 1)) % P
          /\ f[m] = (f[m - 1] + Term(xs[m], m - 1)) % P
      BY <1>6, <1>7, <1>9, <3>4
    <3> QED
      BY <3>2, <3>4, <3>5
  <2>2. \A n \in 0 .. N : D[n] = f[n]
    BY <1>1, <2>1
  <2> QED
    BY <1>6, <1>7, <2>2
<1> QED
  BY <1>4, <1>5, <1>8, <1>10 DEF IsSum, IsLoop

LEMMA SumsAgree ==
    ASSUME NEW xs \in Seq(Nat), NEW ys \in Seq(Nat),
           NEW f, IsSum(f, xs), NEW g, IsSum(g, ys),
           NEW k \in Nat, k <= Len(xs), k <= Len(ys),
           \A n \in 1 .. k : xs[n] % P = ys[n] % P
    PROVE  f[k] = g[k]
<1> DEFINE T == {n \in Nat : n <= k /\ f[n] # g[n]}
<1>1. SUFFICES ASSUME T # {} PROVE FALSE
  OBVIOUS
<1>2. PICK m \in T : \A n \in T : m <= n
  BY <1>1, NatMinimum
<1>3. m # 0
  BY <1>2 DEF IsSum
<1>4. m - 1 \in Nat /\ m - 1 \notin T /\ m \in 1 .. k
  BY <1>2, <1>3
<1>5. m \in 1 .. Len(xs) /\ m \in 1 .. Len(ys)
  BY <1>4, LenProperties
<1>6. /\ f[m] = (f[m - 1] + Term(xs[m], m - 1)) % P
      /\ g[m] = (g[m - 1] + Term(ys[m], m - 1)) % P
  BY <1>5 DEF IsSum
<1>7. Term(xs[m], m - 1) = Term(ys[m], m - 1)
  BY <1>4 DEF Term
<1> QED
  BY <1>2, <1>4, <1>6, <1>7

LEMMA SpecEmpty == ksentry_spec(<< >>) = 0
<1>1. << >> \in Seq(Nat) /\ Len(<< >>) = 0
  BY EmptySeq
<1>2. PICK f : IsSum(f, << >>) /\ ksentry_spec(<< >>) = f[Len(<< >>)]
  BY <1>1, SpecSum
<1> QED
  BY <1>1, <1>2 DEF IsSum

LEMMA SpecAppend ==
    ASSUME NEW xs \in Seq(Nat), NEW x \in Nat
    PROVE  ksentry_spec(Append(xs, x))
               = (ksentry_spec(xs) + Term(x, Len(xs))) % P
<1> DEFINE ys == Append(xs, x)
           n == Len(xs)
<1>1. /\ n \in Nat /\ ys \in Seq(Nat) /\ Len(ys) = n + 1
      /\ \A i \in 1 .. n : ys[i] = xs[i]
      /\ ys[n + 1] = x
  BY LenProperties, AppendProperties
<1> HIDE DEF ys
<1>2. PICK f : IsSum(f, xs) /\ ksentry_spec(xs) = f[n]
  BY SpecSum
<1>3. PICK g : IsSum(g, ys) /\ ksentry_spec(ys) = g[n + 1]
  BY <1>1, SpecSum
<1> HIDE DEF n
<1>4. g[n] = f[n]
  <2>1. /\ IsSum(f, xs) /\ IsSum(g, ys)
        /\ n \in Nat /\ n <= Len(xs) /\ n <= Len(ys)
        /\ \A i \in 1 .. n : xs[i] % P = ys[i] % P
    BY <1>1, <1>2, <1>3 DEF n
  <2>2. ys \in Seq(Nat)
    BY <1>1
  <2>3. f[n] = g[n]
    BY <2>1, <2>2, SumsAgree, SMTT(30)
  <2> QED
    BY <2>3
<1>5. g[n + 1] = (g[n] + Term(ys[n + 1], n)) % P
  <2>1. n + 1 \in 1 .. Len(ys) /\ (n + 1) - 1 = n
    BY <1>1
  <2> QED
    BY <1>3, <2>1 DEF IsSum
<1> QED
  BY <1>1, <1>2, <1>3, <1>4, <1>5 DEF ys, n

LEMMA SpecTyped ==
    ASSUME NEW xs \in Seq(Nat)
    PROVE  ksentry_spec(xs) \in Field
<1>1. PICK f : IsSum(f, xs) /\ ksentry_spec(xs) = f[Len(xs)]
  BY SpecSum
<1>2. Len(xs) \in 0 .. Len(xs)
  BY LenProperties
<1> QED
  BY <1>1, <1>2 DEF IsSum

-----------------------------------------------------------------------------
(***************************************************************************)
(* The loop of ksentry_fast from any struct: it counts what it is fed, and *)
(* running it over two sequences one after the other is running it over    *)
(* their concatenation.                                                    *)
(***************************************************************************)
LEMMA UpdatedCounts ==
    ASSUME NEW s \in Struct, NEW xs \in Seq(Nat)
    PROVE  updated(s, xs).n = s.n + Len(xs)
<1> DEFINE Good(ys) == updated(s, ys).n = s.n + Len(ys)
           B == {ys \in Seq(Nat) : Good(ys)}
<1>1. s.n \in Nat
  BY DEF Struct
<1>2. << >> \in B
  <2>1. << >> \in Seq(Nat) /\ Len(<< >>) = 0
    BY EmptySeq
  <2> QED
    BY <1>1, <2>1, UpdatedEmpty
<1>3. ASSUME NEW ys \in Seq(Nat), NEW y \in Nat, Good(ys)
      PROVE  Good(Append(ys, y))
  <2>1. Len(ys) \in Nat /\ Len(Append(ys, y)) = Len(ys) + 1
    BY LenProperties, AppendProperties
  <2>2. updated(s, ys) \in Struct
    BY UpdatedTyped
  <2>3. updated(s, Append(ys, y)).n = updated(s, ys).n + 1
    BY <2>2, UpdatedAppend, UpdateTyped
  <2>4. (s.n + Len(ys)) + 1 = s.n + Len(Append(ys, y))
    <3>1. \A a, b \in Nat : (a + b) + 1 = a + (b + 1)
      OBVIOUS
    <3> QED
      BY <1>1, <2>1, <3>1
  <2> QED
    BY <1>3, <2>3, <2>4
<1>4. B \subseteq Seq(Nat) /\ \A ys \in B, y \in Nat : Append(ys, y) \in B
  BY <1>3, AppendProperties
<1> HIDE DEF Good
<1>5. xs \in B
  BY <1>2, <1>4, SequenceInduction
<1> QED
  BY <1>5 DEF Good

LEMMA UpdatedResumes ==
    ASSUME NEW s \in Struct, NEW xs \in Seq(Nat), NEW ys \in Seq(Nat)
    PROVE  updated(updated(s, xs), ys) = updated(s, xs \o ys)
<1> DEFINE Good(zs) == updated(updated(s, xs), zs) = updated(s, xs \o zs)
           B == {zs \in Seq(Nat) : Good(zs)}
<1>1. updated(s, xs) \in Struct
  BY UpdatedTyped
<1>2. << >> \in B
  BY <1>1, EmptySeq, UpdatedEmpty, ConcatEmptySeq
<1>3. ASSUME NEW zs \in Seq(Nat), NEW z \in Nat, Good(zs)
      PROVE  Good(Append(zs, z))
  <2>1. xs \o zs \in Seq(Nat) /\ xs \o Append(zs, z) = Append(xs \o zs, z)
    <3>1. xs \o zs \in Seq(Nat) /\ <<z>> \in Seq(Nat)
      BY ConcatProperties
    <3>2. xs \o (zs \o <<z>>) = (xs \o zs) \o <<z>>
      BY <3>1, ConcatAssociative, SMTT(30)
    <3> QED
      BY <3>1, <3>2, AppendIsConcat
  <2>2. updated(s, xs \o Append(zs, z)) = update(updated(s, xs \o zs), z)
    BY <2>1, UpdatedAppend
  <2>3. updated(updated(s, xs), Append(zs, z))
            = update(updated(updated(s, xs), zs), z)
    BY <1>1, UpdatedAppend
  <2> QED
    BY <1>3, <2>2, <2>3
<1>4. B \subseteq Seq(Nat) /\ \A zs \in B, z \in Nat : Append(zs, z) \in B
  BY <1>3, AppendProperties
<1> HIDE DEF Good
<1>5. ys \in B
  BY <1>2, <1>4, SequenceInduction
<1> QED
  BY <1>5 DEF Good

(***************************************************************************)
(* Where no intermediate result leaves the word, ksentry_fast computes     *)
(* what ksentry_spec does, and its other two fields are the powers of q    *)
(* that the next element needs.                                            *)
(***************************************************************************)
IsStateAfter(ks, xs) ==
    /\ ks.n = Len(xs)
    /\ ks.acc = ksentry_spec(xs)
    /\ ks.weight = Pow[triangular_exp(Len(xs))]
    /\ ks.step = Pow[Len(xs) + 1]

LEMMA NewIsEmpty == IsStateAfter(new, << >>)
<1>1. triangular_exp(0) = 0
  BY DEF triangular_exp
<1>2. Pow[0] = 1 /\ Pow[0 + 1] = (1 * (Q % P)) % P
  BY PowStep
<1>3. (1 * (Q % P)) % P = Q % P
  <2>1. Q % P \in Field /\ 1 * (Q % P) = Q % P
    BY ResidueInField, ParamAssumption, BaseAssumption
  <2> QED
    BY <2>1, ModSmall DEF Field
<1>4. Len(<< >>) = 0
  BY EmptySeq
<1> QED
  BY <1>1, <1>2, <1>3, <1>4, SpecEmpty DEF IsStateAfter, new

LEMMA UpdateKeepsState ==
    ASSUME NEW s \in Struct, NEW xs \in Seq(Nat), NEW x \in Nat,
           IsStateAfter(s, xs), ~ UpdateOverflows(s, x)
    PROVE  IsStateAfter(update(s, x), Append(xs, x))
<1> DEFINE n == Len(xs)
           t == update(s, x)
<1>1. n \in Nat /\ Len(Append(xs, x)) = n + 1
  BY LenProperties, AppendProperties
<1>2. /\ t.n = s.n + 1
      /\ t.acc = (s.acc + (x % P) * s.weight) % P
      /\ t.weight = (s.weight * s.step) % P
      /\ t.step = (s.step * (Q % P)) % P
  BY UpdateExact, UpdateTyped
<1>3. t.acc = ksentry_spec(Append(xs, x))
  <2>1. ksentry_spec(Append(xs, x)) = (ksentry_spec(xs) + Term(x, n)) % P
    BY SpecAppend
  <2> QED
    BY <1>2, <2>1 DEF IsStateAfter, Term
<1>4. t.weight = Pow[triangular_exp(n + 1)]
  <2>1. /\ triangular_exp(n) \in Nat /\ n + 1 \in Nat
        /\ triangular_exp(n + 1) = triangular_exp(n) + (n + 1)
    BY <1>1, TriangularStep
  <2>2. Pow[triangular_exp(n) + (n + 1)]
            = (Pow[triangular_exp(n)] * Pow[n + 1]) % P
    BY <2>1, PowAdd
  <2> QED
    BY <1>2, <2>1, <2>2 DEF IsStateAfter
<1>5. t.step = Pow[(n + 1) + 1]
  <2>1. n + 1 \in Nat
    BY <1>1
  <2> QED
    BY <1>2, <2>1, PowStep DEF IsStateAfter
<1> QED
  BY <1>1, <1>2, <1>3, <1>4, <1>5 DEF IsStateAfter

LEMMA FastIsSpec ==
    ASSUME NEW xs \in Seq(Nat), NoOverflow
    PROVE  IsStateAfter(ksentry_fast(xs), xs)
<1> DEFINE Good(ys) == IsStateAfter(updated(new, ys), ys)
           B == {ys \in Seq(Nat) : Good(ys)}
<1>1. << >> \in B
  BY EmptySeq, NewTyped, NewIsEmpty, UpdatedEmpty
<1>2. ASSUME NEW ys \in Seq(Nat), NEW y \in Nat, Good(ys)
      PROVE  Good(Append(ys, y))
  <2>1. updated(new, ys) \in Struct
    BY NewTyped, UpdatedTyped
  <2>2. ~ UpdateOverflows(updated(new, ys), y)
    BY <2>1, UpdateNeverOverflows
  <2>3. updated(new, Append(ys, y)) = update(updated(new, ys), y)
    BY NewTyped, UpdatedAppend
  <2> QED
    BY <1>2, <2>1, <2>2, <2>3, UpdateKeepsState
<1>3. B \subseteq Seq(Nat) /\ \A ys \in B, y \in Nat : Append(ys, y) \in B
  BY <1>2, AppendProperties
<1> HIDE DEF Good
<1>4. xs \in B
  BY <1>1, <1>3, SequenceInduction
<1> QED
  BY <1>4 DEF Good, ksentry_fast

-----------------------------------------------------------------------------
(***************************************************************************)
(* No power of a base that p does not divide vanishes modulo a prime p.    *)
(***************************************************************************)
LEMMA PowNeverZero ==
    ASSUME IsPrime, Q % P # 0, NEW e \in Nat
    PROVE  Pow[e] % P # 0
<1> DEFINE B == {n \in Nat : Pow[n] % P # 0}
<1>1. 0 \in B
  <2>1. Pow[0] = 1 /\ 1 % P = 1
    BY PowStep, ModSmall, ParamAssumption
  <2> QED
    BY <2>1
<1>2. ASSUME NEW n \in Nat, n \in B PROVE n + 1 \in B
  <2>1. Pow[n + 1] = (Pow[n] * (Q % P)) % P
    BY PowStep
  <2>2. Pow[n] \in Int /\ Q % P \in Int /\ (Q % P) % P = Q % P
    <3>1. Q % P \in 0 .. (P - 1)
      BY DivMod, ParamAssumption, BaseAssumption
    <3>2. Pow[n] \in 0 .. (P - 1)
      BY PowRange
    <3> QED
      BY <3>1, <3>2, ModSmall
  <2>3. (Pow[n] * (Q % P)) % P # 0
    BY <1>2, <2>2, Euclid
  <2>4. Pow[n + 1] % P = Pow[n + 1]
    BY PowRange, ModSmall
  <2> QED
    BY <2>1, <2>3, <2>4
<1>3. Nat \subseteq B
  <2> HIDE DEF B
  <2> QED
    BY <1>1, <1>2, SetInduction
<1> QED
  BY <1>3

-----------------------------------------------------------------------------
(***************************************************************************)
(* Which changes of a sequence change its digest.  Where two sequences     *)
(* agree modulo p, whatever difference their sums have is carried along.   *)
(***************************************************************************)
LEMMA SumsTogether ==
    ASSUME NEW xs \in Seq(Nat), NEW ys \in Seq(Nat),
           NEW f, IsSum(f, xs), NEW g, IsSum(g, ys),
           NEW m \in Nat, m + 1 <= Len(xs), m + 1 <= Len(ys),
           xs[m + 1] % P = ys[m + 1] % P
    PROVE  f[m + 1] = g[m + 1] <=> f[m] = g[m]
<1> DEFINE t == Term(xs[m + 1], m)
<1>1. /\ (m + 1) - 1 = m /\ m + 1 \in 1 .. Len(xs) /\ m + 1 \in 1 .. Len(ys)
      /\ m \in 0 .. Len(xs) /\ m \in 0 .. Len(ys)
  BY LenProperties
<1>2. t \in Int /\ Term(ys[m + 1], m) = t
  <2>1. xs[m + 1] \in Int
    BY <1>1, LenProperties
  <2>2. Term(xs[m + 1], m) \in Nat
    BY <2>1, TermTyped, Zenon
  <2> QED
    BY <2>2 DEF Term
<1>3. f[m + 1] = (f[m] + t) % P /\ f[m] \in Field
  BY <1>1 DEF IsSum
<1>4. g[m + 1] = (g[m] + Term(ys[m + 1], m)) % P /\ g[m] \in Field
  BY <1>1 DEF IsSum
<1> HIDE DEF t
<1>5. f[m] \in Int /\ g[m] \in Int
  BY <1>3, <1>4, ParamAssumption DEF Field
<1>6. ASSUME f[m + 1] = g[m + 1] PROVE f[m] = g[m]
  <2>1. (f[m] + t) % P = (g[m] + t) % P
    BY <1>2, <1>3, <1>4, <1>6
  <2> QED
    BY <1>2, <1>3, <1>4, <1>5, <2>1, FieldCancel
<1> QED
  BY <1>2, <1>3, <1>4, <1>6

LEMMA SumsCarryDifference ==
    ASSUME NEW xs \in Seq(Nat), NEW ys \in Seq(Nat),
           NEW f, IsSum(f, xs), NEW g, IsSum(g, ys),
           NEW j \in Nat, NEW k \in Nat, j <= k, k <= Len(xs), k <= Len(ys),
           \A n \in (j + 1) .. k : xs[n] % P = ys[n] % P
    PROVE  (f[k] = g[k]) = (f[j] = g[j])
<1> DEFINE Same(n) == (f[j + n] = g[j + n]) = (f[j] = g[j])
           B == {n \in Nat : j + n <= k => Same(n)}
<1>1. 0 \in B
  OBVIOUS
<1>2. ASSUME NEW n \in Nat, n \in B PROVE n + 1 \in B
  <2> DEFINE m == j + n
  <2>1. SUFFICES ASSUME m + 1 <= k PROVE Same(n + 1)
    BY <1>2
  <2>2. (f[m] = g[m]) = (f[j] = g[j])
    BY <1>2, <2>1
  <2>3. /\ m \in Nat /\ m + 1 <= Len(xs) /\ m + 1 <= Len(ys)
        /\ xs[m + 1] % P = ys[m + 1] % P /\ j + (n + 1) = m + 1
    BY <2>1, LenProperties
  <2> HIDE DEF m
  <2>4. f[m + 1] = g[m + 1] <=> f[m] = g[m]
    BY <2>3, SumsTogether, SMTT(30)
  <2> QED
    BY <2>2, <2>3, <2>4
<1>3. Nat \subseteq B
  <2> HIDE DEF B
  <2> QED
    BY <1>1, <1>2, SetInduction
<1>4. k - j \in Nat /\ j + (k - j) = k
  OBVIOUS
<1>5. k - j \in B
  BY <1>3, <1>4
<1> QED
  BY <1>4, <1>5

(***************************************************************************)
(* One element changed: the digest changes if and only if the residue of   *)
(* the element does.                                                       *)
(***************************************************************************)
LEMMA EditSpec ==
    ASSUME IsPrime, Q % P # 0,
           NEW xs \in Seq(Nat), NEW ys \in Seq(Nat), Len(ys) = Len(xs),
           NEW i \in 1 .. Len(xs),
           \A n \in 1 .. Len(xs) : n # i => xs[n] % P = ys[n] % P
    PROVE  ksentry_spec(xs) = ksentry_spec(ys) <=> xs[i] % P = ys[i] % P
<1> DEFINE N == Len(xs)
           c == i - 1
           w == Pow[triangular_exp(c)]
           u == Term(xs[i], c)
           v == Term(ys[i], c)
<1>1. /\ N \in Nat /\ Len(xs) = N /\ Len(ys) = N
      /\ i \in Nat /\ c \in Nat /\ c <= N /\ i <= N /\ i \in 1 .. N
      /\ c \in 0 .. N /\ xs[i] \in Int /\ ys[i] \in Int
      /\ \A n \in 1 .. c : xs[n] % P = ys[n] % P
      /\ \A n \in (i + 1) .. N : xs[n] % P = ys[n] % P
  BY LenProperties
<1>2. w \in Int /\ w % P # 0
  <2>1. triangular_exp(c) \in Nat
    BY <1>1, TriangularStep
  <2>2. Pow[triangular_exp(c)] \in 0 .. (P - 1)
    BY <2>1, PowRange
  <2>3. Pow[triangular_exp(c)] % P # 0
    BY <2>1, PowNeverZero
  <2> QED
    BY <2>2, <2>3
<1>3. /\ u = (xs[i] % P) * w /\ v = (ys[i] % P) * w
      /\ u \in Int /\ v \in Int
  <2>1. Term(xs[i], c) \in Nat /\ Term(ys[i], c) \in Nat
    BY <1>1, TermTyped
  <2> QED
    BY <2>1 DEF Term
<1>4. PICK f : IsSum(f, xs) /\ ksentry_spec(xs) = f[N]
  BY SpecSum
<1>5. PICK g : IsSum(g, ys) /\ ksentry_spec(ys) = g[N]
  <2>1. PICK g : IsSum(g, ys) /\ ksentry_spec(ys) = g[Len(ys)]
    BY SpecSum
  <2> QED
    BY <1>1, <2>1
<1>6. /\ f[i] = (f[c] + u) % P /\ f[c] \in Field
      /\ g[i] = (g[c] + v) % P /\ g[c] \in Field
  BY <1>1, <1>4, <1>5 DEF IsSum
<1> HIDE DEF N, c, w, u, v
<1>7. f[c] = g[c]
  <2>1. /\ IsSum(f, xs) /\ IsSum(g, ys)
        /\ c \in Nat /\ c <= Len(xs) /\ c <= Len(ys)
        /\ \A n \in 1 .. c : xs[n] % P = ys[n] % P
    BY <1>1, <1>4, <1>5
  <2> QED
    BY <2>1, SumsAgree, SMTT(30)
<1>8. (f[N] = g[N]) = (f[i] = g[i])
  <2>1. /\ IsSum(f, xs) /\ IsSum(g, ys)
        /\ i \in Nat /\ N \in Nat /\ i <= N /\ N <= Len(xs) /\ N <= Len(ys)
        /\ \A n \in (i + 1) .. N : xs[n] % P = ys[n] % P
    BY <1>1, <1>4, <1>5
  <2> QED
    BY <2>1, SumsCarryDifference, SMTT(30)
<1>9. PICK d \in Int : d = f[c]
  BY <1>6, ParamAssumption DEF Field
<1>10. f[i] = (u + d) % P /\ g[i] = (v + d) % P
  <2>1. d + u = u + d /\ d + v = v + d
    BY <1>3
  <2> QED
    BY <1>6, <1>7, <1>9, <2>1
<1>11. u % P = (xs[i] * w) % P /\ v % P = (ys[i] * w) % P
  BY <1>1, <1>2, <1>3, ModTimes
<1>12. ASSUME f[i] = g[i] PROVE xs[i] % P = ys[i] % P
  <2>1. u % P = v % P
    <3>1. (u + d) % P = (v + d) % P
      BY <1>10, <1>12
    <3> QED
      BY <1>3, <3>1, ModCancel
  <2> QED
    BY <1>1, <1>2, <1>11, <2>1, ModCancelFactor
<1>13. ASSUME xs[i] % P = ys[i] % P PROVE f[i] = g[i]
  <2>1. u = v
    BY <1>3, <1>13
  <2> QED
    BY <1>10, <2>1
<1> QED
  BY <1>4, <1>5, <1>8, <1>12, <1>13

(***************************************************************************)
(* Two neighbours exchanged: the digest stays the same if and only if the  *)
(* two have the same residue, or q^i is 1 modulo p.  AddTwo is what two    *)
(* elements a and b of weights w and w z make of a sum d, TwoAdded the     *)
(* same without the intermediate reductions.                               *)
(***************************************************************************)
AddTwo(d, a, b, w, z) == (((d + a * w) % P) + b * ((w * z) % P)) % P

TwoAdded(d, a, b, w, z) == ((a + b * z) * w + d) % P

LEMMA TwoTerms ==
    ASSUME NEW d \in Int, NEW a \in Int, NEW b \in Int,
           NEW w \in Int, NEW z \in Int
    PROVE  AddTwo(d, a, b, w, z) = TwoAdded(d, a, b, w, z)
<1> DEFINE k == (w * z) \div P
           r == (w * z) % P
           e == d + a * w
<1>1. w * z \in Int
  OBVIOUS
<1>2. w * z = k * P + r /\ r \in Int /\ k \in Int
  BY <1>1, DivMod
<1> HIDE DEF k, r
<1>3. e \in Int /\ b * r \in Int /\ -(b * k) \in Int
  BY <1>2
<1>4. ((e % P) + b * r) % P = (e + b * r) % P
  BY <1>3, ModPlus
<1>5. e + b * r = ((a + b * z) * w + d) + (-(b * k)) * P
  <2>1. b * (w * z) = b * (k * P) + b * r
    BY <1>2, ParamAssumption
  <2>2. b * (w * z) = (b * z) * w /\ b * (k * P) = (b * k) * P
    BY <1>2, ParamAssumption
  <2>3. (a + b * z) * w = a * w + (b * z) * w
    OBVIOUS
  <2>4. (-(b * k)) * P = -((b * k) * P)
    BY <1>2, ParamAssumption
  <2> DEFINE bzw == (b * z) * w
             bkP == (b * k) * P
             br == b * r
             aw == a * w
  <2>5. bzw \in Int /\ bkP \in Int /\ br \in Int /\ aw \in Int
    BY <1>2, ParamAssumption
  <2>6. bzw = bkP + br /\ (a + b * z) * w = aw + bzw /\ (-(b * k)) * P = -bkP
    BY <2>1, <2>2, <2>3, <2>4
  <2> HIDE DEF bzw, bkP, br, aw
  <2>7. (d + aw) + br = ((aw + bzw) + d) + (-bkP)
    BY <2>5, <2>6
  <2> QED
    BY <2>6, <2>7 DEF br, aw
<1>6. (a + b * z) * w + d \in Int
  OBVIOUS
<1>7. (((a + b * z) * w + d) + (-(b * k)) * P) % P = ((a + b * z) * w + d) % P
  BY <1>3, <1>6, ModShift
<1> QED
  BY <1>4, <1>5, <1>7 DEF r, AddTwo, TwoAdded

LEMMA SwapArithmetic ==
    ASSUME IsPrime, NEW a \in Int, NEW b \in Int, NEW d \in Int,
           NEW w \in Int, NEW z \in Int, w % P # 0,
           a % P # b % P,
           TwoAdded(d, a, b, w, z) = TwoAdded(d, b, a, w, z)
    PROVE  z % P = 1
<1> DEFINE u == a + b * z
           v == b + a * z
<1>1. u \in Int /\ v \in Int /\ u * w \in Int /\ v * w \in Int
  OBVIOUS
<1>2. u - v = (a - b) * (1 - z)
  <2>1. (a - b) * (1 - z) = (a - a * z) - (b - b * z)
    OBVIOUS
  <2> DEFINE az == a * z
             bz == b * z
  <2>2. az \in Int /\ bz \in Int
    OBVIOUS
  <2> HIDE DEF az, bz
  <2>3. (a + bz) - (b + az) = (a - az) - (b - bz)
    BY <2>2
  <2> QED
    BY <2>1, <2>3 DEF az, bz
<1>3. (u * w + d) % P = (v * w + d) % P
  BY DEF TwoAdded
<1> HIDE DEF u, v
<1>4. (u * w) % P = (v * w) % P
  <2>1. PICK uw \in Int : uw = u * w
    BY <1>1
  <2>2. PICK vw \in Int : vw = v * w
    BY <1>1
  <2>3. (uw + d) % P = (vw + d) % P
    BY <1>3, <2>1, <2>2
  <2>4. uw % P = vw % P
    BY <2>3, ModCancel
  <2> QED
    BY <2>1, <2>2, <2>4
<1>5. u % P = v % P
  BY <1>1, <1>4, ModCancelFactor
<1>6. ((a - b) * (1 - z)) % P = 0
  BY <1>1, <1>2, <1>5, ModMinus
<1>7. a - b \in Int /\ 1 - z \in Int
  OBVIOUS
<1>8. CASE (a - b) % P = 0
  BY <1>8, ModMinus
<1>9. CASE (a - b) % P # 0
  <2>1. (1 - z) % P = 0
    BY <1>6, <1>7, <1>9, Euclid
  <2>2. PICK one \in Int : one = 1
    OBVIOUS
  <2>3. (one - z) % P = 0
    BY <2>1, <2>2
  <2>4. one % P = z % P
    BY <2>3, ModMinus
  <2>5. 1 % P = 1
    BY ModSmall, ParamAssumption
  <2> QED
    BY <2>2, <2>4, <2>5
<1> QED
  BY <1>8, <1>9

LEMMA SwapSpec ==
    ASSUME IsPrime, Q % P # 0,
           NEW xs \in Seq(Nat), NEW ys \in Seq(Nat), Len(ys) = Len(xs),
           NEW i \in 1 .. (Len(xs) - 1),
           ys[i] = xs[i + 1], ys[i + 1] = xs[i],
           \A n \in 1 .. Len(xs) : n # i /\ n # i + 1 => xs[n] = ys[n]
    PROVE  ksentry_spec(xs) = ksentry_spec(ys)
               <=> (xs[i] % P = xs[i + 1] % P \/ Pow[i] = 1)
<1> DEFINE N == Len(xs)
           c == i - 1
<1>1. /\ N \in Nat /\ Len(xs) = N /\ Len(ys) = N
      /\ i \in Nat /\ c \in Nat /\ c <= N /\ i + 1 <= N /\ c + 1 = i
      /\ i \in 1 .. N /\ i + 1 \in 1 .. N /\ c \in 0 .. N /\ (i + 1) - 1 = i
      /\ i + 1 \in Nat
      /\ \A n \in 1 .. c : xs[n] % P = ys[n] % P
      /\ \A n \in ((i + 1) + 1) .. N : xs[n] % P = ys[n] % P
  BY LenProperties
<1> HIDE DEF N, c
<1>2. PICK a \in Int : a = xs[i] % P /\ a % P = a
  <2>1. xs[i] \in Int
    BY <1>1, LenProperties
  <2>2. xs[i] % P \in 0 .. (P - 1)
    BY <2>1, DivMod
  <2> QED
    BY <2>2, ModSmall
<1>3. PICK b \in Int : b = xs[i + 1] % P /\ b % P = b
  <2>1. xs[i + 1] \in Int
    BY <1>1, LenProperties
  <2>2. xs[i + 1] % P \in 0 .. (P - 1)
    BY <2>1, DivMod
  <2> QED
    BY <2>2, ModSmall
<1>4. PICK w \in Int : w = Pow[triangular_exp(c)] /\ w % P = w /\ w % P # 0
  <2>1. triangular_exp(c) \in Nat
    BY <1>1, TriangularStep
  <2>2. Pow[triangular_exp(c)] \in 0 .. (P - 1)
    BY <2>1, PowRange
  <2>3. Pow[triangular_exp(c)] % P # 0
    BY <2>1, PowNeverZero
  <2> QED
    BY <2>2, <2>3, ModSmall
<1>5. PICK z \in Int : z = Pow[i] /\ z % P = z
  BY <1>1, PowRange, ModSmall
<1>6. Pow[triangular_exp(i)] = (w * z) % P
  <2>1. triangular_exp(c) \in Nat /\ triangular_exp(i) = triangular_exp(c) + i
    BY <1>1, TriangularStep
  <2>2. i \in Nat
    BY <1>1
  <2>3. Pow[triangular_exp(c) + i] = (Pow[triangular_exp(c)] * Pow[i]) % P
    BY <2>1, <2>2, PowAdd
  <2> QED
    BY <1>4, <1>5, <2>1, <2>3
<1>7. PICK f : IsSum(f, xs) /\ ksentry_spec(xs) = f[N]
  BY <1>1, SpecSum
<1>8. PICK g : IsSum(g, ys) /\ ksentry_spec(ys) = g[N]
  BY <1>1, SpecSum
<1>9. f[c] = g[c]
  <2>1. /\ IsSum(f, xs) /\ IsSum(g, ys)
        /\ c \in Nat /\ c <= Len(xs) /\ c <= Len(ys)
        /\ \A n \in 1 .. c : xs[n] % P = ys[n] % P
    BY <1>1, <1>7, <1>8
  <2> QED
    BY <2>1, SumsAgree, SMTT(30)
<1>10. (f[N] = g[N]) = (f[i + 1] = g[i + 1])
  <2> DEFINE j == i + 1
  <2>1. /\ IsSum(f, xs) /\ IsSum(g, ys)
        /\ j \in Nat /\ N \in Nat /\ j <= N /\ N <= Len(xs) /\ N <= Len(ys)
        /\ \A n \in (j + 1) .. N : xs[n] % P = ys[n] % P
    BY <1>1, <1>7, <1>8
  <2> HIDE DEF j
  <2>2. (f[N] = g[N]) = (f[j] = g[j])
    BY <2>1, SumsCarryDifference, SMTT(30)
  <2> QED
    BY <2>2 DEF j
<1>11. PICK d \in Int : d = f[c]
  BY <1>1, <1>7, ParamAssumption DEF IsSum, Field
<1>12. f[i + 1] = AddTwo(d, a, b, w, z)
  <2>1. f[i] = (f[c] + Term(xs[i], c)) % P
    BY <1>1, <1>7 DEF IsSum, c
  <2>2. f[i + 1] = (f[i] + Term(xs[i + 1], i)) % P
    BY <1>1, <1>7 DEF IsSum
  <2> QED
    BY <1>2, <1>3, <1>4, <1>6, <1>11, <2>1, <2>2 DEF Term, AddTwo
<1>13. g[i + 1] = AddTwo(d, b, a, w, z)
  <2>1. g[i] = (g[c] + Term(ys[i], c)) % P
    BY <1>1, <1>8 DEF IsSum, c
  <2>2. g[i + 1] = (g[i] + Term(ys[i + 1], i)) % P
    BY <1>1, <1>8 DEF IsSum
  <2> QED
    BY <1>2, <1>3, <1>4, <1>6, <1>9, <1>11, <2>1, <2>2 DEF Term, AddTwo
<1>14. /\ f[i + 1] = TwoAdded(d, a, b, w, z)
       /\ g[i + 1] = TwoAdded(d, b, a, w, z)
  <2>1. AddTwo(d, a, b, w, z) = TwoAdded(d, a, b, w, z)
    BY TwoTerms, SMTT(60)
  <2>2. AddTwo(d, b, a, w, z) = TwoAdded(d, b, a, w, z)
    BY TwoTerms, SMTT(60)
  <2> QED
    BY <1>12, <1>13, <2>1, <2>2
<1>15. ASSUME f[i + 1] = g[i + 1] PROVE a = b \/ z = 1
  <2>1. TwoAdded(d, a, b, w, z) = TwoAdded(d, b, a, w, z)
    BY <1>14, <1>15
  <2>2. SUFFICES ASSUME a # b PROVE z = 1
    OBVIOUS
  <2>3. w % P # 0 /\ a % P # b % P
    BY <1>2, <1>3, <1>4, <2>2
  <2>4. z % P = 1
    BY <2>1, <2>3, SwapArithmetic, SMTT(30)
  <2> QED
    BY <1>5, <2>4
<1>16. ASSUME a = b PROVE f[i + 1] = g[i + 1]
  BY <1>14, <1>16
<1>17. ASSUME z = 1 PROVE f[i + 1] = g[i + 1]
  <2>1. a + b * z = b + a * z
    BY <1>17
  <2> QED
    BY <1>14, <2>1 DEF TwoAdded
<1> QED
  BY <1>2, <1>3, <1>5, <1>7, <1>8, <1>10, <1>15, <1>16, <1>17
=============================================================================
