--------------------------- MODULE ModulusLemmas ---------------------------
(***************************************************************************)
(* Facts about Modulus and about loops that no component owns: induction,  *)
(* recursive functions over a prefix length, division with remainder by p, *)
(* the powers of a base, sums of terms modulo p, and polynomials over the  *)
(* residues.  Inductions go by a smallest counterexample (lemma            *)
(* NatMinimum), which needs no theorem with an operator parameter.         *)
(***************************************************************************)
EXTENDS Modulus, Sequences, WellFoundedInduction, SequenceTheorems,
        FunctionTheorems, FiniteSetTheorems, TLAPS

-----------------------------------------------------------------------------
(***************************************************************************)
(* Every non-empty set of naturals has a least element.                    *)
(***************************************************************************)
LEMMA NatMinimum ==
    ASSUME NEW T, T \subseteq Nat, T # {}
    PROVE  \E m \in T : \A k \in T : m <= k
<1>1. IsWellFoundedOn(OpToRel(<, Nat), Nat)
  BY NatLessThanWellFounded
<1>2. PICK m \in T : \A y \in T : ~ (<<y, m>> \in OpToRel(<, Nat))
  BY <1>1, WFMin
<1>3. \A y \in T : ~ (y < m)
  BY <1>2 DEF OpToRel
<1> QED
  BY <1>3

(***************************************************************************)
(* Induction over the naturals and over sequences, for the members of a    *)
(* set: where it holds the first and is closed under the successor, it     *)
(* holds them all.                                                         *)
(***************************************************************************)
LEMMA SetInduction ==
    ASSUME NEW B, 0 \in B, \A n \in Nat : n \in B => n + 1 \in B
    PROVE  Nat \subseteq B
<1> DEFINE T == Nat \ B
<1>1. SUFFICES ASSUME T # {} PROVE FALSE
  OBVIOUS
<1>2. PICK m \in T : \A k \in T : m <= k
  BY <1>1, NatMinimum
<1>3. m - 1 \in Nat /\ m - 1 \notin T
  BY <1>2
<1>4. (m - 1) + 1 \in B
  BY <1>3
<1> QED
  BY <1>4

LEMMA SequenceInduction ==
    ASSUME NEW S, NEW B, << >> \in B,
           \A s \in B, x \in S : Append(s, x) \in B
    PROVE  Seq(S) \subseteq B
<1> DEFINE C == {n \in Nat : \A s \in Seq(S) : Len(s) = n => s \in B}
<1>1. 0 \in C
  BY EmptySeq
<1>2. ASSUME NEW n \in Nat, n \in C PROVE n + 1 \in C
  <2>1. SUFFICES ASSUME NEW s \in Seq(S), Len(s) = n + 1 PROVE s \in B
    OBVIOUS
  <2>2. s # << >>
    BY <2>1, EmptySeq
  <2>3. PICK r \in Seq(S), x \in S : s = Append(r, x)
    BY <2>2, SequenceEmptyOrAppend
  <2>4. Len(r) = n
    BY <2>1, <2>3, LenProperties, AppendProperties
  <2>5. r \in B
    BY <1>2, <2>4
  <2> QED
    BY <2>3, <2>5
<1>3. Nat \subseteq C
  <2> HIDE DEF C
  <2> QED
    BY <1>1, <1>2, SetInduction
<1> QED
  BY <1>3, LenProperties

(***************************************************************************)
(* What appending an element does to a prefix and to the rest.             *)
(***************************************************************************)
LEMMA SubSeqOfAppend ==
    ASSUME NEW S, NEW s \in Seq(S), NEW x \in S, NEW e \in 0 .. Len(s)
    PROVE  /\ SubSeq(Append(s, x), 1, e) = SubSeq(s, 1, e)
           /\ SubSeq(Append(s, x), e + 1, Len(s) + 1)
                  = Append(SubSeq(s, e + 1, Len(s)), x)
           /\ SubSeq(s, 1, e) \in Seq(S)
           /\ SubSeq(s, e + 1, Len(s)) \in Seq(S)
           /\ Len(SubSeq(s, 1, e)) = e
<1> DEFINE t == Append(s, x)
           n == Len(s)
           u == SubSeq(s, 1, e)
           v == SubSeq(s, e + 1, n)
           w == SubSeq(t, e + 1, n + 1)
<1>1. /\ n \in Nat /\ e \in Nat /\ e <= n /\ 1 \in Int /\ e + 1 \in Int
      /\ e \in Int /\ n \in Int /\ n + 1 \in Int
      /\ \A i \in 1 .. n : s[i] \in S
  BY LenProperties, ElementOfSeq
<1>2. /\ t \in Seq(S) /\ Len(t) = n + 1 /\ t[n + 1] = x
      /\ \A i \in 1 .. n : t[i] = s[i]
      /\ \A i \in 1 .. (n + 1) : t[i] \in S
  BY AppendProperties, ElementOfSeq
<1> HIDE DEF t, n
<1>3. u \in Seq(S) /\ Len(u) = e /\ \A i \in 1 .. e : u[i] = s[i]
  <2>1. \A i \in 1 .. e : s[i] \in S
    BY <1>1
  <2>2. /\ SubSeq(s, 1, e) \in Seq(S)
        /\ Len(SubSeq(s, 1, e)) = IF 1 <= e THEN e - 1 + 1 ELSE 0
        /\ \A i \in 1 .. (e - 1 + 1) : SubSeq(s, 1, e)[i] = s[1 + i - 1]
    BY <1>1, <2>1, SubSeqProperties
  <2> QED
    BY <1>1, <2>2
<1>4. SubSeq(t, 1, e) = u
  <2>1. \A i \in 1 .. e : t[i] \in S /\ t[i] = s[i]
    BY <1>1, <1>2
  <2>2. /\ SubSeq(t, 1, e) \in Seq(S)
        /\ Len(SubSeq(t, 1, e)) = IF 1 <= e THEN e - 1 + 1 ELSE 0
        /\ \A i \in 1 .. (e - 1 + 1) : SubSeq(t, 1, e)[i] = t[1 + i - 1]
    BY <1>1, <2>1, SubSeqProperties
  <2>3. /\ SubSeq(t, 1, e) \in Seq(S) /\ Len(SubSeq(t, 1, e)) = e
        /\ \A i \in 1 .. e : SubSeq(t, 1, e)[i] = t[i]
    BY <1>1, <2>2
  <2>4. \A i \in 1 .. e : SubSeq(t, 1, e)[i] = u[i]
    BY <1>3, <2>1, <2>3
  <2> HIDE DEF u
  <2> QED
    BY <1>3, <2>3, <2>4, SeqEqual
<1>5. v \in Seq(S) /\ Len(v) = n - e /\ \A i \in 1 .. (n - e) : v[i] = s[e + i]
  <2>1. \A i \in (e + 1) .. n : s[i] \in S
    BY <1>1
  <2>2. /\ SubSeq(s, e + 1, n) \in Seq(S)
        /\ Len(SubSeq(s, e + 1, n))
               = IF e + 1 <= n THEN n - (e + 1) + 1 ELSE 0
        /\ \A i \in 1 .. (n - (e + 1) + 1) :
               SubSeq(s, e + 1, n)[i] = s[(e + 1) + i - 1]
    BY <1>1, <2>1, SubSeqProperties
  <2> QED
    BY <1>1, <2>2
<1>6. /\ w \in Seq(S) /\ Len(w) = (n - e) + 1
      /\ \A i \in 1 .. ((n - e) + 1) : w[i] = t[e + i]
  <2>1. \A i \in (e + 1) .. (n + 1) : t[i] \in S
    BY <1>1, <1>2
  <2>2. /\ SubSeq(t, e + 1, n + 1) \in Seq(S)
        /\ Len(SubSeq(t, e + 1, n + 1))
               = IF e + 1 <= n + 1 THEN (n + 1) - (e + 1) + 1 ELSE 0
        /\ \A i \in 1 .. ((n + 1) - (e + 1) + 1) :
               SubSeq(t, e + 1, n + 1)[i] = t[(e + 1) + i - 1]
    BY <1>1, <2>1, SubSeqProperties
  <2> QED
    BY <1>1, <2>2
<1>7. w = Append(v, x)
  <2> HIDE DEF v, w
  <2>1. /\ Append(v, x) \in Seq(S) /\ Len(Append(v, x)) = (n - e) + 1
        /\ \A i \in 1 .. (n - e) : Append(v, x)[i] = v[i]
        /\ Append(v, x)[(n - e) + 1] = x
    BY <1>5, AppendProperties
  <2>2. ASSUME NEW i \in 1 .. ((n - e) + 1) PROVE w[i] = Append(v, x)[i]
    <3>1. CASE i = (n - e) + 1
      <4>1. e + i = n + 1
        BY <1>1, <3>1
      <4> QED
        BY <1>2, <1>6, <2>1, <3>1, <4>1
    <3>2. CASE i # (n - e) + 1
      <4>1. i \in 1 .. (n - e) /\ e + i \in 1 .. n
        BY <1>1, <3>2
      <4> QED
        BY <1>2, <1>5, <1>6, <2>1, <4>1
    <3> QED
      BY <3>1, <3>2
  <2> QED
    BY <1>6, <2>1, <2>2, SeqEqual
<1> QED
  BY <1>3, <1>4, <1>5, <1>7 DEF t, n

(***************************************************************************)
(* A loop over 1 .. N that keeps a value of S: f[n] is the value after n   *)
(* iterations, G[n] what iteration n makes of it.  Such an f exists.  It   *)
(* is the fact behind every recursive function over a prefix length.       *)
(***************************************************************************)
IsLoop(f, N, b, G) ==
    /\ f[0] = b
    /\ \A n \in 1 .. N : f[n] = G[n][f[n - 1]]

LEMMA LoopExists ==
    ASSUME NEW N \in Nat, NEW S, NEW b \in S, NEW G \in [1 .. N -> [S -> S]]
    PROVE  \E f \in [0 .. N -> S] : IsLoop(f, N, b, G)
<1> DEFINE T == {k \in Nat : k <= N /\ ~ \E f \in [0 .. k -> S] : IsLoop(f, k, b, G)}
<1>1. SUFFICES ASSUME T # {} PROVE FALSE
  OBVIOUS
<1>2. PICK m \in T : \A k \in T : m <= k
  BY <1>1, NatMinimum
<1>3. m # 0
  <2> DEFINE one == [i \in 0 .. 0 |-> b]
  <2>1. one \in [0 .. 0 -> S] /\ IsLoop(one, 0, b, G)
    BY DEF IsLoop
  <2> QED
    BY <2>1
<1>4. m - 1 \in Nat /\ m - 1 \notin T /\ m \in 1 .. N
  BY <1>2, <1>3
<1>5. PICK f \in [0 .. (m - 1) -> S] : IsLoop(f, m - 1, b, G)
  BY <1>4
<1> DEFINE g == [i \in 0 .. m |-> IF i = m THEN G[m][f[m - 1]] ELSE f[i]]
<1>6. f[m - 1] \in S /\ G[m] \in [S -> S]
  BY <1>4
<1>7. G[m][f[m - 1]] \in S
  BY <1>6
<1>8. g \in [0 .. m -> S]
  BY <1>4, <1>7
<1>9. g[0] = b
  BY <1>3, <1>4, <1>5 DEF IsLoop
<1>10. ASSUME NEW i \in 1 .. m PROVE g[i] = G[i][g[i - 1]]
  <2>1. CASE i = m
    BY <2>1, <1>3, <1>4
  <2>2. CASE i # m
    BY <2>2, <1>4, <1>5 DEF IsLoop
  <2> QED
    BY <2>1, <2>2
<1>11. IsLoop(g, m, b, G)
  BY <1>9, <1>10 DEF IsLoop
<1> QED
  BY <1>2, <1>8, <1>11

(***************************************************************************)
(* The same without end: a recursive function on the naturals whose value  *)
(* depends on the one before it exists.                                    *)
(***************************************************************************)
IsIteration(f, b, G) ==
    /\ f[0] = b
    /\ \A n \in Nat : f[n + 1] = G[f[n]]

LEMMA IterationExists ==
    ASSUME NEW S, NEW b \in S, NEW G \in [S -> S]
    PROVE  \E f \in [Nat -> S] : IsIteration(f, b, G)
<1> DEFINE K(n) == [k \in 1 .. n |-> G]
           Upto(f, n) == f \in [0 .. n -> S] /\ IsLoop(f, n, b, K(n))
           F(n) == CHOOSE f : Upto(f, n)
           H == [n \in Nat |-> F(n)[n]]
<1>1. ASSUME NEW n \in Nat PROVE Upto(F(n), n)
  <2>1. K(n) \in [1 .. n -> [S -> S]]
    OBVIOUS
  <2> HIDE DEF K
  <2>2. \E f \in [0 .. n -> S] : IsLoop(f, n, b, K(n))
    BY <2>1, LoopExists
  <2>3. \E f : Upto(f, n)
    BY <2>2
  <2> HIDE DEF Upto
  <2> QED
    BY <2>3
<1> HIDE DEF F
<1>2. ASSUME NEW n \in Nat
      PROVE  /\ F(n) \in [0 .. n -> S] /\ F(n)[0] = b
             /\ \A k \in 1 .. n : F(n)[k] = G[F(n)[k - 1]]
  BY <1>1 DEF IsLoop
<1> HIDE DEF K, Upto
<1>3. ASSUME NEW n \in Nat PROVE F(n + 1)[n] = F(n)[n]
  <2> DEFINE T == {k \in Nat : k <= n /\ F(n + 1)[k] # F(n)[k]}
  <2>1. SUFFICES ASSUME T # {} PROVE FALSE
    OBVIOUS
  <2>2. PICK m \in T : \A k \in T : m <= k
    BY <2>1, NatMinimum
  <2>3. m # 0
    BY <1>2, <2>2
  <2>4. m - 1 \in Nat /\ m - 1 \notin T /\ m \in 1 .. n /\ m \in 1 .. (n + 1)
    BY <2>2, <2>3
  <2>5. F(n + 1)[m - 1] = F(n)[m - 1]
    BY <2>4
  <2>6. F(n)[m] = G[F(n)[m - 1]] /\ F(n + 1)[m] = G[F(n + 1)[m - 1]]
    BY <1>2, <2>4
  <2> QED
    BY <2>2, <2>5, <2>6
<1>4. H \in [Nat -> S]
  BY <1>2
<1>5. ASSUME NEW n \in Nat PROVE H[n + 1] = G[H[n]]
  <2>1. n + 1 \in Nat /\ n + 1 \in 1 .. (n + 1) /\ (n + 1) - 1 = n
    OBVIOUS
  <2>2. F(n + 1)[n + 1] = G[F(n + 1)[n]]
    BY <1>2, <2>1
  <2> QED
    BY <1>3, <2>1, <2>2
<1>6. H[0] = b
  BY <1>2
<1> HIDE DEF H
<1> QED
  BY <1>4, <1>5, <1>6 DEF IsIteration

(***************************************************************************)
(* Two functions on 0 .. N that begin alike and go on alike are the same.  *)
(***************************************************************************)
IsOver(f, N) == f = [n \in 0 .. N |-> f[n]]

LEMMA LoopUnique ==
    ASSUME NEW N \in Nat, NEW f, NEW g, IsOver(f, N), IsOver(g, N),
           f[0] = g[0],
           \A n \in 1 .. N : f[n - 1] = g[n - 1] => f[n] = g[n]
    PROVE  f = g
<1> DEFINE T == {n \in Nat : n <= N /\ f[n] # g[n]}
<1>1. T = {}
  <2>1. SUFFICES ASSUME T # {} PROVE FALSE
    OBVIOUS
  <2>2. PICK m \in T : \A k \in T : m <= k
    BY <2>1, NatMinimum
  <2>3. m # 0
    BY <2>2
  <2>4. m - 1 \in Nat /\ m - 1 \notin T /\ m \in 1 .. N
    BY <2>2, <2>3
  <2>5. f[m - 1] = g[m - 1]
    BY <2>4
  <2> QED
    BY <2>2, <2>4, <2>5
<1>2. \A n \in 0 .. N : f[n] = g[n]
  BY <1>1
<1>3. [n \in 0 .. N |-> f[n]] = [n \in 0 .. N |-> g[n]]
  BY <1>2
<1> QED
  BY <1>3 DEF IsOver

-----------------------------------------------------------------------------
(***************************************************************************)
(* Division with remainder by the modulus: it exists, and it is unique.    *)
(***************************************************************************)
LEMMA DivMod ==
    ASSUME NEW a \in Int
    PROVE  /\ a = (a \div P) * P + (a % P)
           /\ a % P \in 0 .. (P - 1)
           /\ a \div P \in Int
  BY ParamAssumption

LEMMA RemainderUnique ==
    ASSUME NEW d \in Int, NEW e \in Int,
           NEW r \in 0 .. (P - 1), NEW s \in 0 .. (P - 1),
           d * P + r = e * P + s
    PROVE  r = s
<1>1. (d - e) * P = s - r
  BY ParamAssumption
<1>2. CASE d > e
  <2>1. (d - e) * P >= P
    BY <1>2, ParamAssumption
  <2> QED
    BY <2>1, <1>1, ParamAssumption
<1>3. CASE d < e
  <2>1. (d - e) * P <= -P
    BY <1>3, ParamAssumption
  <2> QED
    BY <2>1, <1>1, ParamAssumption
<1>4. CASE d = e
  BY <1>1, <1>4, ParamAssumption
<1> QED
  BY <1>2, <1>3, <1>4

LEMMA ModOf ==
    ASSUME NEW a \in Int, NEW d \in Int, NEW r \in 0 .. (P - 1),
           a = d * P + r
    PROVE  a % P = r
  BY DivMod, RemainderUnique, ParamAssumption

(***************************************************************************)
(* A multiple of the modulus does not count, a reduced value is its own    *)
(* remainder.                                                              *)
(***************************************************************************)
LEMMA ModShift ==
    ASSUME NEW a \in Int, NEW k \in Int
    PROVE  (a + k * P) % P = a % P
<1> DEFINE d == a \div P
           r == a % P
<1>1. a = d * P + r /\ r \in 0 .. (P - 1) /\ d \in Int
  BY DivMod
<1> HIDE DEF d, r
<1>2. a + k * P = (d + k) * P + r
  BY <1>1, ParamAssumption
<1>3. (a + k * P) % P = r
  BY <1>1, <1>2, ModOf, ParamAssumption
<1> QED
  BY <1>3 DEF r

LEMMA ModSmall ==
    ASSUME NEW a \in 0 .. (P - 1)
    PROVE  a % P = a
<1>1. a = 0 * P + a
  BY ParamAssumption
<1> QED
  BY <1>1, ModOf, ParamAssumption

(***************************************************************************)
(* Reducing an operand first does not change a product or a sum modulo p.  *)
(***************************************************************************)
LEMMA ModTimes ==
    ASSUME NEW a \in Int, NEW b \in Int
    PROVE  ((a % P) * b) % P = (a * b) % P
<1> DEFINE d == a \div P
           r == a % P
<1>1. a = d * P + r /\ r \in 0 .. (P - 1) /\ d \in Int
  BY DivMod
<1> HIDE DEF d, r
<1>2. a * b = r * b + (d * b) * P
  BY <1>1, ParamAssumption
<1>3. r * b \in Int /\ d * b \in Int
  BY <1>1, ParamAssumption
<1>4. (a * b) % P = (r * b) % P
  BY <1>2, <1>3, ModShift
<1> QED
  BY <1>4 DEF r

LEMMA ModPlus ==
    ASSUME NEW a \in Int, NEW b \in Int
    PROVE  ((a % P) + b) % P = (a + b) % P
<1> DEFINE d == a \div P
           r == a % P
<1>1. a = d * P + r /\ r \in 0 .. (P - 1) /\ d \in Int
  BY DivMod
<1> HIDE DEF d, r
<1>2. a + b = (r + b) + d * P /\ r + b \in Int
  BY <1>1, ParamAssumption
<1>3. (a + b) % P = (r + b) % P
  BY <1>2, <1>1, ModShift
<1> QED
  BY <1>3 DEF r

(***************************************************************************)
(* Where p is prime, as the primes of this repository are, a product       *)
(* vanishes modulo p only if one of its factors does (Euclid's lemma).     *)
(***************************************************************************)
IsPrime == \A d \in 2 .. (P - 1) : P % d # 0

LEMMA Multiple ==
    ASSUME NEW a \in Int
    PROVE  a % P = 0 <=> \E k \in Int : a = k * P
<1>1. ASSUME a % P = 0 PROVE \E k \in Int : a = k * P
  <2>1. a = (a \div P) * P + (a % P) /\ a \div P \in Int
    BY DivMod
  <2>2. a = (a \div P) * P
    BY <1>1, <2>1, ParamAssumption
  <2> QED
    BY <2>1, <2>2
<1>2. ASSUME NEW k \in Int, a = k * P PROVE a % P = 0
  <2>1. (0 + k * P) % P = 0 % P
    BY ModShift
  <2>2. 0 % P = 0
    BY ModSmall, ParamAssumption
  <2>3. 0 + k * P = a
    BY <1>2, ParamAssumption
  <2> QED
    BY <2>1, <2>2, <2>3
<1> QED
  BY <1>1, <1>2

LEMMA Division ==
    ASSUME NEW a \in Int, NEW m \in Nat, m > 0
    PROVE  /\ a = (a \div m) * m + (a % m)
           /\ a % m \in 0 .. (m - 1)
           /\ a \div m \in Int
  OBVIOUS

LEMMA Euclid ==
    ASSUME IsPrime, NEW a \in Int, NEW b \in Int, (a * b) % P = 0, a % P # 0
    PROVE  b % P = 0
<1> DEFINE T == {m \in Nat : m > 0 /\ \E j \in Int : a * m = j * P}
<1>1. P \in T
  BY ParamAssumption
<1>2. PICK m \in T : \A k \in T : m <= k
  BY <1>1, NatMinimum
<1>3. m \in Nat /\ m > 0 /\ m <= P
  BY <1>1, <1>2
<1>4. PICK j \in Int : a * m = j * P
  BY <1>2
<1>5. ASSUME NEW c \in Int, NEW i \in Int, a * c = i * P PROVE c % m = 0
  <2> DEFINE k == c \div m
             r == c % m
  <2>1. c = k * m + r /\ r \in 0 .. (m - 1) /\ k \in Int
    BY <1>3, Division
  <2> HIDE DEF k, r
  <2>2. a * r = (i - k * j) * P
    <3>1. a * c = k * (a * m) + a * r
      BY <2>1, <1>3
    <3>2. i * P = k * (j * P) + a * r
      BY <1>4, <1>5, <3>1
    <3> QED
      BY <2>1, <3>2, ParamAssumption
  <2>3. i - k * j \in Int /\ r \in Nat /\ r < m
    BY <2>1, <1>3
  <2>4. r \notin T
    BY <1>2, <1>3, <2>3
  <2>5. r = 0
    BY <2>2, <2>3, <2>4
  <2> QED
    BY <2>5 DEF r
<1>6. m # 1
  <2>1. SUFFICES ASSUME m = 1 PROVE FALSE
    OBVIOUS
  <2>2. a = j * P
    BY <1>4, <2>1
  <2> QED
    BY <2>2, Multiple
<1>7. m = P
  <2>1. P \in Int /\ a * P = a * P
    BY ParamAssumption
  <2>2. P % m = 0
    BY <1>5, <2>1
  <2>3. m # P => m \in 2 .. (P - 1)
    BY <1>3, <1>6, ParamAssumption
  <2> HIDE DEF T
  <2> QED
    BY <2>2, <2>3 DEF IsPrime
<1>8. a * b \in Int
  OBVIOUS
<1>9. PICK i \in Int : a * b = i * P
  BY <1>8, Multiple
<1> QED
  BY <1>5, <1>7, <1>9

(***************************************************************************)
(* Congruence of sums and products, from the laws above.                   *)
(***************************************************************************)
LEMMA ModMinus ==
    ASSUME NEW a \in Int, NEW b \in Int
    PROVE  a % P = b % P <=> (a - b) % P = 0
<1> DEFINE d == a \div P
           r == a % P
           e == b \div P
           s == b % P
<1>1. /\ a = d * P + r /\ r \in 0 .. (P - 1) /\ d \in Int
      /\ b = e * P + s /\ s \in 0 .. (P - 1) /\ e \in Int
  BY DivMod
<1> HIDE DEF d, r, e, s
<1>2. ASSUME r = s PROVE (a - b) % P = 0
  <2>1. a - b = (d - e) * P /\ d - e \in Int /\ a - b \in Int
    BY <1>1, <1>2, ParamAssumption
  <2> QED
    BY <2>1, Multiple
<1>3. ASSUME (a - b) % P = 0 PROVE r = s
  <2>1. a - b \in Int
    OBVIOUS
  <2>2. PICK k \in Int : a - b = k * P
    BY <1>3, <2>1, Multiple
  <2>3. d * P + r = (e + k) * P + s /\ e + k \in Int
    BY <1>1, <2>2, ParamAssumption
  <2> QED
    BY <1>1, <2>3, RemainderUnique
<1> QED
  BY <1>2, <1>3 DEF r, s

LEMMA ModAddBoth ==
    ASSUME NEW a \in Int, NEW b \in Int, NEW t \in Int, a % P = b % P
    PROVE  (a + t) % P = (b + t) % P
<1>1. (a + t) - (b + t) = a - b /\ a + t \in Int /\ b + t \in Int
  OBVIOUS
<1>2. (a - b) % P = 0
  BY ModMinus
<1> QED
  BY <1>1, <1>2, ModMinus

LEMMA ModCancel ==
    ASSUME NEW a \in Int, NEW b \in Int, NEW t \in Int,
           (a + t) % P = (b + t) % P
    PROVE  a % P = b % P
<1>1. (a + t) - (b + t) = a - b /\ a + t \in Int /\ b + t \in Int
  OBVIOUS
<1>2. ((a + t) - (b + t)) % P = 0
  BY <1>1, ModMinus
<1> QED
  BY <1>1, <1>2, ModMinus

LEMMA ModMultiplyBoth ==
    ASSUME NEW a \in Int, NEW b \in Int, NEW w \in Int, a % P = b % P
    PROVE  (a * w) % P = (b * w) % P
<1>1. (a * w) % P = ((a % P) * w) % P /\ (b * w) % P = ((b % P) * w) % P
  BY ModTimes
<1> QED
  BY <1>1

LEMMA ModCancelFactor ==
    ASSUME IsPrime, NEW a \in Int, NEW b \in Int, NEW w \in Int, w % P # 0,
           (a * w) % P = (b * w) % P
    PROVE  a % P = b % P
<1>1. a * w \in Int /\ b * w \in Int /\ a - b \in Int
      /\ a * w - b * w = w * (a - b)
  OBVIOUS
<1>2. (w * (a - b)) % P = 0
  BY <1>1, ModMinus
<1>3. (a - b) % P = 0
  BY <1>1, <1>2, Euclid
<1> QED
  BY <1>3, ModMinus

LEMMA ResidueInField ==
    ASSUME NEW x \in Int
    PROVE  x % P \in Field
  BY DivMod DEF Field

LEMMA FieldIsNat == Field \subseteq Nat
  BY ParamAssumption DEF Field

(***************************************************************************)
(* Residues that are equal after adding the same term are equal.           *)
(***************************************************************************)
LEMMA FieldCancel ==
    ASSUME NEW a \in Int, NEW b \in Int, NEW t \in Int,
           a \in Field, b \in Field, (a + t) % P = (b + t) % P
    PROVE  a = b
<1>1. a % P = a /\ b % P = b
  BY ModSmall DEF Field
<1>2. a % P = b % P
  BY ModCancel
<1> QED
  BY <1>1, <1>2

(***************************************************************************)
(* The laws of differences modulo p.                                       *)
(***************************************************************************)
LEMMA FieldIsInt == Field \subseteq Int
  BY ParamAssumption DEF Field

LEMMA ModSub ==
    ASSUME NEW a \in Int, NEW b \in Int
    PROVE  ((a % P) - (b % P)) % P = (a - b) % P
<1> DEFINE d == a \div P
           r == a % P
           e == b \div P
           s == b % P
<1>1. /\ a = d * P + r /\ r \in 0 .. (P - 1) /\ d \in Int
      /\ b = e * P + s /\ s \in 0 .. (P - 1) /\ e \in Int
  BY DivMod
<1> HIDE DEF d, r, e, s
<1>2. a - b = (r - s) + (d - e) * P /\ r - s \in Int /\ d - e \in Int
  BY <1>1, ParamAssumption
<1>3. (a - b) % P = (r - s) % P
  BY <1>2, ModShift
<1> QED
  BY <1>3 DEF r, s

CarriedDifference(x, y, a, b) == (((x + a) % P) - ((y + b) % P)) % P

LEMMA DiffStep ==
    ASSUME NEW x \in Int, NEW y \in Int, NEW a \in Int, NEW b \in Int
    PROVE  CarriedDifference(x, y, a, b) = (((x - y) % P) + (a - b)) % P
<1>1. x - y \in Int /\ a - b \in Int /\ x + a \in Int /\ y + b \in Int
      /\ (x - y) + (a - b) = (x + a) - (y + b)
  OBVIOUS
<1>2. (((x - y) % P) + (a - b)) % P = ((x - y) + (a - b)) % P
  BY <1>1, ModPlus
<1>3. (((x + a) % P) - ((y + b) % P)) % P = ((x + a) - (y + b)) % P
  BY <1>1, ModSub
<1> QED
  BY <1>1, <1>2, <1>3 DEF CarriedDifference

(***************************************************************************)
(* Reducing the parts of c + x * y first changes nothing.                  *)
(***************************************************************************)
LEMMA ModAffine ==
    ASSUME NEW c \in Int, NEW x \in Int, NEW y \in Int
    PROVE  ((c % P) + x * (y % P)) % P = (c + x * y) % P
<1>1. y % P \in Int /\ c % P \in Int
  BY DivMod
<1>2. PICK u \in Int : u = (y % P) * x
  BY <1>1
<1>3. PICK v \in Int : v = y * x
  OBVIOUS
<1>4. u % P = v % P
  BY <1>2, <1>3, ModTimes
<1>5. ((c % P) + u) % P = (c + u) % P
  BY ModPlus
<1>6. (u + c) % P = (v + c) % P
  BY <1>4, ModAddBoth
<1>7. c + u = u + c /\ v + c = c + x * y /\ u = x * (y % P)
  BY <1>1, <1>2, <1>3
<1> QED
  BY <1>5, <1>6, <1>7

LEMMA FieldModSelf ==
    ASSUME NEW r \in Field
    PROVE  r % P = r /\ r \in Int
  BY ModSmall, FieldIsInt DEF Field

LEMMA AddZeroTerm ==
    ASSUME NEW r \in Field, NEW t \in Int, t % P = 0
    PROVE  (r + t) % P = r
<1>1. r \in Int
  BY FieldIsInt
<1>2. (t + r) % P = (0 + r) % P
  <2>1. ((t % P) + r) % P = (t + r) % P
    BY <1>1, ModPlus
  <2> QED
    BY <2>1
<1>3. t + r = r + t /\ 0 + r = r
  BY <1>1
<1> QED
  BY <1>2, <1>3, ModSmall DEF Field

-----------------------------------------------------------------------------
(***************************************************************************)
(* The power of any base satisfies the equations that define it.           *)
(***************************************************************************)
LEMMA PowerIs ==
    ASSUME NEW b \in Int
    PROVE  /\ Power(b, 0) = 1
           /\ \A e \in Nat : /\ Power(b, e) \in Field
                             /\ Power(b, e + 1)
                                    = (b * Power(b, e)) % P
<1> DEFINE G == [r \in Field |-> (b * r) % P]
           Fix(f) == f = [e \in Nat |-> IF e = 0 THEN 1 % P
                                        ELSE (b * f[e - 1]) % P]
           D == CHOOSE f : Fix(f)
<1>1. 1 % P = 1 /\ 1 \in Field
  BY ModSmall, ParamAssumption DEF Field
<1>2. ASSUME NEW r \in Int PROVE (b * r) % P \in Field
  <2>1. b * r \in Int
    OBVIOUS
  <2> QED
    BY <2>1, DivMod DEF Field
<1>3. G \in [Field -> Field]
  <2>1. Field \subseteq Int
    BY ParamAssumption DEF Field
  <2> QED
    BY <1>2, <2>1
<1>4. PICK f \in [Nat -> Field] : IsIteration(f, 1, G)
  BY <1>1, <1>3, IterationExists
<1>5. \A e \in Nat : f[e + 1] = (b * f[e]) % P
  BY <1>4 DEF IsIteration
<1>6. Fix(f)
  <2>1. ASSUME NEW e \in Nat
        PROVE  f[e] = IF e = 0 THEN 1 % P ELSE (b * f[e - 1]) % P
    <3>1. CASE e = 0
      BY <1>1, <1>4, <3>1 DEF IsIteration
    <3>2. CASE e # 0
      <4>1. e - 1 \in Nat /\ (e - 1) + 1 = e
        BY <3>2
      <4>2. f[(e - 1) + 1] = (b * f[e - 1]) % P
        BY <1>5, <4>1
      <4> QED
        BY <3>2, <4>1, <4>2
    <3> QED
      BY <3>1, <3>2
  <2> QED
    BY <1>4, <2>1
<1>7. Fix(D)
  BY <1>6
<1>8. \A e : Power(b, e) = D[e]
  BY DEF Power
<1> HIDE DEF D
<1>9. D[0] = 1 /\ \A e \in Nat : D[e + 1] = (b * D[e]) % P
  <2> DEFINE Body(e) == IF e = 0 THEN 1 % P ELSE (b * D[e - 1]) % P
  <2>1. \A e \in Nat : D[e] = Body(e)
    <3>1. D = [e \in Nat |-> Body(e)]
      BY <1>7
    <3> HIDE DEF Body
    <3> QED
      BY <3>1
  <2>2. D[0] = 1
    BY <1>1, <2>1
  <2>3. ASSUME NEW e \in Nat PROVE D[e + 1] = (b * D[e]) % P
    <3>1. e + 1 \in Nat /\ e + 1 # 0 /\ (e + 1) - 1 = e
      OBVIOUS
    <3>2. D[e + 1] = Body(e + 1)
      BY <2>1, <3>1
    <3> QED
      BY <3>1, <3>2
  <2> QED
    BY <2>2, <2>3
<1>10. \A e \in Nat : D[e] \in Field
  <2> DEFINE B == {e \in Nat : D[e] \in Field}
  <2>1. 0 \in B
    BY <1>1, <1>9
  <2>2. ASSUME NEW e \in Nat, e \in B PROVE e + 1 \in B
    <3>1. D[e] \in Int
      BY <2>2, ParamAssumption DEF Field
    <3>2. (b * D[e]) % P \in Field
      BY <1>2, <3>1
    <3>3. D[e + 1] \in Field
      BY <1>9, <3>2
    <3> QED
      BY <3>3
  <2>3. Nat \subseteq B
    <3> HIDE DEF B
    <3> QED
      BY <2>1, <2>2, SetInduction
  <2> QED
    BY <2>3
<1> QED
  BY <1>8, <1>9, <1>10

(***************************************************************************)
(* A product of powers is the power of the sum of the exponents.           *)
(***************************************************************************)
LEMMA PowerAdd ==
    ASSUME NEW b \in Int, NEW m \in Nat, NEW n \in Nat
    PROVE  (Power(b, m) * Power(b, n)) % P = Power(b, m + n)
<1> DEFINE B == {k \in Nat : (Power(b, k) * Power(b, n)) % P = Power(b, k + n)}
<1>1. PICK y \in Int : y = Power(b, n) /\ y % P = y
  BY PowerIs, ModSmall, FieldIsInt DEF Field
<1>2. 0 \in B
  <2>1. Power(b, 0) = 1 /\ 1 * y = y /\ 0 + n = n
    BY PowerIs
  <2> QED
    BY <1>1, <2>1
<1>3. ASSUME NEW k \in Nat, k \in B PROVE k + 1 \in B
  <2>1. PICK x \in Int : x = Power(b, k)
    BY PowerIs, FieldIsInt
  <2>2. PICK v \in Int : v = b * x
    BY <2>1
  <2>3. PICK w \in Int : w = x * y
    BY <2>1
  <2>4. Power(b, k + 1) = v % P /\ Power(b, k + n) = w % P
    BY <1>1, <1>3, <2>1, <2>2, <2>3, PowerIs
  <2>5. Power(b, (k + 1) + n) = (b * Power(b, k + n)) % P
    <3>1. (k + 1) + n = (k + n) + 1 /\ k + n \in Nat
      OBVIOUS
    <3> QED
      BY <3>1, PowerIs
  <2>6. ((v % P) * y) % P = (v * y) % P /\ ((w % P) * b) % P = (w * b) % P
    BY ModTimes
  <2>7. v * y = w * b
    <3>1. (b * x) * y = (x * y) * b
      OBVIOUS
    <3> QED
      BY <2>2, <2>3, <3>1
  <2>8. b * (w % P) = (w % P) * b
    <3>1. w % P \in Int
      BY DivMod
    <3> QED
      BY <3>1
  <2> QED
    BY <1>1, <2>4, <2>5, <2>6, <2>7, <2>8
<1>4. Nat \subseteq B
  <2> HIDE DEF B
  <2> QED
    BY <1>2, <1>3, SetInduction
<1> QED
  BY <1>4

(***************************************************************************)
(* f[n] is the sum modulo p of the first n of the terms t, and so is every *)
(* solution of the recursive equation of such a sum.                       *)
(***************************************************************************)
IsTotal(f, N, t) ==
    /\ f \in [0 .. N -> Field]
    /\ f[0] = 0
    /\ \A n \in 1 .. N : f[n] = (f[n - 1] + t[n]) % P

SumEquation(f, N, t) ==
    f = [n \in 0 .. N |-> IF n = 0 THEN 0 ELSE (f[n - 1] + t[n]) % P]

LEMMA TotalExists ==
    ASSUME NEW N \in Nat, NEW t \in [1 .. N -> Int]
    PROVE  \E f : IsTotal(f, N, t)
<1> DEFINE G == [n \in 1 .. N |-> [r \in Field |-> (r + t[n]) % P]]
<1>1. ASSUME NEW n \in 1 .. N, NEW r \in Field
      PROVE  (r + t[n]) % P \in Field
  <2>1. r + t[n] \in Int
    BY ParamAssumption DEF Field
  <2> QED
    BY <2>1, DivMod DEF Field
<1>2. G \in [1 .. N -> [Field -> Field]] /\ 0 \in Field
  <2>1. 0 \in Field
    BY ParamAssumption DEF Field
  <2> QED
    BY <1>1, <2>1
<1>3. PICK f \in [0 .. N -> Field] : IsLoop(f, N, 0, G)
  BY <1>2, LoopExists
<1>4. ASSUME NEW n \in 1 .. N PROVE f[n] = (f[n - 1] + t[n]) % P
  <2>1. n - 1 \in 0 .. N
    OBVIOUS
  <2>2. f[n - 1] \in Field /\ f[n] = G[n][f[n - 1]]
    BY <1>3, <2>1 DEF IsLoop
  <2> QED
    BY <2>2
<1> QED
  BY <1>3, <1>4 DEF IsLoop, IsTotal

LEMMA EquationIsTotal ==
    ASSUME NEW N \in Nat, NEW t \in [1 .. N -> Int], NEW f
    PROVE  SumEquation(f, N, t) <=> IsTotal(f, N, t)
<1>1. ASSUME IsTotal(f, N, t) PROVE SumEquation(f, N, t)
  <2>1. \A n \in 0 .. N : f[n] = IF n = 0 THEN 0 ELSE (f[n - 1] + t[n]) % P
    BY <1>1 DEF IsTotal
  <2> QED
    BY <1>1, <2>1 DEF IsTotal, SumEquation
<1>2. ASSUME SumEquation(f, N, t) PROVE IsTotal(f, N, t)
  <2> DEFINE Body(n) == IF n = 0 THEN 0 ELSE (f[n - 1] + t[n]) % P
  <2>1. f = [n \in 0 .. N |-> Body(n)]
    BY <1>2 DEF SumEquation
  <2>2. \A n \in 0 .. N : f[n] = Body(n)
    <3> HIDE DEF Body
    <3> QED
      BY <2>1
  <2>3. f[0] = 0 /\ \A n \in 1 .. N : f[n] = (f[n - 1] + t[n]) % P
    BY <2>2
  <2>4. DOMAIN f = 0 .. N /\ f = [n \in 0 .. N |-> f[n]]
    <3> HIDE DEF Body
    <3> QED
      BY <2>1
  <2> DEFINE B == {n \in Nat : n <= N => f[n] \in Field}
  <2>5. 0 \in B
    BY <2>3, ParamAssumption DEF Field
  <2>6. ASSUME NEW n \in Nat, n \in B PROVE n + 1 \in B
    <3>1. SUFFICES ASSUME n + 1 <= N PROVE f[n + 1] \in Field
      OBVIOUS
    <3>2. n + 1 \in 1 .. N /\ (n + 1) - 1 = n
      BY <3>1
    <3>3. f[n] \in Int /\ t[n + 1] \in Int
      BY <2>6, <3>1, <3>2, ParamAssumption DEF Field
    <3>4. f[n + 1] = (f[n] + t[n + 1]) % P /\ f[n] + t[n + 1] \in Int
      BY <2>3, <3>2, <3>3
    <3> QED
      BY <3>4, DivMod DEF Field
  <2>7. Nat \subseteq B
    <3> HIDE DEF B
    <3> QED
      BY <2>5, <2>6, SetInduction
  <2>8. \A n \in 0 .. N : f[n] \in Field
    BY <2>7
  <2> QED
    BY <2>3, <2>4, <2>8 DEF IsTotal
<1> QED
  BY <1>1, <1>2

(***************************************************************************)
(* Where two such sums drift apart: term by term, carried along where the  *)
(* terms agree, and by as much as the sums of a window of their terms.     *)
(***************************************************************************)
Delta(f, g, n) == (f[n] - g[n]) % P

Drifts(f, g, t, u, n) ==
    Delta(f, g, n) = (Delta(f, g, n - 1) + (t[n] - u[n])) % P

LEMMA TotalTyped ==
    ASSUME NEW N \in Nat, NEW t, NEW f, IsTotal(f, N, t), NEW n \in 0 .. N
    PROVE  f[n] \in Field /\ f[n] \in Int /\ f[n] % P = f[n]
<1>1. f[n] \in Field
  BY DEF IsTotal
<1> QED
  BY <1>1, FieldModSelf

\* Two sums side by side.
Summed(f, g, t, u, N) ==
    /\ t \in [1 .. N -> Int] /\ u \in [1 .. N -> Int]
    /\ IsTotal(f, N, t) /\ IsTotal(g, N, u)

AgreeBetween(t, u, a, z) == \A j \in (a + 1) .. z : t[j] = u[j]

LEMMA DeltaStep ==
    ASSUME NEW N \in Nat, NEW t, NEW u, NEW f, NEW g, Summed(f, g, t, u, N),
           NEW n \in 1 .. N
    PROVE  Drifts(f, g, t, u, n)
<1>1. n - 1 \in 0 .. N
  OBVIOUS
<1>2. PICK x \in Int, y \in Int : x = f[n - 1] /\ y = g[n - 1]
  BY <1>1, TotalTyped DEF Summed
<1>3. PICK a \in Int, b \in Int : a = t[n] /\ b = u[n]
  BY DEF Summed
<1>4. f[n] = (x + a) % P /\ g[n] = (y + b) % P
  BY <1>2, <1>3 DEF Summed, IsTotal
<1>5. CarriedDifference(x, y, a, b) = (((x - y) % P) + (a - b)) % P
  BY DiffStep, SMTT(30)
<1> QED
  BY <1>2, <1>3, <1>4, <1>5 DEF Drifts, Delta, CarriedDifference

LEMMA DeltaTyped ==
    ASSUME NEW N \in Nat, NEW t, NEW u, NEW f, NEW g, Summed(f, g, t, u, N),
           NEW n \in 0 .. N
    PROVE  /\ Delta(f, g, n) \in Field /\ Delta(f, g, n) \in Int
           /\ Delta(f, g, n) % P = Delta(f, g, n)
<1>1. f[n] \in Int /\ g[n] \in Int
  BY TotalTyped DEF Summed
<1>2. f[n] - g[n] \in Int
  BY <1>1
<1>3. Delta(f, g, n) \in Field
  BY <1>2, ResidueInField DEF Delta
<1> QED
  BY <1>3, FieldModSelf

LEMMA DeltaFirst ==
    ASSUME NEW N \in Nat, NEW t, NEW u, NEW f, NEW g, Summed(f, g, t, u, N)
    PROVE  Delta(f, g, 0) = 0
<1>1. 0 % P = 0
  BY ModSmall, ParamAssumption
<1>2. f[0] = 0 /\ g[0] = 0
  BY DEF Summed, IsTotal
<1> QED
  BY <1>1, <1>2 DEF Delta

LEMMA DeltaCarried ==
    ASSUME NEW N \in Nat, NEW t, NEW u, NEW f, NEW g, Summed(f, g, t, u, N),
           NEW a \in 0 .. N, NEW z \in a .. N, AgreeBetween(t, u, a, z)
    PROVE  Delta(f, g, z) = Delta(f, g, a)
<1> DEFINE B == {k \in Nat : a + k <= z => Delta(f, g, a + k) = Delta(f, g, a)}
<1>1. 0 \in B
  OBVIOUS
<1>2. ASSUME NEW k \in Nat, k \in B PROVE k + 1 \in B
  <2>1. SUFFICES ASSUME a + (k + 1) <= z
                 PROVE  Delta(f, g, a + (k + 1)) = Delta(f, g, a)
    OBVIOUS
  <2>2. /\ a + (k + 1) \in 1 .. N /\ (a + (k + 1)) - 1 = a + k
        /\ a + (k + 1) \in (a + 1) .. z /\ a + k \in 0 .. N /\ a + k <= z
    BY <2>1
  <2> DEFINE m == a + (k + 1)
  <2>3. Drifts(f, g, t, u, m)
    BY <2>2, DeltaStep
  <2>4. t[m] - u[m] = 0
    <3>1. t[m] = u[m] /\ t[m] \in Int
      BY <2>2 DEF Summed, AgreeBetween
    <3> QED
      BY <3>1
  <2>5. PICK d \in Int : d = Delta(f, g, a + k) /\ d % P = d
    BY <2>2, DeltaTyped
  <2>6. Delta(f, g, a + k) = Delta(f, g, a)
    BY <1>2, <2>2
  <2>7. Delta(f, g, m) = (d + 0) % P
    BY <2>2, <2>3, <2>4, <2>5 DEF Drifts
  <2> QED
    BY <2>5, <2>6, <2>7
<1>3. Nat \subseteq B
  <2> HIDE DEF B
  <2> QED
    BY <1>1, <1>2, SetInduction
<1>4. z - a \in Nat /\ a + (z - a) = z
  OBVIOUS
<1>5. z - a \in B
  BY <1>3, <1>4
<1> QED
  BY <1>4, <1>5

LEMMA DeltaNone ==
    ASSUME NEW N \in Nat, NEW t, NEW u, NEW f, NEW g, Summed(f, g, t, u, N),
           NEW n \in 0 .. N
    PROVE  /\ Delta(f, g, n) = 0 => f[n] = g[n]
           /\ f[n] = g[n] => Delta(f, g, n) = 0
<1>1. PICK x \in Int, y \in Int :
          x = f[n] /\ y = g[n] /\ x % P = x /\ y % P = y
  BY TotalTyped DEF Summed
<1>2. ASSUME (x - y) % P = 0 PROVE x = y
  BY <1>1, <1>2, ModMinus
<1>3. ASSUME x = y PROVE (x - y) % P = 0
  BY <1>3, ModMinus
<1> QED
  BY <1>1, <1>2, <1>3 DEF Delta

\* v holds the terms of t from a on.
Excerpted(v, t, a, m) == \A n \in 1 .. m : v[n] = t[a + n]

LEMMA DeltaWindow ==
    ASSUME NEW N \in Nat, NEW t, NEW u, NEW f, NEW g, Summed(f, g, t, u, N),
           NEW M \in Nat, NEW v, NEW w, NEW h, NEW k, Summed(h, k, v, w, M),
           NEW a \in Nat, NEW z \in Nat, z = a + M, z <= N,
           Excerpted(v, t, a, M), Excerpted(w, u, a, M), Delta(f, g, a) = 0
    PROVE  Delta(f, g, z) = Delta(h, k, M)
<1> DEFINE B == {n \in Nat : n <= M => Delta(f, g, a + n) = Delta(h, k, n)}
<1>1. 0 \in B
  <2>1. Delta(h, k, 0) = 0 /\ a + 0 = a
    BY DeltaFirst
  <2> QED
    BY <2>1
<1>2. ASSUME NEW n \in Nat, n \in B PROVE n + 1 \in B
  <2>1. SUFFICES ASSUME n + 1 <= M
                 PROVE  Delta(f, g, a + (n + 1)) = Delta(h, k, n + 1)
    OBVIOUS
  <2>2. /\ a + (n + 1) \in 1 .. N /\ (a + (n + 1)) - 1 = a + n
        /\ n + 1 \in 1 .. M /\ (n + 1) - 1 = n /\ n <= M
    BY <2>1
  <2>3. Drifts(f, g, t, u, a + (n + 1)) /\ Drifts(h, k, v, w, n + 1)
    BY <2>2, DeltaStep
  <2>4. v[n + 1] = t[a + (n + 1)] /\ w[n + 1] = u[a + (n + 1)]
    BY <2>2 DEF Excerpted
  <2>5. Delta(f, g, a + n) = Delta(h, k, n)
    BY <1>2, <2>2
  <2> QED
    BY <2>2, <2>3, <2>4, <2>5 DEF Drifts
<1>3. Nat \subseteq B
  <2> HIDE DEF B
  <2> QED
    BY <1>1, <1>2, SetInduction
<1>4. M \in B
  BY <1>3
<1> QED
  BY <1>4

(***************************************************************************)
(* No change, and one.                                                     *)
(***************************************************************************)
AgreeUpTo(t, u, n) == \A j \in 1 .. n : t[j] = u[j]

AgreeBut(t, u, i, N) == \A j \in 1 .. N : j # i => t[j] = u[j]

LEMMA NoChange ==
    ASSUME NEW N \in Nat, NEW t, NEW u, NEW f, NEW g, Summed(f, g, t, u, N),
           NEW n \in 0 .. N, AgreeUpTo(t, u, n)
    PROVE  Delta(f, g, n) = 0
<1>1. PICK a \in 0 .. N, k \in 0 .. N : a = 0 /\ k = n /\ k \in a .. N
  OBVIOUS
<1>2. AgreeBetween(t, u, a, k)
  BY <1>1 DEF AgreeBetween, AgreeUpTo
<1>3. Delta(f, g, k) = Delta(f, g, a)
  BY <1>1, <1>2, DeltaCarried
<1>4. Delta(f, g, 0) = 0
  BY DeltaFirst
<1> QED
  BY <1>1, <1>3, <1>4

DriftsOnce(f, g, t, u, i, N) == Delta(f, g, N) = (t[i] - u[i]) % P

LEMMA SingleChange ==
    ASSUME NEW N \in Nat, NEW t, NEW u, NEW f, NEW g, Summed(f, g, t, u, N),
           NEW i \in 1 .. N, AgreeBut(t, u, i, N)
    PROVE  DriftsOnce(f, g, t, u, i, N)
<1>1. PICK k \in 0 .. N : k = i - 1
  OBVIOUS
<1>2. AgreeUpTo(t, u, k)
  BY <1>1 DEF AgreeUpTo, AgreeBut
<1>3. Delta(f, g, k) = 0
  BY <1>2, NoChange
<1>4. Drifts(f, g, t, u, i)
  BY DeltaStep
<1>5. PICK z \in Int : z = t[i] - u[i]
  BY DEF Summed
<1>6. Delta(f, g, i) = (0 + z) % P
  BY <1>1, <1>3, <1>4, <1>5 DEF Drifts
<1>7. AgreeBetween(t, u, i, N) /\ i \in 0 .. N /\ N \in i .. N
  BY DEF AgreeBetween, AgreeBut
<1>8. Delta(f, g, N) = Delta(f, g, i)
  BY <1>7, DeltaCarried
<1>9. 0 + z = z
  OBVIOUS
<1> QED
  BY <1>5, <1>6, <1>8, <1>9 DEF DriftsOnce

(***************************************************************************)
(* The sum of a beginning and the sum of the rest add up to the whole.     *)
(***************************************************************************)
LEMMA TotalsAgree ==
    ASSUME NEW N \in Nat, NEW t, NEW f, IsTotal(f, N, t),
           NEW M \in Nat, NEW u, NEW g, IsTotal(g, M, u),
           NEW s \in Nat, s <= N, s <= M, \A n \in 1 .. s : t[n] = u[n]
    PROVE  f[s] = g[s]
<1> DEFINE B == {k \in Nat : k <= s => f[k] = g[k]}
<1>1. 0 \in B
  BY DEF IsTotal
<1>2. ASSUME NEW k \in Nat, k \in B PROVE k + 1 \in B
  <2>1. SUFFICES ASSUME k + 1 <= s PROVE f[k + 1] = g[k + 1]
    OBVIOUS
  <2>2. /\ k + 1 \in 1 .. N /\ k + 1 \in 1 .. M /\ k + 1 \in 1 .. s
        /\ (k + 1) - 1 = k /\ f[k] = g[k]
    BY <1>2, <2>1
  <2>3. /\ f[k + 1] = (f[k] + t[k + 1]) % P
        /\ g[k + 1] = (g[k] + u[k + 1]) % P
    BY <2>2 DEF IsTotal
  <2> QED
    BY <2>2, <2>3
<1>3. Nat \subseteq B
  <2> HIDE DEF B
  <2> QED
    BY <1>1, <1>2, SetInduction
<1> QED
  BY <1>3

SumsTo(f, n, g, s, h, m) == f[n] = (g[s] + h[m]) % P

LEMMA TotalsSplit ==
    ASSUME NEW N \in Nat, NEW t \in [1 .. N -> Int], NEW f, IsTotal(f, N, t),
           NEW s \in 0 .. N, NEW u, NEW g, IsTotal(g, s, u),
           \A n \in 1 .. s : u[n] = t[n],
           NEW M \in Nat, s + M = N,
           NEW v, NEW h, IsTotal(h, M, v), Excerpted(v, t, s, M)
    PROVE  SumsTo(f, N, g, s, h, M)
<1> DEFINE B == {k \in Nat : k <= M => f[s + k] = (g[s] + h[k]) % P}
<1>1. f[s] = g[s]
  BY TotalsAgree
<1>2. PICK x \in Int : x = g[s] /\ x % P = x
  BY TotalTyped
<1>3. 0 \in B
  <2>1. h[0] = 0 /\ x + 0 = x /\ s + 0 = s
    BY DEF IsTotal
  <2> QED
    BY <1>1, <1>2, <2>1
<1>4. ASSUME NEW k \in Nat, k \in B PROVE k + 1 \in B
  <2>1. SUFFICES ASSUME k + 1 <= M PROVE f[s + (k + 1)] = (g[s] + h[k + 1]) % P
    OBVIOUS
  <2>2. /\ k + 1 \in 1 .. M /\ (k + 1) - 1 = k /\ k \in 0 .. M
        /\ s + (k + 1) \in 1 .. N /\ (s + (k + 1)) - 1 = s + k
        /\ f[s + k] = (g[s] + h[k]) % P
    BY <1>4, <2>1
  <2>3. PICK y \in Int : y = h[k]
    BY <2>2, TotalTyped
  <2>4. PICK z \in Int : z = t[s + (k + 1)]
    BY <2>2
  <2>5. f[s + (k + 1)] = (((x + y) % P) + z) % P
    BY <1>2, <2>2, <2>3, <2>4 DEF IsTotal
  <2>6. h[k + 1] = (y + z) % P
    BY <2>2, <2>3, <2>4 DEF IsTotal, Excerpted
  <2>7. (((x + y) % P) + z) % P = ((x + y) + z) % P
    BY ModPlus, x + y \in Int
  <2>8. (((y + z) % P) + x) % P = ((y + z) + x) % P
    BY ModPlus, y + z \in Int
  <2>9. (x + y) + z = (y + z) + x /\ ((y + z) % P) + x = x + ((y + z) % P)
    <3>1. (y + z) % P \in Int
      BY DivMod, y + z \in Int
    <3> QED
      BY <3>1
  <2> QED
    BY <1>2, <2>5, <2>6, <2>7, <2>8, <2>9
<1>5. Nat \subseteq B
  <2> HIDE DEF B
  <2> QED
    BY <1>3, <1>4, SetInduction
<1> QED
  BY <1>5, SMTT(30) DEF SumsTo

-----------------------------------------------------------------------------
(***************************************************************************)
(* The modulus has no zero divisors.                                       *)
(***************************************************************************)
IsDomain == \A x, y \in 1 .. (P - 1) : (x * y) % P # 0

(***************************************************************************)
(* Over a domain, a product of two numbers that p does not divide is not   *)
(* divided by p, nor is any power of a base that is not.                   *)
(***************************************************************************)
LEMMA DomainProduct ==
    ASSUME IsDomain, NEW a \in Int, NEW b \in Int,
           a % P # 0, b % P # 0
    PROVE  (a * b) % P # 0
<1> DEFINE r == a % P
           s == b % P
<1>1. r \in 1 .. (P - 1) /\ s \in 1 .. (P - 1) /\ r \in Int /\ s \in Int
  BY DivMod, ParamAssumption
<1>2. (r * s) % P # 0
  BY <1>1 DEF IsDomain
<1>3. (r * s) % P = (a * s) % P
  BY <1>1, ModTimes
<1>4. (s * a) % P = (b * a) % P
  BY <1>1, ModTimes
<1> HIDE DEF r, s
<1>5. s * a = a * s /\ b * a = a * b
  BY <1>1
<1> QED
  BY <1>2, <1>3, <1>4, <1>5

LEMMA PowerNonzero ==
    ASSUME IsDomain, NEW b \in Int, b % P # 0, NEW e \in Nat
    PROVE  Power(b, e) % P # 0
<1> DEFINE B == {n \in Nat : Power(b, n) % P # 0}
<1>1. 0 \in B
  <2>1. 1 % P = 1
    BY ModSmall, ParamAssumption
  <2>2. Power(b, 0) = 1
    BY PowerIs
  <2> QED
    BY <2>1, <2>2
<1>2. ASSUME NEW n \in Nat, n \in B PROVE n + 1 \in B
  <2>1. Power(b, n) \in Int
    BY PowerIs, FieldIsInt
  <2>2. (b * Power(b, n)) % P # 0
    BY <1>2, <2>1, DomainProduct
  <2>3. /\ Power(b, n + 1) = (b * Power(b, n)) % P
        /\ Power(b, n + 1) \in Field
    BY PowerIs
  <2>4. Power(b, n + 1) % P = Power(b, n + 1)
    BY <2>3, ModSmall DEF Field
  <2> QED
    BY <2>2, <2>3, <2>4
<1>3. Nat \subseteq B
  <2> HIDE DEF B
  <2> QED
    BY <1>1, <1>2, SetInduction
<1> QED
  BY <1>3

(***************************************************************************)
(* The residues modulo a prime are such a domain.                          *)
(***************************************************************************)
LEMMA PrimesAreDomains == IsPrime => IsDomain
<1>1. ASSUME IsPrime, NEW x \in 1 .. (P - 1), NEW y \in 1 .. (P - 1),
             (x * y) % P = 0
      PROVE  FALSE
  <2>1. x \in Field /\ y \in Field /\ x # 0 /\ y # 0
    BY ParamAssumption DEF Field
  <2>2. x % P = x /\ y % P = y /\ x \in Int /\ y \in Int
    BY <2>1, FieldModSelf
  <2> QED
    BY <1>1, <2>1, <2>2, Euclid
<1> QED
  BY <1>1, ParamAssumption DEF IsDomain

-----------------------------------------------------------------------------
(***************************************************************************)
(* The polynomials that are not 0, of degree at most d, as functions on    *)
(* the residues: a constant that is not 0, or c + x * g(x) for such a g of *)
(* degree at most d - 1.  The Verus file has no type for them, its trusted *)
(* lemma_nonzero_poly_has_few_roots is about them.                         *)
(***************************************************************************)
Polynomial == [Field -> Field]

Constants == {[x \in Field |-> c] : c \in Field \ {0}}

Horner(c, g) == [x \in Field |-> (c + x * g[x]) % P]

Lift(S) == Constants \cup {Horner(c, g) : c \in Field, g \in S}

IsDegrees(f) ==
    /\ f \in [Nat -> SUBSET Polynomial]
    /\ IsIteration(f, Constants, [S \in SUBSET Polynomial |-> Lift(S)])

Nonzero == CHOOSE f : IsDegrees(f)

Roots(h) == {x \in Field : h[x] = 0}

LEMMA HornerTyped ==
    ASSUME NEW c \in Field, NEW g \in Polynomial
    PROVE  Horner(c, g) \in Polynomial
<1> SUFFICES ASSUME NEW x \in Field PROVE (c + x * g[x]) % P \in Field
  BY DEF Horner, Polynomial
<1>1. c \in Int /\ x \in Int /\ g[x] \in Int
  <2>1. g[x] \in Field
    BY DEF Polynomial
  <2> QED
    BY <2>1, FieldIsInt
<1>2. c + x * g[x] \in Int
  BY <1>1
<1> QED
  BY <1>2, DivMod DEF Field

LEMMA LiftTyped ==
    ASSUME NEW S \in SUBSET Polynomial
    PROVE  Lift(S) \in SUBSET Polynomial
<1>1. Constants \subseteq Polynomial
  BY DEF Constants, Polynomial
<1>2. \A c \in Field, g \in S : Horner(c, g) \in Polynomial
  BY HornerTyped
<1> QED
  BY <1>1, <1>2 DEF Lift

LEMMA NonzeroIs ==
    /\ Nonzero \in [Nat -> SUBSET Polynomial]
    /\ Nonzero[0] = Constants
    /\ \A d \in Nat : Nonzero[d + 1] = Lift(Nonzero[d])
<1> DEFINE S == SUBSET Polynomial
           G == [T \in S |-> Lift(T)]
<1>1. Constants \in S
  BY DEF Constants, Polynomial
<1>2. G \in [S -> S]
  BY LiftTyped
<1>3. \E f \in [Nat -> S] : IsIteration(f, Constants, G)
  <2> HIDE DEF S, G
  <2> QED
    BY <1>1, <1>2, IterationExists
<1>4. \E f : IsDegrees(f)
  BY <1>3 DEF IsDegrees
<1>5. IsDegrees(Nonzero)
  BY <1>4 DEF Nonzero
<1>6. Nonzero \in [Nat -> S] /\ IsIteration(Nonzero, Constants, G)
  BY <1>5 DEF IsDegrees
<1>7. ASSUME NEW d \in Nat PROVE Nonzero[d + 1] = Lift(Nonzero[d])
  <2>1. Nonzero[d] \in S
    BY <1>6
  <2>2. Nonzero[d + 1] = G[Nonzero[d]]
    BY <1>6 DEF IsIteration
  <2> QED
    BY <2>1, <2>2
<1> QED
  BY <1>6, <1>7 DEF IsIteration

LEMMA ConstantsEverywhere ==
    ASSUME NEW d \in Nat
    PROVE  Constants \subseteq Nonzero[d]
<1>1. CASE d = 0
  BY <1>1, NonzeroIs
<1>2. CASE d # 0
  <2>1. d - 1 \in Nat /\ (d - 1) + 1 = d
    BY <1>2
  <2>2. Nonzero[(d - 1) + 1] = Lift(Nonzero[d - 1])
    BY <2>1, NonzeroIs
  <2> QED
    BY <2>1, <2>2 DEF Lift
<1> QED
  BY <1>1, <1>2

LEMMA HornerNonzero ==
    ASSUME NEW d \in Nat, NEW g \in Nonzero[d], NEW c \in Field
    PROVE  Horner(c, g) \in Nonzero[d + 1]
<1>1. Nonzero[d + 1] = Lift(Nonzero[d])
  BY NonzeroIs
<1> QED
  BY <1>1 DEF Lift

LEMMA NonzeroTyped ==
    ASSUME NEW d \in Nat, NEW h \in Nonzero[d], NEW x \in Field
    PROVE  h \in Polynomial /\ h[x] \in Field /\ h[x] \in Int /\ x \in Int
<1>1. h \in Polynomial
  BY NonzeroIs
<1>2. h[x] \in Field
  BY <1>1 DEF Polynomial
<1> QED
  BY <1>1, <1>2, FieldIsInt

(***************************************************************************)
(* d * x^m, and such a term above the degree of a polynomial added to it.  *)
(***************************************************************************)
Monomial(d, m) == [x \in Field |-> (d * Power(x, m)) % P]

WithTop(h, d, m) == [x \in Field |-> (h[x] + d * Power(x, m)) % P]

LEMMA WeightAt ==
    ASSUME NEW x \in Field, NEW m \in Nat
    PROVE  /\ x \in Int
           /\ Power(x, m) \in Int
           /\ Power(x, 0) = 1
           /\ Power(x, m + 1) = (x * Power(x, m)) % P
<1>1. x \in Int
  BY FieldIsInt
<1>2. Power(x, m) \in Field
  BY <1>1, PowerIs
<1> QED
  BY <1>1, <1>2, PowerIs, FieldIsInt

LEMMA MonomialNonzero ==
    ASSUME NEW d \in Field \ {0}, NEW m \in Nat
    PROVE  Monomial(d, m) \in Nonzero[m]
<1> DEFINE B == {n \in Nat : Monomial(d, n) \in Nonzero[n]}
<1>0. d \in Field /\ d # 0 /\ d \in Int /\ d % P = d /\ 0 \in Field
  BY FieldModSelf, ParamAssumption DEF Field
<1>1. 0 \in B
  <2>1. ASSUME NEW x \in Field PROVE (d * Power(x, 0)) % P = d
    <3>1. Power(x, 0) = 1
      BY WeightAt
    <3> QED
      BY <1>0, <3>1
  <2>2. Monomial(d, 0) = [x \in Field |-> d]
    BY <2>1 DEF Monomial
  <2> QED
    BY <1>0, <2>2, NonzeroIs DEF Constants
<1>2. ASSUME NEW n \in Nat, n \in B PROVE n + 1 \in B
  <2> DEFINE g == Monomial(d, n)
  <2>1. ASSUME NEW x \in Field
        PROVE  (d * Power(x, n + 1)) % P = (0 + x * g[x]) % P
    <3>1. PICK p \in Int : p = Power(x, n)
      BY WeightAt
    <3>2. Power(x, n + 1) = (x * p) % P /\ g[x] = (d * p) % P
      BY <3>1, WeightAt DEF Monomial
    <3>3. x \in Int
      BY WeightAt
    <3>4. PICK u \in Int, v \in Int : u = x * p /\ v = d * p
      BY <1>0, <3>3
    <3>5. ((u % P) * d) % P = (u * d) % P /\ ((v % P) * x) % P = (v * x) % P
      BY <1>0, <3>3, ModTimes
    <3>6. u * d = v * x /\ u % P \in Int /\ v % P \in Int
      BY <1>0, <3>3, <3>4, DivMod
    <3>7. (u % P) * d = d * (u % P) /\ (v % P) * x = 0 + x * (v % P)
      BY <1>0, <3>3, <3>6
    <3> QED
      BY <3>2, <3>4, <3>5, <3>6, <3>7
  <2>2. Monomial(d, n + 1) = Horner(0, g)
    BY <2>1 DEF Monomial, Horner
  <2> QED
    BY <1>0, <1>2, <2>2, HornerNonzero
<1>3. Nat \subseteq B
  <2> HIDE DEF B
  <2> QED
    BY <1>1, <1>2, SetInduction
<1> QED
  BY <1>3

LEMMA TopNonzero ==
    ASSUME NEW m \in Nat, NEW k \in Nat, k < m, NEW h \in Nonzero[k],
           NEW d \in Field
    PROVE  WithTop(h, d, m) \in Nonzero[m]
<1> DEFINE B == {n \in Nat : \A l \in Nat : l < n =>
                    \A f \in Nonzero[l] : WithTop(f, d, n) \in Nonzero[n]}
<1>0. d \in Int /\ 0 \in Field
  BY FieldModSelf, ParamAssumption DEF Field
<1>1. 0 \in B
  OBVIOUS
<1>2. ASSUME NEW n \in Nat, n \in B PROVE n + 1 \in B
  <2> SUFFICES ASSUME NEW l \in Nat, l < n + 1, NEW f \in Nonzero[l]
               PROVE  WithTop(f, d, n + 1) \in Nonzero[n + 1]
    OBVIOUS
  <2>1. ASSUME NEW c \in Field, NEW g \in Polynomial, f = Horner(c, g)
        PROVE  WithTop(f, d, n + 1) = Horner(c, WithTop(g, d, n))
    <3>1. ASSUME NEW x \in Field
          PROVE  (f[x] + d * Power(x, n + 1)) % P
                     = (c + x * WithTop(g, d, n)[x]) % P
      <4>1. PICK p \in Int : p = Power(x, n)
        BY WeightAt
      <4>2. PICK y \in Int : y = g[x]
        <5>1. g[x] \in Field
          BY DEF Polynomial
        <5> QED
          BY <5>1, FieldIsInt
      <4>3. x \in Int /\ c \in Int
        BY FieldIsInt
      <4>4. /\ f[x] = (c + x * y) % P
            /\ Power(x, n + 1) = (x * p) % P
            /\ WithTop(g, d, n)[x] = (y + d * p) % P
        BY <2>1, <4>1, <4>2, WeightAt DEF Horner, WithTop
      <4>5. PICK a \in Int, u \in Int, v \in Int :
                a = c + x * y /\ u = x * p /\ v = y + d * p
        BY <1>0, <4>3
      <4>6. ((a % P) + d * (u % P)) % P = (a + d * u) % P
        BY <1>0, ModAffine
      <4>7. ((c % P) + x * (v % P)) % P = (c + x * v) % P
        BY <4>3, ModAffine
      <4>8. a + d * u = c + x * v
        BY <1>0, <4>3, <4>5
      <4>9. c % P = c
        BY FieldModSelf
      <4> QED
        BY <4>4, <4>5, <4>6, <4>7, <4>8, <4>9
    <3> QED
      BY <3>1 DEF WithTop, Horner
  <2>2. CASE f \in Constants
    <3>1. PICK c \in Field \ {0} : f = [x \in Field |-> c]
      BY <2>2 DEF Constants
    <3>2. CASE d = 0
      <4>1. ASSUME NEW x \in Field
            PROVE  (f[x] + d * Power(x, n + 1)) % P = c
        <5>1. Power(x, n + 1) \in Int
          BY WeightAt
        <5>2. d * Power(x, n + 1) = 0
          BY <3>2, <5>1
        <5>3. c % P = c /\ c \in Int
          BY FieldModSelf
        <5> QED
          BY <3>1, <5>2, <5>3
      <4>2. WithTop(f, d, n + 1) = f
        BY <3>1, <4>1 DEF WithTop
      <4> QED
        BY <2>2, <4>2, ConstantsEverywhere
    <3>3. CASE d # 0
      <4> DEFINE g == Monomial(d, n)
      <4>1. ASSUME NEW x \in Field
            PROVE  (f[x] + d * Power(x, n + 1)) % P
                       = (c + x * g[x]) % P
        <5>1. PICK p \in Int : p = Power(x, n)
          BY WeightAt
        <5>2. x \in Int /\ c \in Int /\ c % P = c
          BY FieldModSelf
        <5>3. /\ f[x] = c
              /\ Power(x, n + 1) = (x * p) % P
              /\ g[x] = (d * p) % P
          BY <3>1, <5>1, WeightAt DEF Monomial
        <5>4. PICK u \in Int, v \in Int : u = x * p /\ v = d * p
          BY <1>0, <5>2
        <5>5. ((c % P) + d * (u % P)) % P = (c + d * u) % P
          BY <1>0, <5>2, ModAffine
        <5>6. ((c % P) + x * (v % P)) % P = (c + x * v) % P
          BY <5>2, ModAffine
        <5>7. c + d * u = c + x * v
          BY <1>0, <5>2, <5>4
        <5> QED
          BY <5>2, <5>3, <5>4, <5>5, <5>6, <5>7
      <4>2. WithTop(f, d, n + 1) = Horner(c, g)
        BY <4>1 DEF WithTop, Horner
      <4>3. g \in Nonzero[n]
        BY <3>3, MonomialNonzero
      <4> HIDE DEF g
      <4> QED
        BY <4>2, <4>3, HornerNonzero
    <3> QED
      BY <3>2, <3>3
  <2>3. CASE f \notin Constants
    <3>1. l # 0
      BY <2>3, NonzeroIs
    <3>2. l - 1 \in Nat /\ (l - 1) + 1 = l /\ l - 1 < n
      BY <3>1
    <3>3. f \in Lift(Nonzero[l - 1])
      BY <3>2, NonzeroIs
    <3>4. PICK c \in Field, g \in Nonzero[l - 1] : f = Horner(c, g)
      BY <2>3, <3>3 DEF Lift
    <3>5. g \in Polynomial
      BY <3>2, NonzeroIs
    <3>6. WithTop(f, d, n + 1) = Horner(c, WithTop(g, d, n))
      BY <2>1, <3>4, <3>5
    <3>7. WithTop(g, d, n) \in Nonzero[n]
      BY <1>2, <3>2
    <3> QED
      BY <3>6, <3>7, HornerNonzero
  <2> QED
    BY <2>2, <2>3
<1>3. Nat \subseteq B
  <2> HIDE DEF B
  <2> QED
    BY <1>1, <1>2, SetInduction
<1> QED
  BY <1>3

(***************************************************************************)
(* Dividing by x - a: what is left is a polynomial of the degree below,    *)
(* and not 0 when the dividend is no constant.                             *)
(***************************************************************************)
DividesInto(h, a, r, g) ==
    \A x \in Field : h[x] = (r + (x - a) * g[x]) % P

DividedAt(c, a, s, y, x) ==
    (c + x * (s + (x - a) * y)) % P
        = (((c + a * s) % P) + (x - a) * ((s + x * y) % P)) % P

LEMMA DivideAt ==
    ASSUME NEW c \in Int, NEW a \in Int, NEW s \in Int, NEW y \in Int, NEW x \in Int
    PROVE  DividedAt(c, a, s, y, x)
<1>1. PICK v \in Int : v = x - a
  OBVIOUS
<1>2. PICK b \in Int, z \in Int : b = c + a * s /\ z = s + x * y
  OBVIOUS
<1>3. ((b % P) + v * (z % P)) % P = (b + v * z) % P
  BY ModAffine
<1>4. b + v * z = c + x * (s + (x - a) * y)
  <2>1. x = v + a
    BY <1>1
  <2>2. c + (v + a) * (s + v * y) = (c + a * s) + v * (s + (v + a) * y)
    OBVIOUS
  <2> QED
    BY <1>1, <1>2, <2>1, <2>2
<1> QED
  BY <1>1, <1>2, <1>3, <1>4 DEF DividedAt

LEMMA Divided ==
    ASSUME NEW d \in Nat, NEW h \in Nonzero[d + 1], h \notin Constants,
           NEW a \in Field
    PROVE  \E r \in Field, g \in Nonzero[d] : DividesInto(h, a, r, g)
<1> DEFINE Can(n, f) ==
             \E r \in Field, g \in Nonzero[n] : DividesInto(f, a, r, g)
           B == {n \in Nat : \A f \in Nonzero[n + 1] : f \notin Constants => Can(n, f)}
<1>0. a \in Int
  BY FieldIsInt
<1>1. ASSUME NEW n \in Nat, NEW f \in Nonzero[n + 1], f \notin Constants
      PROVE  \E c \in Field, g \in Nonzero[n] : f = Horner(c, g)
  <2>1. Nonzero[n + 1] = Lift(Nonzero[n])
    BY NonzeroIs
  <2> QED
    BY <1>1, <2>1 DEF Lift
<1>2. ASSUME NEW n \in Nat, NEW f, NEW c \in Field, NEW g \in Nonzero[n],
             f = Horner(c, g), g \in Constants
      PROVE  Can(n, f)
  <2>1. PICK k \in Field : g = [x \in Field |-> k]
    BY <1>2 DEF Constants
  <2>2. c \in Int /\ k \in Int
    BY FieldIsInt
  <2>3. PICK b \in Int : b = c + a * k
    BY <1>0, <2>2
  <2>4. b % P \in Field /\ b % P \in Int
    BY DivMod DEF Field
  <2>5. ASSUME NEW x \in Field
        PROVE  f[x] = ((b % P) + (x - a) * g[x]) % P
    <3>1. f[x] = (c + x * k) % P /\ g[x] = k /\ x \in Int
      BY <1>2, <2>1, FieldIsInt DEF Horner
    <3>2. PICK v \in Int : v = (x - a) * k
      BY <1>0, <2>2, <3>1
    <3>3. ((b % P) + v) % P = (b + v) % P
      BY ModPlus
    <3>4. b + v = c + x * k
      BY <1>0, <2>2, <2>3, <3>1, <3>2
    <3> QED
      BY <3>1, <3>2, <3>3, <3>4
  <2>6. DividesInto(f, a, b % P, g)
    BY <2>5 DEF DividesInto
  <2> QED
    BY <2>4, <2>6
<1>3. 0 \in B
  <2> SUFFICES ASSUME NEW f \in Nonzero[0 + 1], f \notin Constants PROVE Can(0, f)
    OBVIOUS
  <2>1. PICK c \in Field, g \in Nonzero[0] : f = Horner(c, g)
    BY <1>1
  <2>2. g \in Constants
    BY NonzeroIs
  <2> HIDE DEF Can
  <2> QED
    BY <1>2, <2>1, <2>2
<1>4. ASSUME NEW n \in Nat, n \in B PROVE n + 1 \in B
  <2> SUFFICES ASSUME NEW f \in Nonzero[(n + 1) + 1], f \notin Constants
               PROVE  Can(n + 1, f)
    OBVIOUS
  <2>0. n + 1 \in Nat
    OBVIOUS
  <2>1. PICK c \in Field, g \in Nonzero[n + 1] : f = Horner(c, g)
    BY <1>1, <2>0
  <2>2. CASE g \in Constants
    <3> HIDE DEF Can
    <3> QED
      BY <1>2, <2>0, <2>1, <2>2
  <2>3. CASE g \notin Constants
    <3>1. PICK s \in Field, e \in Nonzero[n] : DividesInto(g, a, s, e)
      BY <1>4, <2>3
    <3> DEFINE o == Horner(s, e)
               b == (c + a * s) % P
    <3>2. o \in Nonzero[n + 1]
      BY HornerNonzero
    <3>3. c \in Int /\ s \in Int /\ c % P = c
      BY FieldModSelf
    <3>4. b \in Field
      <4>1. c + a * s \in Int
        BY <1>0, <3>3
      <4> QED
        BY <4>1, DivMod DEF Field
    <3>5. ASSUME NEW x \in Field
          PROVE  f[x] = (b + (x - a) * o[x]) % P
      <4>1. PICK y \in Int : y = e[x]
        BY NonzeroTyped
      <4>2. x \in Int
        BY FieldIsInt
      <4>3. /\ f[x] = (c + x * g[x]) % P
            /\ g[x] = (s + (x - a) * y) % P
            /\ o[x] = (s + x * y) % P
        BY <2>1, <3>1, <4>1 DEF Horner, DividesInto
      <4>4. PICK z \in Int : z = s + (x - a) * y
        BY <1>0, <3>3, <4>2
      <4>5. ((c % P) + x * (z % P)) % P = (c + x * z) % P
        BY <3>3, <4>2, ModAffine
      <4>6. DividedAt(c, a, s, y, x)
        BY <1>0, <3>3, <4>2, DivideAt
      <4> QED
        BY <3>3, <4>3, <4>4, <4>5, <4>6 DEF DividedAt
    <3> HIDE DEF o, b
    <3>6. DividesInto(f, a, b, o)
      BY <3>5 DEF DividesInto
    <3> QED
      BY <3>2, <3>4, <3>6
  <2> QED
    BY <2>2, <2>3
<1>5. Nat \subseteq B
  <2> HIDE DEF B
  <2> QED
    BY <1>3, <1>4, SetInduction
<1> QED
  BY <1>5

(***************************************************************************)
(* lemma_nonzero_poly_has_few_roots ("Nonzero polynomial of degree <= d    *)
(* has at most d roots over F_p"), which the file takes on trust: true     *)
(* over every domain.                                                      *)
(***************************************************************************)
THEOREM FewRoots ==
    ASSUME IsDomain, NEW d \in Nat, NEW h \in Nonzero[d]
    PROVE  /\ IsFiniteSet(Roots(h))
           /\ Cardinality(Roots(h)) <= d
<1> DEFINE Few(n, f) == IsFiniteSet(Roots(f)) /\ Cardinality(Roots(f)) <= n
           B == {n \in Nat : \A f \in Nonzero[n] : Few(n, f)}
<1>1. ASSUME NEW n \in Nat, NEW f, Roots(f) = {} PROVE Few(n, f)
  BY <1>1, FS_EmptySet
<1>2. ASSUME NEW f \in Constants PROVE Roots(f) = {}
  BY DEF Constants, Roots
<1>3. 0 \in B
  <2>1. Nonzero[0] = Constants
    BY NonzeroIs
  <2> HIDE DEF Few
  <2> QED
    BY <1>1, <1>2, <2>1
<1>4. ASSUME NEW n \in Nat, n \in B PROVE n + 1 \in B
  <2> SUFFICES ASSUME NEW f \in Nonzero[n + 1] PROVE Few(n + 1, f)
    OBVIOUS
  <2>1. CASE Roots(f) = {}
    <3> HIDE DEF Few
    <3> QED
      BY <1>1, <2>1
  <2>2. CASE Roots(f) # {}
    <3>1. PICK a \in Field : f[a] = 0
      BY <2>2 DEF Roots
    <3>2. f \notin Constants
      BY <1>2, <2>2
    <3>3. PICK r \in Field, g \in Nonzero[n] : DividesInto(f, a, r, g)
      BY <3>2, Divided
    <3>4. r = 0
      <4>1. PICK y \in Int : y = g[a]
        BY NonzeroTyped
      <4>2. f[a] = (r + (a - a) * y) % P
        BY <3>3, <4>1 DEF DividesInto
      <4>3. r % P = r /\ r \in Int /\ a \in Int
        BY FieldModSelf
      <4>4. r + (a - a) * y = r
        BY <4>3
      <4> QED
        BY <3>1, <4>2, <4>3, <4>4
    <3>5. ASSUME NEW x \in Field, f[x] = 0, x # a PROVE g[x] = 0
      <4>1. PICK y \in Int : y = g[x]
        BY NonzeroTyped
      <4>2. x \in Int /\ a \in Int /\ y \in Field
        BY <4>1, NonzeroTyped, FieldIsInt
      <4>3. ((x - a) * y) % P = 0
        <5>1. f[x] = (r + (x - a) * g[x]) % P
          BY <3>3 DEF DividesInto
        <5>2. r + (x - a) * g[x] = (x - a) * y
          BY <3>4, <4>1, <4>2
        <5> QED
          BY <3>5, <5>1, <5>2
      <4>4. (x - a) % P # 0
        <5>1. x % P = x /\ a % P = a
          BY FieldModSelf
        <5>2. x % P # a % P
          BY <3>5, <5>1
        <5> QED
          BY <4>2, <5>2, ModMinus
      <4>5. y % P = 0
        <5>1. x - a \in Int
          BY <4>2
        <5> QED
          BY <4>3, <4>4, <5>1, DomainProduct
      <4>6. y % P = y
        BY <4>2, FieldModSelf
      <4> QED
        BY <4>1, <4>5, <4>6
    <3>6. Roots(f) \subseteq Roots(g) \cup {a}
      BY <3>5 DEF Roots
    <3>7. IsFiniteSet(Roots(g)) /\ Cardinality(Roots(g)) <= n
      BY <1>4
    <3>8. IsFiniteSet(Roots(g) \cup {a})
          /\ Cardinality(Roots(g) \cup {a}) <= n + 1
      <4> DEFINE S == Roots(g)
      <4>1. PICK k \in Nat : k = Cardinality(S)
        BY <3>7, FS_CardinalityType
      <4>2. IsFiniteSet(S) /\ k <= n
        BY <3>7, <4>1
      <4> HIDE DEF S
      <4>3. /\ IsFiniteSet(S \cup {a})
            /\ Cardinality(S \cup {a}) = IF a \in S THEN k ELSE k + 1
        BY <4>1, <4>2, FS_AddElement
      <4>4. IsFiniteSet(S \cup {a}) /\ Cardinality(S \cup {a}) <= n + 1
        BY <4>1, <4>2, <4>3
      <4> QED
        BY <4>4 DEF S
    <3>9. IsFiniteSet(Roots(f))
          /\ Cardinality(Roots(f)) <= Cardinality(Roots(g) \cup {a})
      BY <3>6, <3>8, FS_Subset
    <3>10. Cardinality(Roots(f)) \in Nat /\ Cardinality(Roots(g) \cup {a}) \in Nat
      BY <3>8, <3>9, FS_CardinalityType
    <3> QED
      BY <3>8, <3>9, <3>10
  <2> QED
    BY <2>1, <2>2
<1>5. Nat \subseteq B
  <2> HIDE DEF B
  <2> QED
    BY <1>3, <1>4, SetInduction
<1> QED
  BY <1>5

(***************************************************************************)
(* The sum of the terms c[n] x^(E[n]) modulo p as a function of x, where   *)
(* the exponents grow: 0 when no coefficient is left modulo p, and else a  *)
(* polynomial that is not 0, of degree at most the last exponent.          *)
(***************************************************************************)
Grows(E, N) == E \in [1 .. N -> Nat] /\ \A n \in 2 .. N : E[n - 1] < E[n]

PolyTerms(c, E, N, x) == [n \in 1 .. N |-> c[n] * Power(x, E[n])]

LEMMA SumNonzero ==
    ASSUME NEW N \in Nat, NEW E, Grows(E, N), NEW c \in [1 .. N -> Int], NEW F,
           \A x \in Field : IsTotal(F[x], N, PolyTerms(c, E, N, x)),
           \E n \in 1 .. N : c[n] % P # 0
    PROVE  /\ N >= 1 /\ E[N] \in Nat
           /\ [x \in Field |-> F[x][N]] \in Nonzero[E[N]]
<1> DEFINE S(n) == [x \in Field |-> F[x][n]]
           Zero == [x \in Field |-> 0]
           IsZero(n) == S(n) = Zero /\ \A m \in 1 .. n : c[m] % P = 0
           B == {n \in Nat : n <= N => \/ IsZero(n)
                                       \/ n >= 1 /\ S(n) \in Nonzero[E[n]]}
<1>1. 0 \in B
  <2>1. ASSUME NEW x \in Field PROVE F[x][0] = 0
    BY DEF IsTotal
  <2>2. IsZero(0)
    BY <2>1
  <2> HIDE DEF IsZero
  <2> QED
    BY <2>2
<1>2. ASSUME NEW n \in Nat, n \in B PROVE n + 1 \in B
  <2> DEFINE m == n + 1
             d == c[m] % P
             e == E[m]
  <2>1. SUFFICES ASSUME m <= N
                 PROVE  IsZero(m) \/ (m >= 1 /\ S(m) \in Nonzero[E[m]])
    OBVIOUS
  <2>2. m \in 1 .. N /\ m - 1 = n /\ n \in 0 .. N /\ n <= N /\ m >= 1 /\ m \in Nat
    BY <2>1
  <2>3. d \in Field /\ d \in Int /\ c[m] \in Int
    BY <2>2, DivMod, FieldIsInt DEF Field
  <2>4. e \in Nat
    BY <2>2 DEF Grows
  <2>5. ASSUME NEW x \in Field
        PROVE  F[x][m] = (F[x][n] + d * Power(x, e)) % P
    <3>1. PICK p \in Int : p = Power(x, e)
      BY <2>4, WeightAt
    <3>2. F[x][n] \in Field
      BY <2>2 DEF IsTotal
    <3>3. PICK y \in Int : y = F[x][n]
      BY <3>2, FieldIsInt
    <3>4. F[x][m] = (F[x][n] + PolyTerms(c, E, N, x)[m]) % P
      BY <2>2 DEF IsTotal
    <3>5. PICK k \in Int : k = c[m]
      BY <2>3
    <3>6. PolyTerms(c, E, N, x)[m] = k * p
      BY <2>2, <3>1, <3>5 DEF PolyTerms
    <3>7. ((y % P) + p * (k % P)) % P = (y + p * k) % P
      BY ModAffine
    <3>8. y % P = y
      BY <3>2, <3>3, FieldModSelf
    <3>9. k % P \in Int
      BY DivMod
    <3>10. p * (k % P) = (k % P) * p /\ p * k = k * p
      BY <3>9
    <3> QED
      BY <3>1, <3>3, <3>4, <3>5, <3>6, <3>7, <3>8, <3>10
  <2> HIDE DEF d, e
  <2>6. CASE IsZero(n)
    <3>1. ASSUME NEW x \in Field PROVE F[x][n] = 0
      BY <2>6
    <3>2. CASE d = 0
      <4>1. ASSUME NEW x \in Field PROVE F[x][m] = 0
        <5>1. Power(x, e) \in Int
          BY <2>4, WeightAt
        <5>2. 0 + d * Power(x, e) = 0
          BY <3>2, <5>1
        <5>3. 0 % P = 0
          BY ModSmall, ParamAssumption
        <5> QED
          BY <2>5, <3>1, <5>2, <5>3
      <4>2. ASSUME NEW l \in 1 .. m PROVE c[l] % P = 0
        <5>1. CASE l = m
          BY <3>2, <5>1 DEF d
        <5>2. CASE l # m
          <6>1. l \in 1 .. n
            BY <5>2
          <6> QED
            BY <2>6, <6>1
        <5> QED
          BY <5>1, <5>2
      <4>3. S(m) = Zero
        BY <4>1
      <4>4. IsZero(m)
        BY <4>2, <4>3
      <4> HIDE DEF IsZero
      <4> QED
        BY <4>4
    <3>3. CASE d # 0
      <4>1. ASSUME NEW x \in Field PROVE F[x][m] = (d * Power(x, e)) % P
        <5>1. PICK p \in Int : p = Power(x, e)
          BY <2>4, WeightAt
        <5>2. 0 + d * p = d * p
          BY <2>3
        <5> QED
          BY <2>5, <3>1, <5>1, <5>2
      <4>2. S(m) = Monomial(d, e)
        BY <4>1 DEF Monomial
      <4>3. Monomial(d, e) \in Nonzero[e]
        BY <2>3, <2>4, <3>3, MonomialNonzero
      <4> HIDE DEF S, IsZero
      <4> QED
        BY <2>2, <4>2, <4>3 DEF e
    <3> QED
      BY <3>2, <3>3
  <2>7. CASE n >= 1 /\ S(n) \in Nonzero[E[n]]
    <3>1. E[n] \in Nat /\ E[n] < e
      <4>1. n \in 1 .. N /\ m \in 2 .. N
        BY <2>2, <2>7
      <4>2. E[m - 1] < E[m] /\ E[n] \in Nat
        BY <4>1 DEF Grows
      <4> QED
        BY <2>2, <4>2 DEF e
    <3>2. S(m) = WithTop(S(n), d, e)
      BY <2>5 DEF WithTop
    <3> HIDE DEF S, IsZero
    <3>3. WithTop(S(n), d, e) \in Nonzero[e]
      BY <2>3, <2>4, <2>7, <3>1, TopNonzero
    <3> QED
      BY <2>2, <3>2, <3>3 DEF e
  <2>8. IsZero(n) \/ (n >= 1 /\ S(n) \in Nonzero[E[n]])
    <3> HIDE DEF IsZero, S
    <3> QED
      BY <1>2, <2>2
  <2> HIDE DEF IsZero, S
  <2> QED
    BY <2>6, <2>7, <2>8
<1>3. Nat \subseteq B
  <2> HIDE DEF B
  <2> QED
    BY <1>1, <1>2, SetInduction
<1>4. IsZero(N) \/ (N >= 1 /\ S(N) \in Nonzero[E[N]])
  <2> HIDE DEF IsZero, S
  <2> QED
    BY <1>3
<1>5. ~ IsZero(N)
  OBVIOUS
<1>6. N >= 1 => E[N] \in Nat
  BY DEF Grows
<1> HIDE DEF IsZero
<1> QED
  BY <1>4, <1>5, <1>6

-----------------------------------------------------------------------------
(***************************************************************************)
(* A set whose elements are numbered from a to b, each number once.        *)
(***************************************************************************)
IsNumbering(f, S, a, b) ==
    /\ f \in [S -> a .. b]
    /\ \A y \in a .. b : \E n \in S : f[n] = y
    /\ \A n, k \in S : f[n] = f[k] => n = k

LEMMA CountedByNumber ==
    ASSUME NEW S, NEW a \in Int, NEW b \in Int, a <= b + 1, NEW f, IsNumbering(f, S, a, b)
    PROVE  Cardinality(S) = b - a + 1
<1> DEFINE T == a .. b
<1>1. IsFiniteSet(T) /\ Cardinality(T) = b - a + 1
  <2>1. /\ IsFiniteSet(a .. b)
        /\ Cardinality(a .. b) = IF a > b THEN 0 ELSE b - a + 1
    BY FS_Interval
  <2>2. b - a + 1 = IF a > b THEN 0 ELSE b - a + 1
    OBVIOUS
  <2> QED
    BY <2>1, <2>2
<1>2. /\ f \in [S -> T]
      /\ \A y \in T : \E n \in S : f[n] = y
      /\ \A n, k \in S : f[n] = f[k] => n = k
  BY DEF IsNumbering
<1> HIDE DEF T
<1>3. f \in Surjection(S, T)
  BY <1>2 DEF Surjection
<1>4. IsInjective(f)
  <2>1. DOMAIN f = S
    BY <1>2
  <2> QED
    BY <1>2, <2>1 DEF IsInjective
<1>5. f \in Bijection(S, T)
  BY <1>2, <1>3, <1>4 DEF Bijection, Injection
<1>6. ExistsBijection(T, S)
  <2>1. ExistsBijection(S, T)
    BY <1>5 DEF ExistsBijection
  <2> QED
    BY <2>1, Fun_ExistsBijSymmetric
<1>7. Cardinality(S) = Cardinality(T)
  BY <1>1, <1>6, FS_Bijection
<1> QED
  BY <1>1, <1>7 DEF T
=============================================================================
