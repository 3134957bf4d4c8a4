--------------------------- MODULE KSentryProofs ---------------------------
(***************************************************************************)
(* Theorems about KSentry and about Rebase, which runs on it, for every    *)
(* modulus, base, word size and set of inputs.                             *)
(*                                                                         *)
(* KSentry: its types, the lockstep of weight and step, the absence of     *)
(* panics where the parameters fit the word, and that it implements        *)
(* KSentrySpec in every build that does not wrap silently.                 *)
(*                                                                         *)
(* Rebase: one scalar moves a rolling hash wherever its chunk lies, a      *)
(* K-Sentry digest composes through the shifted sum, and no one scalar     *)
(* moves it unless the shift does nothing.  The same for schedules of      *)
(* exponents in general, as the Verus file states it: a schedule composes  *)
(* by one scalar exactly when it is affine, and the triangular schedule of *)
(* K-Sentry never does.                                                    *)
(***************************************************************************)
EXTENDS Rebase, Exponents, AccumulatorLemmas

-----------------------------------------------------------------------------
(***************************************************************************)
(* Type correctness: the struct and every checkpoint of it hold field      *)
(* elements, and no stream is longer than its bound, in every build,       *)
(* overflowing or not.                                                     *)
(***************************************************************************)
THEOREM TypeCorrect == Spec => []TypeOK
<1>1. Init => TypeOK
  <2>1. new \in Struct /\ new.n = 0
    BY NewTyped
  <2>2. new \in [n : 0 .. MaxLen, acc : Field, weight : Field, step : Field]
    BY <2>1, KSentryAssumption DEF Struct, new
  <2>3. << >> \in Seq(Inputs)
    OBVIOUS
  <2> QED
    BY <2>2, <2>3 DEF Init, TypeOK
<1>2. TypeOK /\ [Next]_vars => TypeOK'
  <2> SUFFICES ASSUME TypeOK, [Next]_vars PROVE TypeOK'
    OBVIOUS
  <2>0. ks \in Struct /\ ks.n \in 0 .. MaxLen
    BY KSentryAssumption DEF TypeOK, Struct
  <2>1. ASSUME NEW x \in Inputs, Update(x) PROVE TypeOK'
    <3>1. x \in Nat
      BY KSentryAssumption
    <3>2. update(ks, x) \in Struct /\ update(ks, x).n = ks.n + 1
      BY <2>0, <3>1, UpdateTyped
    <3>3. ks' \in [n : 0 .. MaxLen, acc : Field, weight : Field, step : Field]
      <4>1. ks.n + 1 \in 0 .. MaxLen
        BY <2>0, <2>1, KSentryAssumption DEF Update
      <4> QED
        BY <2>1, <3>2, <4>1 DEF Update, Struct, update
    <3>4. xs' \in Seq(Inputs)
      BY <2>1 DEF Update, TypeOK
    <3> QED
      BY <2>1, <3>3, <3>4 DEF Update, TypeOK
  <2>2. ASSUME NEW x \in Inputs, UpdatePanics(x) PROVE TypeOK'
    BY <2>2 DEF UpdatePanics, TypeOK
  <2>3. CASE Checkpoint
    <3>1. checkpoint(ks) \in [end_seq : 0 .. MaxLen, digest : Field,
                              weight : Field, step : Field]
      BY DEF checkpoint, TypeOK
    <3> QED
      BY <2>3, <3>1 DEF Checkpoint, TypeOK
  <2>4. CASE UNCHANGED vars
    BY <2>4 DEF vars, TypeOK
  <2> QED
    BY <2>1, <2>2, <2>3, <2>4 DEF Next
<1> QED
  BY <1>1, <1>2, PTL DEF Spec

-----------------------------------------------------------------------------
(***************************************************************************)
(* The heart of the O(1) updater: acc, weight and step move in lockstep    *)
(* with the position, each with one multiplication per element, so that    *)
(* after n elements they are the digest of the stream, q^(T_n) and         *)
(* q^(n+1).  No one of the three is inductive without the other two: acc   *)
(* takes its factor from weight, weight from step.                         *)
(***************************************************************************)
LEMMA ClosedFormIsState == ClosedForm <=> IsStateAfter(ks, xs)
<1>1. ASSUME ks.n = Len(xs) PROVE ClosedForm <=> IsStateAfter(ks, xs)
  BY <1>1 DEF ClosedForm, WeightAndStep, IsStateAfter
<1> QED
  BY <1>1 DEF ClosedForm, WeightAndStep, IsStateAfter

LEMMA InputsAreNat == Seq(Inputs) \subseteq Seq(Nat)
  BY KSentryAssumption, SeqMonotonic

LEMMA TypedState ==
    ASSUME TypeOK
    PROVE  ks \in Struct /\ xs \in Seq(Nat)
  BY KSentryAssumption, InputsAreNat DEF TypeOK, Struct

LEMMA UpdateIsExact ==
    ASSUME TypeOK, SafeBuild, NEW x \in Inputs, Update(x)
    PROVE  x \in Nat /\ ~ UpdateOverflows(ks, x)
<1>1. ks \in Struct /\ x \in Nat
  BY TypedState, KSentryAssumption
<1> QED
  BY <1>1, UpdateNeverOverflows DEF SafeBuild, Update

LEMMA ClosedFormInductive ==
    ASSUME SafeBuild, TypeOK, ClosedForm, [Next]_vars
    PROVE  ClosedForm'
<1>1. ASSUME NEW x \in Inputs, Update(x) PROVE ClosedForm'
  <2>1. ks \in Struct /\ xs \in Seq(Nat) /\ IsStateAfter(ks, xs)
    BY TypedState, ClosedFormIsState
  <2>2. x \in Nat /\ ~ UpdateOverflows(ks, x)
    BY <1>1, UpdateIsExact
  <2>3. IsStateAfter(update(ks, x), Append(xs, x))
    BY <2>1, <2>2, UpdateKeepsState
  <2>4. ks' = update(ks, x) /\ xs' = Append(xs, x)
    BY <1>1 DEF Update
  <2> QED
    BY <2>3, <2>4 DEF ClosedForm, WeightAndStep, IsStateAfter
<1>2. ASSUME NEW x \in Inputs, UpdatePanics(x) PROVE ClosedForm'
  BY <1>2 DEF UpdatePanics, ClosedForm, WeightAndStep
<1>3. CASE Checkpoint
  BY <1>3 DEF Checkpoint, ClosedForm, WeightAndStep
<1>4. CASE UNCHANGED vars
  BY <1>4 DEF vars, ClosedForm, WeightAndStep
<1> QED
  BY <1>1, <1>2, <1>3, <1>4 DEF Next

LEMMA SafeBuildStays == SafeBuild => []SafeBuild
<1>1. SafeBuild => SafeBuild'
  BY DEF SafeBuild, NoOverflow
<1> QED
  BY <1>1, PTL

(***************************************************************************)
(* In every build that does not wrap, acc is the digest ksentry_spec gives *)
(* the stream, weight and step are the powers of q that the header of      *)
(* ksentry.rs says, after any stream.                                      *)
(***************************************************************************)
THEOREM DigestIsSpec == SafeBuild /\ Spec => []ClosedForm
<1>1. Init => ClosedForm
  <2>1. Init => IsStateAfter(ks, xs)
    BY NewIsEmpty DEF Init
  <2> QED
    BY <2>1, ClosedFormIsState
<1>2. SafeBuild /\ TypeOK /\ ClosedForm /\ [Next]_vars => ClosedForm'
  BY ClosedFormInductive
<1> QED
  BY <1>1, <1>2, TypeCorrect, SafeBuildStays, PTL DEF Spec

THEOREM Lockstep == SafeBuild /\ Spec => []WeightAndStep
<1>1. ClosedForm => WeightAndStep
  BY DEF ClosedForm
<1> QED
  BY <1>1, DigestIsSpec, PTL

-----------------------------------------------------------------------------
(***************************************************************************)
(* A checkpoint stays true of the prefix it was taken of, and the struct   *)
(* it describes, fed the elements that came after it, is the present one.  *)
(* The last two hold in wrapping builds too, the digest does not.          *)
(***************************************************************************)
LEMMA CheckpointsKept ==
    ASSUME TypeOK, CheckpointsResume, NEW x \in Inputs, Update(x)
    PROVE  CheckpointsResume'
<1>1. /\ xs \in Seq(Nat) /\ x \in Nat /\ Len(xs) \in Nat
      /\ xs' = Append(xs, x) /\ ks' = update(ks, x) /\ ckpts' = ckpts
  BY TypedState, KSentryAssumption, LenProperties DEF Update
<1> SUFFICES ASSUME NEW c \in ckpts
             PROVE  /\ c.end_seq <= Len(xs')
                    /\ c.digest = ksentry_spec(SubSeq(xs', 1, c.end_seq))
                    /\ updated(StateOf(c), SubSeq(xs', c.end_seq + 1, Len(xs'))) = ks'
  BY <1>1 DEF CheckpointsResume, After
<1> DEFINE e == c.end_seq
           ys == Append(xs, x)
           n == Len(xs)
<1>2. /\ e \in Nat /\ e <= n /\ n \in Nat
      /\ c.digest = ksentry_spec(SubSeq(xs, 1, e))
      /\ updated(StateOf(c), SubSeq(xs, e + 1, n)) = ks
  BY <1>1, KSentryAssumption DEF CheckpointsResume, After, TypeOK
<1>3. /\ ys \in Seq(Nat) /\ Len(ys) = n + 1 /\ ys[n + 1] = x
      /\ \A i \in 1 .. n : ys[i] = xs[i]
  BY <1>1, AppendProperties
<1>4. StateOf(c) \in Struct
  BY KSentryAssumption DEF StateOf, Struct, TypeOK
<1>5. /\ SubSeq(ys, 1, e) = SubSeq(xs, 1, e)
      /\ SubSeq(ys, e + 1, n + 1) = Append(SubSeq(xs, e + 1, n), x)
      /\ SubSeq(xs, e + 1, n) \in Seq(Nat)
  <2>1. PICK m \in 0 .. Len(xs) : m = e
    BY <1>2
  <2>2. /\ SubSeq(Append(xs, x), 1, m) = SubSeq(xs, 1, m)
        /\ SubSeq(Append(xs, x), m + 1, Len(xs) + 1)
               = Append(SubSeq(xs, m + 1, Len(xs)), x)
        /\ SubSeq(xs, m + 1, Len(xs)) \in Seq(Nat)
    <3>1. xs \in Seq(Nat) /\ x \in Nat
      BY <1>1
    <3> QED
      BY <3>1, SubSeqOfAppend, ZenonT(90)
  <2> QED
    BY <2>1, <2>2
<1> HIDE DEF e, n, ys
<1>6. updated(StateOf(c), SubSeq(ys, e + 1, n + 1)) = update(ks, x)
  <2> DEFINE us == SubSeq(xs, e + 1, n)
  <2>1. us \in Seq(Nat) /\ updated(StateOf(c), us) = ks
    BY <1>2, <1>5
  <2> HIDE DEF us
  <2>2. updated(StateOf(c), Append(us, x)) = update(updated(StateOf(c), us), x)
    BY <1>1, <1>4, <2>1, UpdatedAppend
  <2> QED
    BY <1>5, <2>1, <2>2 DEF us
<1>7. xs' = ys /\ Len(xs') = n + 1 /\ e <= n + 1
  BY <1>1, <1>2, <1>3 DEF ys
<1>8. /\ e <= Len(xs')
      /\ c.digest = ksentry_spec(SubSeq(xs', 1, e))
      /\ updated(StateOf(c), SubSeq(xs', e + 1, Len(xs'))) = ks'
  BY <1>1, <1>2, <1>5, <1>6, <1>7
<1> QED
  BY <1>8 DEF e

LEMMA CheckpointTaken ==
    ASSUME TypeOK, ClosedForm, CheckpointsResume, Checkpoint
    PROVE  CheckpointsResume'
<1> DEFINE k == checkpoint(ks)
<1>1. /\ xs \in Seq(Nat) /\ ks \in Struct /\ Len(xs) \in Nat
      /\ xs' = xs /\ ks' = ks /\ ckpts' = ckpts \cup {k}
  BY TypedState, LenProperties DEF Checkpoint
<1>2. /\ k.end_seq = Len(xs)
      /\ k.digest = ksentry_spec(xs)
      /\ StateOf(k) = ks
  BY <1>1 DEF checkpoint, StateOf, ClosedForm, WeightAndStep, Struct
<1>3. SubSeq(xs, 1, Len(xs)) = xs
  BY <1>1, SubSeqFull
<1>4. SubSeq(xs, Len(xs) + 1, Len(xs)) = << >>
  BY <1>1, SubSeqEmpty
<1>5. updated(ks, << >>) = ks
  BY <1>1, UpdatedEmpty
<1> HIDE DEF k
<1> SUFFICES ASSUME NEW c \in ckpts'
             PROVE  /\ c.end_seq <= Len(xs)
                    /\ c.digest = ksentry_spec(SubSeq(xs, 1, c.end_seq))
                    /\ updated(StateOf(c), SubSeq(xs, c.end_seq + 1, Len(xs))) = ks
  BY <1>1 DEF CheckpointsResume, After
<1>6. CASE c \in ckpts
  BY <1>6 DEF CheckpointsResume, After
<1>7. CASE c = k
  <2>1. c.end_seq = Len(xs) /\ c.end_seq <= Len(xs)
    BY <1>1, <1>2, <1>7
  <2>2. c.digest = ksentry_spec(xs) /\ StateOf(c) = ks
    BY <1>2, <1>7
  <2> QED
    BY <1>3, <1>4, <1>5, <2>1, <2>2
<1> QED
  BY <1>1, <1>6, <1>7

THEOREM Resumable == SafeBuild /\ Spec => []CheckpointsResume
<1>1. Init => CheckpointsResume
  BY DEF Init, CheckpointsResume
<1>2. TypeOK /\ ClosedForm /\ CheckpointsResume /\ [Next]_vars
          => CheckpointsResume'
  <2> SUFFICES ASSUME TypeOK, ClosedForm, CheckpointsResume, [Next]_vars
               PROVE  CheckpointsResume'
    OBVIOUS
  <2>1. ASSUME NEW x \in Inputs, Update(x) PROVE CheckpointsResume'
    BY <2>1, CheckpointsKept
  <2>2. ASSUME NEW x \in Inputs, UpdatePanics(x) PROVE CheckpointsResume'
    BY <2>2 DEF UpdatePanics, CheckpointsResume, After
  <2>3. CASE Checkpoint
    BY <2>3, CheckpointTaken
  <2>4. CASE UNCHANGED vars
    BY <2>4 DEF vars, CheckpointsResume, After
  <2> QED
    BY <2>1, <2>2, <2>3, <2>4 DEF Next
<1> QED
  BY <1>1, <1>2, TypeCorrect, DigestIsSpec, PTL DEF Spec

-----------------------------------------------------------------------------
(***************************************************************************)
(* The parameters the code is run with: a prime modulus whose products fit *)
(* the word, and a base that is not a multiple of it.                      *)
(***************************************************************************)
PrimeParams == NoOverflow /\ IsPrime /\ Q % P # 0

LEMMA PrimeParamsStay == PrimeParams => []PrimeParams
<1>1. PrimeParams => PrimeParams'
  BY DEF PrimeParams, NoOverflow, IsPrime
<1> QED
  BY <1>1, PTL

(***************************************************************************)
(* Then the digest tells one changed element exactly when its residue has  *)
(* changed, in a stream of any length,                                     *)
(***************************************************************************)
THEOREM EditsSeen == PrimeParams /\ Spec => []EditSeenExactly
<1>1. ASSUME PrimeParams, TypeOK, ClosedForm PROVE EditSeenExactly
  <2> SUFFICES ASSUME NEW i \in 1 .. Len(xs), NEW y \in Inputs
               PROVE  (ksentry_fast([xs EXCEPT ![i] = y]).acc # ks.acc)
                          <=> (xs[i] % P # y % P)
    BY DEF EditSeenExactly
  <2> DEFINE ys == [xs EXCEPT ![i] = y]
  <2>1. xs \in Seq(Nat) /\ y \in Nat
    BY <1>1, TypedState, KSentryAssumption
  <2>2. /\ ys \in Seq(Nat) /\ Len(ys) = Len(xs) /\ ys[i] = y
        /\ \A n \in 1 .. Len(xs) : n # i => xs[n] % P = ys[n] % P
    BY <2>1, ExceptSeq
  <2> HIDE DEF ys
  <2>3. ksentry_fast(ys).acc = ksentry_spec(ys) /\ ks.acc = ksentry_spec(xs)
    BY <1>1, <2>2, FastIsSpec DEF PrimeParams, IsStateAfter, ClosedForm
  <2>4. ksentry_spec(xs) = ksentry_spec(ys) <=> xs[i] % P = ys[i] % P
    BY <1>1, <2>1, <2>2, EditSpec DEF PrimeParams
  <2> QED
    BY <2>2, <2>3, <2>4 DEF ys
<1>2. SafeBuild <=> (NoOverflow \/ OverflowChecks)
  BY DEF SafeBuild
<1>3. PrimeParams => SafeBuild
  BY <1>2 DEF PrimeParams
<1> QED
  BY <1>1, <1>3, TypeCorrect, DigestIsSpec, PrimeParamsStay, PTL

(***************************************************************************)
(* and an exchange of neighbours exactly when their residues differ and    *)
(* the order of q does not divide the position.                            *)
(***************************************************************************)
THEOREM SwapsSeen == PrimeParams /\ Spec => []SwapSeenExactly
<1>1. ASSUME PrimeParams, TypeOK, ClosedForm PROVE SwapSeenExactly
  <2> SUFFICES ASSUME NEW i \in 1 .. (Len(xs) - 1)
               PROVE  (ksentry_fast(Exchanged(i)).acc # ks.acc)
                          <=> (xs[i] % P # xs[i + 1] % P /\ Pow[i] # 1)
    BY DEF SwapSeenExactly
  <2> DEFINE ys == Exchanged(i)
  <2>1. xs \in Seq(Nat) /\ Len(xs) \in Nat
    BY <1>1, TypedState, LenProperties
  <2>2. /\ ys \in Seq(Nat) /\ Len(ys) = Len(xs)
        /\ ys[i] = xs[i + 1] /\ ys[i + 1] = xs[i]
        /\ \A n \in 1 .. Len(xs) : n # i /\ n # i + 1 => xs[n] = ys[n]
    <3> DEFINE zs == [xs EXCEPT ![i] = xs[i + 1]]
    <3>1. /\ i \in 1 .. Len(xs) /\ i + 1 \in 1 .. Len(xs)
          /\ xs[i] \in Nat /\ xs[i + 1] \in Nat
      BY <2>1, LenProperties
    <3>2. zs \in Seq(Nat) /\ Len(zs) = Len(xs)
      BY <2>1, <3>1, ExceptSeq
    <3>3. /\ zs[i] = xs[i + 1]
          /\ \A n \in 1 .. Len(xs) : n # i => zs[n] = xs[n]
      BY <2>1, <3>1, ExceptSeq
    <3>4. ys = [zs EXCEPT ![i + 1] = xs[i]]
      BY DEF Exchanged
    <3> HIDE DEF zs, ys
    <3>5. ys \in Seq(Nat) /\ Len(ys) = Len(zs)
      BY <3>1, <3>2, <3>4, ExceptSeq
    <3>6. /\ ys[i + 1] = xs[i]
          /\ \A n \in 1 .. Len(xs) : n # i + 1 => ys[n] = zs[n]
      BY <3>1, <3>2, <3>4, ExceptSeq
    <3> QED
      BY <3>1, <3>2, <3>3, <3>5, <3>6
  <2> HIDE DEF ys
  <2>3. ksentry_fast(ys).acc = ksentry_spec(ys) /\ ks.acc = ksentry_spec(xs)
    BY <1>1, <2>2, FastIsSpec DEF PrimeParams, IsStateAfter, ClosedForm
  <2>4. ksentry_spec(xs) = ksentry_spec(ys)
            <=> (xs[i] % P = xs[i + 1] % P \/ Pow[i] = 1)
    BY <1>1, <2>1, <2>2, SwapSpec DEF PrimeParams
  <2> QED
    BY <2>3, <2>4 DEF ys
<1>2. PrimeParams => SafeBuild
  BY DEF PrimeParams, SafeBuild
<1> QED
  BY <1>1, <1>2, TypeCorrect, DigestIsSpec, PrimeParamsStay, PTL

-----------------------------------------------------------------------------
(***************************************************************************)
(* Where the parameters fit the word, a build with overflow checks never   *)
(* panics, whatever is fed to it.                                          *)
(***************************************************************************)
THEOREM PanicFree == Spec => []NoPanic
<1>1. Init => NoPanic
  BY DEF Init, NoPanic
<1>2. TypeOK /\ NoPanic /\ [Next]_vars => NoPanic'
  <2> SUFFICES ASSUME TypeOK, NoPanic, [Next]_vars, NoOverflow
               PROVE  panicked' = FALSE
    BY DEF NoPanic, NoOverflow, TypeOK
  <2>1. panicked = FALSE
    BY DEF NoPanic, TypeOK
  <2>2. ASSUME NEW x \in Inputs, UpdatePanics(x) PROVE FALSE
    <3>1. ks \in Struct /\ x \in Nat
      BY KSentryAssumption DEF TypeOK, Struct
    <3> QED
      BY <2>2, <3>1, UpdateNeverOverflows DEF UpdatePanics
  <2>3. ASSUME NEW x \in Inputs, Update(x) PROVE panicked' = FALSE
    BY <2>1, <2>3 DEF Update
  <2>4. CASE Checkpoint
    BY <2>1, <2>4 DEF Checkpoint
  <2>5. CASE UNCHANGED vars
    BY <2>1, <2>5 DEF vars
  <2> QED
    BY <2>2, <2>3, <2>4, <2>5 DEF Next
<1> QED
  BY <1>1, <1>2, TypeCorrect, PTL DEF Spec

-----------------------------------------------------------------------------
(***************************************************************************)
(* The O(1) accumulator implements the specification that recomputes every *)
(* power: its digest is the sum of x_i q^(T_i) mod p after any stream of   *)
(* any length, in every build that does not wrap.                          *)
(***************************************************************************)
THEOREM Refinement == SafeBuild /\ Spec => ImplementsSpec
<1>1. Init => Abs!Init
  BY DEF Init, Abs!Init, new
<1>2. SafeBuild /\ TypeOK /\ WeightAndStep /\ [Next]_vars => [Abs!Next]_(Abs!vars)
  <2> SUFFICES ASSUME SafeBuild, TypeOK, WeightAndStep, [Next]_vars
               PROVE  [Abs!Next]_(Abs!vars)
    OBVIOUS
  <2>1. ASSUME NEW x \in Inputs, Update(x) PROVE Abs!Next
    <3>1. ks \in Struct /\ x \in Nat
      BY KSentryAssumption DEF TypeOK, Struct
    <3>2. ~ UpdateOverflows(ks, x)
      BY <3>1, UpdateNeverOverflows, <2>1 DEF SafeBuild, Update
    <3>3. ks'.acc = (ks.acc + (x % P) * Pow[triangular_exp(Len(xs))]) % P
      BY <2>1, <3>1, <3>2, UpdateExact DEF Update, WeightAndStep
    <3>4. Len(xs) < MaxLen /\ xs' = Append(xs, x)
      BY <2>1 DEF Update, WeightAndStep
    <3>5. Abs!Pow = Pow /\ Abs!triangular_exp(Len(xs)) = triangular_exp(Len(xs))
      BY DEF Abs!Pow, Pow, Abs!triangular_exp, triangular_exp
    <3>6. Abs!Ingest(x)
      BY <3>3, <3>4, <3>5 DEF Abs!Ingest
    <3> QED
      BY <3>6 DEF Abs!Next
  <2>2. ASSUME NEW x \in Inputs, UpdatePanics(x) PROVE UNCHANGED Abs!vars
    BY <2>2 DEF UpdatePanics, Abs!vars
  <2>3. CASE Checkpoint
    BY <2>3 DEF Checkpoint, Abs!vars
  <2>4. CASE UNCHANGED vars
    BY <2>4 DEF vars, Abs!vars
  <2> QED
    BY <2>1, <2>2, <2>3, <2>4 DEF Next
<1> QED
  BY <1>1, <1>2, SafeBuildStays, TypeCorrect, Lockstep, PTL
     DEF Spec, Abs!Spec, ImplementsSpec

-----------------------------------------------------------------------------
(***************************************************************************)
(* The loop of mod_pow: what its recursive function is, and what the       *)
(* variables of the loop hold.                                             *)
(***************************************************************************)
PowState == [base : Field, exp : Nat, result : Field, panics : BOOLEAN]

IsPowRun(f, exp) ==
    /\ f \in [0 .. exp -> PowState]
    /\ f[0] = PowStart(Q, exp)
    /\ \A k \in 1 .. exp : f[k] = PowTurn(f[k - 1])

LEMMA PowTurnTyped ==
    ASSUME NEW t \in PowState
    PROVE  PowTurn(t) \in PowState
<1>1. t.base \in Nat /\ t.result \in Nat /\ t.exp \in Nat
  BY FieldIsNat DEF PowState
<1>2. mod_mul(t.base, t.base, P) \in Field /\ mod_mul(t.result, t.base, P) \in Field
  BY <1>1, HelpersInField
<1>3. t.exp \div 2 \in Nat
  BY <1>1
<1> QED
  BY <1>2, <1>3 DEF PowTurn, PowState

LEMMA PowStartTyped ==
    ASSUME NEW e \in Nat
    PROVE  PowStart(Q, e) \in PowState
<1>1. Q % P \in Field /\ 1 \in Field
  BY ResidueInField, ParamAssumption, BaseAssumption DEF Field
<1> QED
  BY <1>1 DEF PowStart, PowState

LEMMA PowRunExists ==
    ASSUME NEW e \in Nat
    PROVE  \E f : IsPowRun(f, e) /\ PowEnd(Q, e) = f[e]
<1> DEFINE S == PowStart(Q, e)
           G == [k \in 1 .. e |-> [t \in PowState |-> PowTurn(t)]]
           Fix(f) == f = [k \in 0 .. e |-> IF k = 0 THEN PowStart(Q, e)
                                           ELSE PowTurn(f[k - 1])]
           D == CHOOSE f : Fix(f)
<1>1. S \in PowState /\ G \in [1 .. e -> [PowState -> PowState]]
  BY PowStartTyped, PowTurnTyped
<1>2. PICK f \in [0 .. e -> PowState] : IsLoop(f, e, S, G)
  BY <1>1, LoopExists
<1>3. ASSUME NEW k \in 1 .. e PROVE f[k] = PowTurn(f[k - 1])
  <2>1. k - 1 \in 0 .. e
    OBVIOUS
  <2>2. f[k - 1] \in PowState /\ f[k] = G[k][f[k - 1]]
    BY <1>2, <2>1 DEF IsLoop
  <2> QED
    BY <2>2
<1>4. f[0] = S
  BY <1>2 DEF IsLoop
<1>5. Fix(f)
  BY <1>2, <1>3, <1>4
<1>6. Fix(D)
  BY <1>5
<1>7. PowEnd(Q, e) = D[e]
  BY DEF PowEnd
<1> HIDE DEF D
<1>8. D[0] = S /\ \A k \in 1 .. e : D[k] = PowTurn(D[k - 1])
  <2> DEFINE Body(k) == IF k = 0 THEN PowStart(Q, e) ELSE PowTurn(D[k - 1])
  <2>1. D = [k \in 0 .. e |-> Body(k)]
    BY <1>6
  <2> HIDE DEF Body
  <2>2. \A k \in 0 .. e : D[k] = Body(k)
    BY <2>1
  <2>3. \A k \in 1 .. e : k \in 0 .. e /\ k # 0
    OBVIOUS
  <2> QED
    BY <2>2, <2>3 DEF Body
<1>9. IsOver(D, e) /\ IsOver(f, e)
  BY <1>2, <1>6 DEF IsOver
<1>10. D = f
  <2> HIDE DEF S, G, Fix
  <2> QED
    BY <1>3, <1>4, <1>8, <1>9, LoopUnique
<1> QED
  BY <1>2, <1>3, <1>4, <1>7, <1>10 DEF IsPowRun

(***************************************************************************)
(* In every turn base is a power q^m, result a power q^r, and r + m exp is *)
(* the exponent asked for: what is left to multiply is known from the bits *)
(* that are left.                                                          *)
(***************************************************************************)
Reads(t, e) ==
    \E m \in Nat, r \in Nat :
        t.base = Pow[m] /\ t.result = Pow[r] /\ r + m * t.exp = e

LEMMA Halves ==
    ASSUME NEW e \in Nat
    PROVE  e \div 2 \in Nat /\ e % 2 \in {0, 1} /\ e = 2 * (e \div 2) + (e % 2)
  OBVIOUS

LEMMA PowTurnExact ==
    ASSUME NEW t \in PowState, NEW e \in Nat, Reads(t, e), ~ PowTurn(t).panics
    PROVE  Reads(PowTurn(t), e) /\ ~ t.panics
<1>1. CASE t.exp = 0
  BY <1>1 DEF PowTurn
<1>2. CASE t.exp # 0
  <2> DEFINE u == PowTurn(t)
             h == t.exp \div 2
  <2>1. /\ t.base \in Field /\ t.result \in Field /\ t.exp \in Nat
        /\ t.panics \in BOOLEAN
    BY DEF PowState
  <2>2. /\ u.base = mod_mul(t.base, t.base, P) /\ u.exp = h
        /\ u.result = IF t.exp % 2 = 1 THEN mod_mul(t.result, t.base, P)
                      ELSE t.result
        /\ ~ t.panics /\ ~ MulOverflows(t.base, t.base, P)
        /\ t.exp % 2 = 1 => ~ MulOverflows(t.result, t.base, P)
    BY <1>2 DEF PowTurn
  <2>3. PICK m \in Nat, r \in Nat :
            t.base = Pow[m] /\ t.result = Pow[r] /\ r + m * t.exp = e
    BY DEF Reads
  <2>4. u.base = Pow[m + m]
    <3>1. u.base = (t.base * t.base) % P
      BY <2>1, <2>2, MulExact
    <3> QED
      BY <2>3, <3>1, PowAdd
  <2>5. h \in Nat /\ t.exp % 2 \in {0, 1} /\ t.exp = 2 * h + (t.exp % 2)
    BY <2>1, Halves
  <2>6. CASE t.exp % 2 = 1
    <3>1. u.result = Pow[r + m]
      <4>1. u.result = mod_mul(t.result, t.base, P)
            /\ ~ MulOverflows(t.result, t.base, P)
        BY <2>2, <2>6
      <4>2. u.result = (t.result * t.base) % P
        BY <2>1, <4>1, MulExact
      <4> QED
        BY <2>3, <4>2, PowAdd
    <3>2. (r + m) + (m + m) * h = e
      BY <2>3, <2>5, <2>6
    <3>3. r + m \in Nat /\ m + m \in Nat
      OBVIOUS
    <3> QED
      BY <2>2, <2>4, <3>1, <3>2, <3>3 DEF Reads
  <2>7. CASE t.exp % 2 = 0
    <3>1. u.result = Pow[r]
      BY <2>2, <2>3, <2>7
    <3>2. r + (m + m) * h = e
      BY <2>3, <2>5, <2>7
    <3>3. m + m \in Nat
      OBVIOUS
    <3> QED
      BY <2>2, <2>4, <3>1, <3>2, <3>3 DEF Reads
  <2> QED
    BY <2>5, <2>6, <2>7
<1> QED
  BY <1>1, <1>2

(***************************************************************************)
(* mod_pow returns the power, unless some product left the word.           *)
(***************************************************************************)
LEMMA PowLoopExact ==
    ASSUME NEW e \in Nat
    PROVE  /\ mod_pow(Q, e).value \in Field /\ mod_pow(Q, e).panics \in BOOLEAN
           /\ ~ mod_pow(Q, e).panics => mod_pow(Q, e).value = Pow[e]
<1>1. PICK f : IsPowRun(f, e) /\ PowEnd(Q, e) = f[e]
  BY PowRunExists
<1>2. /\ \A k \in 0 .. e : f[k] \in PowState
      /\ f[0] = PowStart(Q, e) /\ \A k \in 1 .. e : f[k] = PowTurn(f[k - 1])
  BY <1>1 DEF IsPowRun
<1>3. mod_pow(Q, e).value = f[e].result /\ mod_pow(Q, e).panics = f[e].panics
  BY <1>1 DEF mod_pow
<1> DEFINE Left(k) == f[k].exp = 0 \/ f[k].exp + k <= e
           B == {k \in Nat : k <= e => Left(k)}
<1>4. 0 \in B
  BY <1>2 DEF PowStart
<1>5. ASSUME NEW k \in Nat, k \in B PROVE k + 1 \in B
  <2>1. SUFFICES ASSUME k + 1 <= e PROVE Left(k + 1)
    OBVIOUS
  <2>2. /\ k \in 0 .. e /\ k + 1 \in 1 .. e /\ (k + 1) - 1 = k /\ Left(k)
    BY <1>5, <2>1
  <2>3. f[k + 1] = PowTurn(f[k]) /\ f[k] \in PowState
    BY <1>2, <2>2
  <2>4. f[k].exp \in Nat
    BY <2>3 DEF PowState
  <2>5. f[k].exp # 0 => f[k + 1].exp = f[k].exp \div 2
    BY <2>3 DEF PowTurn
  <2>6. f[k].exp = 0 => f[k + 1].exp = 0
    BY <2>3 DEF PowTurn
  <2>7. f[k].exp # 0 => f[k].exp \div 2 <= f[k].exp - 1
    BY <2>4
  <2> QED
    BY <2>2, <2>4, <2>5, <2>6, <2>7
<1> HIDE DEF B
<1>6. e \in B
  BY <1>4, <1>5, SetInduction
<1>7. f[e].exp = 0
  <2>1. f[e] \in PowState /\ Left(e)
    BY <1>2, <1>6 DEF B
  <2>2. f[e].exp \in Nat
    BY <2>1 DEF PowState
  <2> QED
    BY <2>1, <2>2
<1> DEFINE C == {k \in Nat : k <= e => (f[k].panics \/ Reads(f[k], e))}
<1>8. 0 \in C
  <2>1. Q % P = Pow[1] /\ Pow[0] = 1
    <3>1. Pow[0 + 1] = (Pow[0] * (Q % P)) % P /\ Pow[0] = 1
      BY PowStep
    <3>2. Q % P \in 0 .. (P - 1) /\ 1 * (Q % P) = Q % P
      BY DivMod, ParamAssumption, BaseAssumption
    <3> QED
      BY <3>1, <3>2, ModSmall
  <2>2. f[0].base = Pow[1] /\ f[0].result = Pow[0] /\ 0 + 1 * f[0].exp = e
    BY <1>2, <2>1 DEF PowStart
  <2> QED
    BY <2>2 DEF Reads
<1>9. ASSUME NEW k \in Nat, k \in C PROVE k + 1 \in C
  <2>1. SUFFICES ASSUME k + 1 <= e, ~ f[k + 1].panics PROVE Reads(f[k + 1], e)
    OBVIOUS
  <2>2. k \in 0 .. e /\ k + 1 \in 1 .. e /\ (k + 1) - 1 = k
    BY <2>1
  <2>3. f[k + 1] = PowTurn(f[k]) /\ f[k] \in PowState
    BY <1>2, <2>2
  <2>4. f[k].panics => PowTurn(f[k]).panics
    BY DEF PowTurn
  <2>5. Reads(f[k], e)
    BY <1>9, <2>1, <2>2, <2>3, <2>4
  <2> QED
    BY <2>1, <2>3, <2>5, PowTurnExact
<1> HIDE DEF C
<1>10. e \in C
  BY <1>8, <1>9, SetInduction
<1>11. ~ f[e].panics => f[e].result = Pow[e]
  <2>1. SUFFICES ASSUME ~ f[e].panics PROVE f[e].result = Pow[e]
    OBVIOUS
  <2>2. PICK m \in Nat, r \in Nat : f[e].result = Pow[r] /\ r + m * f[e].exp = e
    BY <1>10, <2>1 DEF C, Reads
  <2>3. r = e
    BY <1>7, <2>2
  <2> QED
    BY <2>2, <2>3
<1>12. f[e].result \in Field /\ f[e].panics \in BOOLEAN
  BY <1>2 DEF PowState
<1> QED
  BY <1>3, <1>11, <1>12

LEMMA PowNeverPanics ==
    ASSUME NEW e \in Nat, NoOverflow
    PROVE  ~ mod_pow(Q, e).panics
<1>1. PICK f : IsPowRun(f, e) /\ PowEnd(Q, e) = f[e]
  BY PowRunExists
<1>2. /\ \A k \in 0 .. e : f[k] \in PowState
      /\ f[0] = PowStart(Q, e) /\ \A k \in 1 .. e : f[k] = PowTurn(f[k - 1])
  BY <1>1 DEF IsPowRun
<1> DEFINE B == {k \in Nat : k <= e => ~ f[k].panics}
<1>3. 0 \in B
  BY <1>2 DEF PowStart
<1>4. ASSUME NEW k \in Nat, k \in B PROVE k + 1 \in B
  <2>1. SUFFICES ASSUME k + 1 <= e PROVE ~ f[k + 1].panics
    OBVIOUS
  <2>2. k \in 0 .. e /\ k + 1 \in 1 .. e /\ (k + 1) - 1 = k /\ ~ f[k].panics
    BY <1>4, <2>1
  <2>3. f[k + 1] = PowTurn(f[k]) /\ f[k] \in PowState
    BY <1>2, <2>2
  <2>4. f[k].base \in Field /\ f[k].result \in Field
    BY <2>3 DEF PowState
  <2>5. /\ ~ MulOverflows(f[k].base, f[k].base, P)
        /\ ~ MulOverflows(f[k].result, f[k].base, P)
    BY <2>4, NoHelperOverflows
  <2> QED
    BY <2>2, <2>3, <2>5 DEF PowTurn
<1> HIDE DEF B
<1>5. e \in B
  BY <1>3, <1>4, SetInduction
<1> QED
  BY <1>1, <1>5 DEF B, mod_pow

-----------------------------------------------------------------------------
(***************************************************************************)
(* All the digests here are sums of elements weighed with powers of q;     *)
(* they differ in the weights.  f[n] is the sum of the first n terms.      *)
(***************************************************************************)
IsWeighed(f, xvs, w) ==
    /\ f \in [0 .. Len(xvs) -> Field]
    /\ f[0] = 0
    /\ \A n \in 1 .. Len(xvs) :
          w[n] \in Nat /\ f[n] = (f[n - 1] + (xvs[n] % P) * w[n]) % P

(***************************************************************************)
(* A sum over a stream is the sum over what comes before a chunk and the   *)
(* sum over the chunk, each element with the weight of its place in the    *)
(* stream.                                                                 *)
(***************************************************************************)
Sum3(a, b, t) == (((a + b) % P) + t) % P = (a + ((b + t) % P)) % P

LEMMA SumRegroups ==
    ASSUME NEW a \in Int, NEW b \in Int, NEW t \in Int
    PROVE  Sum3(a, b, t)
<1>1. (((a + b) % P) + t) % P = ((a + b) + t) % P
  BY ModPlus, a + b \in Int
<1>2. (((b + t) % P) + a) % P = ((b + t) + a) % P
  BY ModPlus, b + t \in Int
<1>3. (b + t) % P \in Int
  BY b + t \in Int, DivMod
<1>4. (a + b) + t = (b + t) + a /\ ((b + t) % P) + a = a + ((b + t) % P)
  BY <1>3
<1> QED
  BY <1>1, <1>2, <1>4 DEF Sum3

Beginning(k, xvs, w, yvs, v) ==
    \A n \in 1 .. k : xvs[n] = yvs[n] /\ w[n] = v[n]

LEMMA WeighedAgree ==
    ASSUME NEW xvs \in Seq(Nat), NEW yvs \in Seq(Nat), NEW w, NEW v,
           NEW f, IsWeighed(f, xvs, w), NEW g, IsWeighed(g, yvs, v),
           NEW s \in Nat, s <= Len(xvs), s <= Len(yvs),
           Beginning(s, xvs, w, yvs, v)
    PROVE  f[s] = g[s]
<1> DEFINE B == {k \in Nat : k <= s => f[k] = g[k]}
<1>1. 0 \in B
  BY DEF IsWeighed
<1>2. ASSUME NEW k \in Nat, k \in B PROVE k + 1 \in B
  <2>1. SUFFICES ASSUME k + 1 <= s PROVE f[k + 1] = g[k + 1]
    OBVIOUS
  <2>2. /\ k + 1 \in 1 .. Len(xvs) /\ k + 1 \in 1 .. Len(yvs)
        /\ k + 1 \in 1 .. s /\ (k + 1) - 1 = k /\ f[k] = g[k]
    BY <1>2, <2>1, LenProperties
  <2>3. /\ f[k + 1] = (f[k] + (xvs[k + 1] % P) * w[k + 1]) % P
        /\ g[k + 1] = (g[k] + (yvs[k + 1] % P) * v[k + 1]) % P
    BY <2>2 DEF IsWeighed
  <2>4. xvs[k + 1] = yvs[k + 1] /\ w[k + 1] = v[k + 1]
    BY <2>2 DEF Beginning
  <2> QED
    BY <2>2, <2>3, <2>4
<1> HIDE DEF B
<1>3. s \in B
  BY <1>1, <1>2, SetInduction
<1> QED
  BY <1>3 DEF B

Rest(s, xvs, w, zvs, u) ==
    /\ Len(xvs) = s + Len(zvs)
    /\ \A n \in 1 .. Len(zvs) : zvs[n] = xvs[s + n] /\ u[n] = w[s + n]

AddsUp(f, g, h, i, j, k) == f[i] = (g[j] + h[k]) % P

LEMMA WeighedSplit ==
    ASSUME NEW xvs \in Seq(Nat), NEW yvs \in Seq(Nat), NEW zvs \in Seq(Nat),
           NEW w, NEW v, NEW u,
           NEW f, IsWeighed(f, xvs, w), NEW g, IsWeighed(g, yvs, v),
           NEW h, IsWeighed(h, zvs, u),
           Beginning(Len(yvs), xvs, w, yvs, v), Rest(Len(yvs), xvs, w, zvs, u)
    PROVE  AddsUp(f, g, h, Len(xvs), Len(yvs), Len(zvs))
<1> DEFINE s == Len(yvs)
           m == Len(zvs)
<1>1. s \in Nat /\ m \in Nat /\ Len(xvs) = s + m /\ s <= Len(xvs)
  BY LenProperties DEF Rest
<1>2. f[s] = g[s]
  BY <1>1, WeighedAgree
<1>3. g[s] \in Field /\ g[s] \in Int
  <2>1. s \in 0 .. Len(yvs) /\ g \in [0 .. Len(yvs) -> Field]
    BY <1>1 DEF IsWeighed
  <2>2. g[s] \in Field
    BY <2>1
  <2>3. g[s] \in Nat
    BY <2>2, FieldIsNat
  <2> QED
    BY <2>2, <2>3
<1> DEFINE B == {k \in Nat : k <= m => f[s + k] = (g[s] + h[k]) % P}
<1>4. 0 \in B
  <2>1. h[0] = 0 /\ g[s] + 0 = g[s] /\ s + 0 = s
    BY <1>1, <1>3 DEF IsWeighed
  <2>2. g[s] % P = g[s]
    BY <1>3, ModSmall DEF Field
  <2> QED
    BY <1>2, <2>1, <2>2
<1>5. ASSUME NEW k \in Nat, k \in B PROVE k + 1 \in B
  <2>1. SUFFICES ASSUME k + 1 <= m PROVE f[s + (k + 1)] = (g[s] + h[k + 1]) % P
    OBVIOUS
  <2>2. /\ k + 1 \in 1 .. m /\ (k + 1) - 1 = k /\ k \in 0 .. m
        /\ s + (k + 1) \in 1 .. Len(xvs) /\ (s + (k + 1)) - 1 = s + k
        /\ f[s + k] = (g[s] + h[k]) % P
    BY <1>1, <1>5, <2>1
  <2> DEFINE t == (zvs[k + 1] % P) * u[k + 1]
  <2>3. h[k + 1] = (h[k] + t) % P /\ u[k + 1] \in Nat /\ h[k] \in Field
    BY <2>2 DEF IsWeighed
  <2>4. f[s + (k + 1)] = (f[s + k] + t) % P
    <3>1. zvs[k + 1] = xvs[s + (k + 1)] /\ u[k + 1] = w[s + (k + 1)]
      BY <2>2 DEF Rest
    <3> QED
      BY <2>2, <3>1 DEF IsWeighed
  <2>5. t \in Int /\ h[k] \in Int
    <3>1. zvs[k + 1] \in Int
      BY <2>2, LenProperties
    <3>2. zvs[k + 1] % P \in Field
      BY <3>1, ResidueInField, Zenon
    <3>3. zvs[k + 1] % P \in Nat /\ h[k] \in Nat
      BY <2>3, <3>2, FieldIsNat
    <3> QED
      BY <2>3, <3>3
  <2> HIDE DEF t, s
  <2>6. Sum3(g[s], h[k], t)
    BY <1>3, <2>5, SumRegroups
  <2> QED
    BY <2>2, <2>3, <2>4, <2>6 DEF Sum3
<1> HIDE DEF B
<1>6. m \in B
  BY <1>1, <1>4, <1>5, SetInduction
<1> QED
  BY <1>1, <1>6 DEF B, AddsUp

(***************************************************************************)
(* Multiplying every weight by a scalar multiplies the sum by it.          *)
(***************************************************************************)
ScaledTerm(h, a, b, c) ==
    (((h * c) % P) + a * ((b * c) % P)) % P = (((h + a * b) % P) * c) % P

LEMMA ScaleDistributes ==
    ASSUME NEW h \in Int, NEW a \in Int, NEW b \in Int, NEW c \in Int
    PROVE  ScaledTerm(h, a, b, c)
<1> DEFINE hc == h * c
           bc == b * c
           r  == bc % P
           ab == a * b
<1>1. hc \in Int /\ bc \in Int /\ ab \in Int
  OBVIOUS
<1>2. r \in Int
  BY <1>1, DivMod
<1>3. ((hc % P) + a * r) % P = (hc + a * r) % P
  BY <1>1, <1>2, ModPlus
<1>4. (r * a) % P = (bc * a) % P
  BY <1>1, ModTimes
<1>5. (r * a + hc) % P = (bc * a + hc) % P
  <2>1. r * a \in Int /\ bc * a \in Int
    BY <1>1, <1>2
  <2> QED
    BY <1>1, <1>4, <2>1, ModAddBoth
<1>6. (((h + ab) % P) * c) % P = ((h + ab) * c) % P
  BY <1>1, ModTimes
<1>7. (h + ab) * c = bc * a + hc
  <2>1. (h + ab) * c = h * c + ab * c
    BY <1>1
  <2>2. ab * c = bc * a
    OBVIOUS
  <2>3. ab * c \in Int
    BY <1>1
  <2> QED
    BY <1>1, <2>1, <2>2, <2>3
<1>8. hc + a * r = r * a + hc
  BY <1>1, <1>2
<1> QED
  BY <1>3, <1>5, <1>6, <1>7, <1>8 DEF ScaledTerm

Scaled(n, w, v, c) == \A k \in 1 .. n : v[k] = (w[k] * c) % P

LEMMA WeighedScale ==
    ASSUME NEW xvs \in Seq(Nat), NEW w, NEW v, NEW c \in Nat,
           NEW f, IsWeighed(f, xvs, w), NEW g, IsWeighed(g, xvs, v),
           Scaled(Len(xvs), w, v, c)
    PROVE  g[Len(xvs)] = (f[Len(xvs)] * c) % P
<1> DEFINE m == Len(xvs)
           B == {k \in Nat : k <= m => g[k] = (f[k] * c) % P}
<1>1. m \in Nat
  BY LenProperties
<1>2. 0 \in B
  <2>1. f[0] = 0 /\ g[0] = 0 /\ 0 * c = 0
    BY DEF IsWeighed
  <2>2. 0 % P = 0
    BY ModSmall, ParamAssumption
  <2> QED
    BY <2>1, <2>2
<1>3. ASSUME NEW k \in Nat, k \in B PROVE k + 1 \in B
  <2>1. SUFFICES ASSUME k + 1 <= m PROVE g[k + 1] = (f[k + 1] * c) % P
    OBVIOUS
  <2>2. /\ k + 1 \in 1 .. m /\ (k + 1) - 1 = k /\ k \in 0 .. m
        /\ g[k] = (f[k] * c) % P
    BY <1>1, <1>3, <2>1
  <2> DEFINE a == xvs[k + 1] % P
  <2>3. /\ f[k + 1] = (f[k] + a * w[k + 1]) % P
        /\ g[k + 1] = (g[k] + a * v[k + 1]) % P
        /\ w[k + 1] \in Nat /\ f[k] \in Field
    BY <2>2 DEF IsWeighed
  <2>4. v[k + 1] = (w[k + 1] * c) % P
    BY <2>2 DEF Scaled
  <2>5. a \in Int /\ f[k] \in Int
    <3>1. xvs[k + 1] \in Int
      BY <2>2, LenProperties
    <3>2. a \in Field
      BY <3>1, ResidueInField, Zenon
    <3>3. a \in Nat /\ f[k] \in Nat
      BY <2>3, <3>2, FieldIsNat
    <3> QED
      BY <3>3
  <2> HIDE DEF a
  <2>6. ScaledTerm(f[k], a, w[k + 1], c)
    BY <2>3, <2>5, ScaleDistributes
  <2> QED
    BY <2>2, <2>3, <2>4, <2>6 DEF ScaledTerm
<1> HIDE DEF B
<1>4. m \in B
  BY <1>1, <1>2, <1>3, SetInduction
<1> QED
  BY <1>4 DEF B

-----------------------------------------------------------------------------
(***************************************************************************)
(* What an element that update has not reduced is multiplied to.           *)
(***************************************************************************)
LEMMA MulReduces ==
    ASSUME NEW x \in Nat, NEW b \in Field, ~ MulOverflows(x, b, P)
    PROVE  mod_mul(x, b, P) = ((x % P) * b) % P /\ mod_mul(x, b, P) \in Field
<1> DEFINE r == x % P
<1>1. r \in Field /\ r % P = r /\ b \in Nat
  <2>1. r \in Field
    BY ResidueInField
  <2> QED
    BY <2>1, ModSmall, FieldIsNat DEF Field
<1>2. MulOverflows(r, b, P) = MulOverflows(x, b, P)
  BY <1>1 DEF MulOverflows
<1>3. mod_mul(r, b, P) = mod_mul(x, b, P)
  BY <1>1 DEF mod_mul
<1> HIDE DEF r
<1>4. mod_mul(r, b, P) = (r * b) % P
  BY <1>1, <1>2, MulExact
<1>5. mod_mul(x, b, P) \in Field
  BY <1>1, HelpersInField
<1> QED
  BY <1>3, <1>4, <1>5 DEF r

(***************************************************************************)
(* A panic stops the program: where there is none at the end of a loop,    *)
(* there was none before.                                                  *)
(***************************************************************************)
LEMMA NoneBefore ==
    ASSUME NEW N \in Nat, NEW f,
           \A n \in 1 .. N : f[n - 1].panics => f[n].panics,
           ~ f[N].panics
    PROVE  \A n \in 0 .. N : ~ f[n].panics
<1> DEFINE B == {k \in Nat : k <= N => ~ f[N - k].panics}
<1>1. 0 \in B
  BY N - 0 = N
<1>2. ASSUME NEW k \in Nat, k \in B PROVE k + 1 \in B
  <2>1. SUFFICES ASSUME k + 1 <= N PROVE ~ f[N - (k + 1)].panics
    OBVIOUS
  <2>2. N - k \in 1 .. N /\ (N - k) - 1 = N - (k + 1) /\ ~ f[N - k].panics
    BY <1>2, <2>1
  <2> QED
    BY <2>2
<1> HIDE DEF B
<1>3. Nat \subseteq B
  BY <1>1, <1>2, SetInduction
<1>4. ASSUME NEW n \in 0 .. N PROVE ~ f[n].panics
  <2>1. N - n \in B /\ N - n <= N /\ N - (N - n) = n
    BY <1>3
  <2> QED
    BY <2>1 DEF B
<1> QED
  BY <1>4

-----------------------------------------------------------------------------
(***************************************************************************)
(* The loop of rolling_hash.                                               *)
(***************************************************************************)
RollState == [n : Nat, acc : Field, weight : Field, panics : BOOLEAN]

IsRollRun(f, xvs) ==
    /\ f \in [0 .. Len(xvs) -> RollState]
    /\ f[0] = rolling_new
    /\ \A n \in 1 .. Len(xvs) : f[n] = rolling_update(f[n - 1], xvs[n])

LEMMA RollUpdateTyped ==
    ASSUME NEW t \in RollState, NEW x \in Nat
    PROVE  rolling_update(t, x) \in RollState
<1>1. t.acc \in Nat /\ t.weight \in Nat /\ t.n \in Nat /\ t.panics \in BOOLEAN
  BY FieldIsNat DEF RollState
<1>2. x % P \in Nat /\ Q % P \in Nat
  BY ResidueInField, FieldIsNat, ParamAssumption, BaseAssumption
<1>3. mod_mul(x % P, t.weight, P) \in Nat
  BY <1>1, <1>2, HelpersInField, FieldIsNat
<1>4. /\ mod_add(t.acc, mod_mul(x % P, t.weight, P), P) \in Field
      /\ mod_mul(t.weight, Q % P, P) \in Field
  BY <1>1, <1>2, <1>3, HelpersInField
<1>5. (t.panics \/ RollingOverflows(t, x)) \in BOOLEAN
  OBVIOUS
<1> QED
  BY <1>1, <1>4, <1>5 DEF rolling_update, RollState

LEMMA RollPanicsStay ==
    ASSUME NEW t, NEW x, t.panics
    PROVE  rolling_update(t, x).panics
  BY DEF rolling_update

LEMMA RollNewTyped == rolling_new \in RollState
  BY ParamAssumption DEF rolling_new, RollState, Field

LEMMA RollRunExists ==
    ASSUME NEW xvs \in Seq(Nat)
    PROVE  \E f : IsRollRun(f, xvs) /\ rolling_hash(xvs) = f[Len(xvs)]
<1> DEFINE N == Len(xvs)
           G == [n \in 1 .. N |-> [t \in RollState |-> rolling_update(t, xvs[n])]]
           Fix(f) == f = [n \in 0 .. Len(xvs) |->
                            IF n = 0 THEN rolling_new
                            ELSE rolling_update(f[n - 1], xvs[n])]
           D == CHOOSE f : Fix(f)
<1>1. N \in Nat /\ \A n \in 1 .. N : xvs[n] \in Nat
  BY LenProperties
<1>2. G \in [1 .. N -> [RollState -> RollState]]
  BY <1>1, RollUpdateTyped
<1>3. PICK f \in [0 .. N -> RollState] : IsLoop(f, N, rolling_new, G)
  BY <1>1, <1>2, RollNewTyped, LoopExists
<1>4. ASSUME NEW n \in 1 .. N PROVE f[n] = rolling_update(f[n - 1], xvs[n])
  <2>1. n - 1 \in 0 .. N
    BY <1>1
  <2>2. f[n - 1] \in RollState /\ f[n] = G[n][f[n - 1]]
    BY <1>3, <2>1 DEF IsLoop
  <2> QED
    BY <2>2
<1>5. f[0] = rolling_new
  BY <1>3 DEF IsLoop
<1>6. Fix(f)
  BY <1>1, <1>3, <1>4, <1>5
<1>7. Fix(D)
  BY <1>6
<1>8. rolling_hash(xvs) = D[Len(xvs)]
  BY DEF rolling_hash
<1> HIDE DEF D
<1>9. /\ D[0] = rolling_new
      /\ \A n \in 1 .. N : D[n] = rolling_update(D[n - 1], xvs[n])
  <2> DEFINE Body(n) == IF n = 0 THEN rolling_new
                        ELSE rolling_update(D[n - 1], xvs[n])
  <2>1. D = [n \in 0 .. N |-> Body(n)]
    BY <1>7
  <2> HIDE DEF Body
  <2>2. \A n \in 0 .. N : D[n] = Body(n)
    BY <2>1
  <2>3. 0 \in 0 .. N /\ \A n \in 1 .. N : n \in 0 .. N /\ n # 0
    BY <1>1
  <2> QED
    BY <2>2, <2>3 DEF Body
<1>10. IsOver(D, N) /\ IsOver(f, N)
  BY <1>3, <1>7 DEF IsOver
<1>11. D = f
  <2> HIDE DEF N, G, Fix
  <2> QED
    BY <1>1, <1>4, <1>5, <1>9, <1>10, LoopUnique
<1> QED
  BY <1>3, <1>4, <1>5, <1>8, <1>11 DEF IsRollRun

(***************************************************************************)
(* The powers of q that a list of exponents stands for.                    *)
(***************************************************************************)
PowersOf(es, n) == [i \in 1 .. n |-> Pow[es[i]]]

Affine(n, shift) == [i \in 1 .. n |-> (i - 1) + shift]

Triangular(n, shift) == [i \in 1 .. n |-> triangular_exp((i - 1) + shift)]

LEMMA SchedulesTyped ==
    ASSUME NEW n \in Nat, NEW shift \in Nat
    PROVE  /\ Affine(n, shift) \in [1 .. n -> Nat]
           /\ Triangular(n, shift) \in [1 .. n -> Nat]
<1>1. ASSUME NEW i \in 1 .. n
      PROVE  (i - 1) + shift \in Nat /\ triangular_exp((i - 1) + shift) \in Nat
  BY TriangularStep
<1> QED
  BY <1>1 DEF Affine, Triangular

LEMMA RollStep ==
    ASSUME NEW t \in RollState, NEW x \in Nat, NEW n \in Nat,
           t.weight = Pow[n], ~ rolling_update(t, x).panics
    PROVE  /\ rolling_update(t, x).acc = (t.acc + (x % P) * Pow[n]) % P
           /\ rolling_update(t, x).weight = Pow[n + 1]
<1> DEFINE u == rolling_update(t, x)
           r == x % P
           m == mod_mul(r, t.weight, P)
<1>1. t.acc \in Field /\ t.weight \in Field /\ r \in Field /\ Q % P \in Field
  BY ResidueInField, ParamAssumption, BaseAssumption DEF RollState
<1>2. /\ ~ MulOverflows(r, t.weight, P) /\ ~ AddOverflows(t.acc, m, P)
      /\ ~ MulOverflows(t.weight, Q % P, P)
      /\ u.acc = mod_add(t.acc, m, P) /\ u.weight = mod_mul(t.weight, Q % P, P)
  BY DEF rolling_update, RollingOverflows
<1>3. m = (r * t.weight) % P /\ m \in Field
  <2>1. m \in Field
    BY <1>1, FieldIsNat, HelpersInField
  <2> QED
    BY <1>1, <1>2, <2>1, MulExact
<1>4. u.acc = (t.acc + m) % P
  BY <1>1, <1>2, <1>3, AddExact
<1>5. (t.acc + ((r * t.weight) % P)) % P = (t.acc + r * t.weight) % P
  <2>1. \A a, b \in Nat : a * b \in Int
    OBVIOUS
  <2>2. r * t.weight \in Int /\ t.acc \in Int
    <3>1. r \in Nat /\ t.weight \in Nat /\ t.acc \in Nat
      BY <1>1, FieldIsNat
    <3> QED
      BY <2>1, <3>1
  <2> DEFINE z == r * t.weight
  <2> HIDE DEF z, r
  <2>3. ((z % P) + t.acc) % P = (z + t.acc) % P
    BY <2>2, ModPlus DEF z
  <2>4. z % P \in Int /\ z \in Int
    BY <2>2, DivMod DEF z
  <2>5. (z % P) + t.acc = t.acc + (z % P) /\ z + t.acc = t.acc + z
    BY <2>2, <2>4
  <2> QED
    BY <2>3, <2>5 DEF z
<1>6. u.weight = Pow[n + 1]
  <2>1. u.weight = (t.weight * (Q % P)) % P
    BY <1>1, <1>2, MulExact
  <2> QED
    BY <2>1, PowStep
<1> QED
  BY <1>3, <1>4, <1>5, <1>6

LEMMA RollRunExact ==
    ASSUME NEW xvs \in Seq(Nat), NEW f, IsRollRun(f, xvs), ~ f[Len(xvs)].panics
    PROVE  IsWeighed([n \in 0 .. Len(xvs) |-> f[n].acc], xvs,
                     PowersOf(Affine(Len(xvs), 0), Len(xvs)))
<1> DEFINE N == Len(xvs)
           a == [n \in 0 .. N |-> f[n].acc]
           w == PowersOf(Affine(N, 0), N)
<1>1. /\ N \in Nat /\ \A n \in 1 .. N : xvs[n] \in Nat
      /\ \A n \in 0 .. N : f[n] \in RollState
      /\ f[0] = rolling_new
      /\ \A n \in 1 .. N : f[n] = rolling_update(f[n - 1], xvs[n])
  BY LenProperties DEF IsRollRun
<1>2. \A n \in 0 .. N : ~ f[n].panics
  <2>1. ASSUME NEW n \in 1 .. N, f[n - 1].panics PROVE f[n].panics
    BY <1>1, <2>1, RollPanicsStay
  <2> HIDE DEF N
  <2> QED
    BY <1>1, <2>1, NoneBefore DEF N
<1> DEFINE B == {k \in Nat : k <= N => f[k].weight = Pow[k]}
<1>3. ASSUME NEW k \in Nat, k + 1 <= N, f[k].weight = Pow[k]
      PROVE  /\ f[k + 1].weight = Pow[k + 1]
             /\ f[k + 1].acc = (f[k].acc + (xvs[k + 1] % P) * Pow[k]) % P
  <2>1. /\ k + 1 \in 1 .. N /\ k \in 0 .. N /\ k + 1 \in 0 .. N
        /\ (k + 1) - 1 = k
    BY <1>1, <1>3
  <2>2. f[k + 1] = rolling_update(f[k], xvs[k + 1]) /\ xvs[k + 1] \in Nat
        /\ f[k] \in RollState /\ ~ f[k + 1].panics
    BY <1>1, <1>2, <2>1
  <2> QED
    BY <1>3, <2>2, RollStep
<1>4. 0 \in B
  BY <1>1, PowStep DEF rolling_new
<1>5. ASSUME NEW k \in Nat, k \in B PROVE k + 1 \in B
  <2>1. SUFFICES ASSUME k + 1 <= N PROVE f[k + 1].weight = Pow[k + 1]
    OBVIOUS
  <2>2. k <= N /\ f[k].weight = Pow[k]
    BY <1>1, <1>5, <2>1
  <2> QED
    BY <1>3, <2>1, <2>2
<1> HIDE DEF B
<1>6. Nat \subseteq B
  BY <1>4, <1>5, SetInduction
<1>7. ASSUME NEW n \in 1 .. N
      PROVE  w[n] \in Nat /\ a[n] = (a[n - 1] + (xvs[n] % P) * w[n]) % P
  <2>1. n - 1 \in Nat /\ n - 1 <= N /\ (n - 1) + 1 = n /\ n \in 0 .. N
        /\ n - 1 \in 0 .. N /\ (n - 1) + 0 = n - 1
    BY <1>1
  <2>2. f[n - 1].weight = Pow[n - 1]
    BY <1>6, <2>1 DEF B
  <2>3. f[n].acc = (f[n - 1].acc + (xvs[n] % P) * Pow[n - 1]) % P
    BY <1>3, <2>1, <2>2
  <2>4. w[n] = Pow[n - 1] /\ Pow[n - 1] \in Nat
    BY <2>1, PowRange DEF PowersOf, Affine
  <2> QED
    BY <2>1, <2>3, <2>4
<1>8. a \in [0 .. N -> Field] /\ a[0] = 0
  BY <1>1 DEF RollState, rolling_new
<1> QED
  BY <1>7, <1>8 DEF IsWeighed

(***************************************************************************)
(* rolling_hash is the sum of x_i q^i, and its acc is a field element in   *)
(* any case.                                                               *)
(***************************************************************************)
LEMMA RollingIsSum ==
    ASSUME NEW xvs \in Seq(Nat)
    PROVE  /\ rolling_hash(xvs).acc \in Field
           /\ ~ rolling_hash(xvs).panics =>
                \E f : /\ IsWeighed(f, xvs, PowersOf(Affine(Len(xvs), 0), Len(xvs)))
                       /\ rolling_hash(xvs).acc = f[Len(xvs)]
<1>1. PICK f : IsRollRun(f, xvs) /\ rolling_hash(xvs) = f[Len(xvs)]
  BY RollRunExists
<1>2. Len(xvs) \in 0 .. Len(xvs)
  BY LenProperties
<1>3. rolling_hash(xvs).acc \in Field
  BY <1>1, <1>2 DEF IsRollRun, RollState
<1>4. ASSUME ~ rolling_hash(xvs).panics
      PROVE  \E g : /\ IsWeighed(g, xvs, PowersOf(Affine(Len(xvs), 0), Len(xvs)))
                    /\ rolling_hash(xvs).acc = g[Len(xvs)]
  <2> DEFINE g == [n \in 0 .. Len(xvs) |-> f[n].acc]
  <2>1. IsWeighed(g, xvs, PowersOf(Affine(Len(xvs), 0), Len(xvs)))
    BY <1>1, <1>4, RollRunExact
  <2>2. rolling_hash(xvs).acc = g[Len(xvs)]
    BY <1>1, <1>2
  <2> QED
    BY <2>1, <2>2
<1> QED
  BY <1>3, <1>4

LEMMA RollingPrefix ==
    ASSUME NEW xvs \in Seq(Nat), NEW yvs \in Seq(Nat), Len(yvs) <= Len(xvs),
           \A n \in 1 .. Len(yvs) : yvs[n] = xvs[n], ~ rolling_hash(xvs).panics
    PROVE  ~ rolling_hash(yvs).panics
<1> DEFINE N == Len(yvs)
<1>1. PICK f : IsRollRun(f, xvs) /\ rolling_hash(xvs) = f[Len(xvs)]
  BY RollRunExists
<1>2. PICK g : IsRollRun(g, yvs) /\ rolling_hash(yvs) = g[Len(yvs)]
  BY RollRunExists
<1>3. N \in Nat /\ Len(xvs) \in Nat
  BY LenProperties
<1>4. \A n \in 0 .. Len(xvs) : ~ f[n].panics
  <2>1. ASSUME NEW n \in 1 .. Len(xvs), f[n - 1].panics PROVE f[n].panics
    BY <1>1, <2>1, RollPanicsStay DEF IsRollRun
  <2> QED
    BY <1>1, <1>3, <2>1, NoneBefore
<1> DEFINE B == {k \in Nat : k <= N => f[k] = g[k]}
<1>5. 0 \in B
  BY <1>1, <1>2 DEF IsRollRun
<1>6. ASSUME NEW k \in Nat, k \in B PROVE k + 1 \in B
  <2>1. SUFFICES ASSUME k + 1 <= N PROVE f[k + 1] = g[k + 1]
    OBVIOUS
  <2>2. /\ k + 1 \in 1 .. N /\ k + 1 \in 1 .. Len(xvs) /\ (k + 1) - 1 = k
        /\ f[k] = g[k]
    BY <1>3, <1>6, <2>1
  <2>3. /\ f[k + 1] = rolling_update(f[k], xvs[k + 1])
        /\ g[k + 1] = rolling_update(g[k], yvs[k + 1])
    BY <1>1, <1>2, <2>2 DEF IsRollRun
  <2> QED
    BY <2>2, <2>3
<1> HIDE DEF B
<1>7. N \in B
  BY <1>3, <1>5, <1>6, SetInduction
<1>8. f[N] = g[N] /\ N \in 0 .. Len(xvs)
  BY <1>3, <1>7 DEF B
<1> QED
  BY <1>2, <1>4, <1>8

-----------------------------------------------------------------------------
(***************************************************************************)
(* The loop of rolling_shifted_spec and ksentry_shifted_spec.              *)
(***************************************************************************)
SumState == [value : Field, panics : BOOLEAN]

Nothing == [value |-> 0, panics |-> FALSE]

IsSumRun(f, xvs, es) ==
    /\ f \in [0 .. Len(xvs) -> SumState]
    /\ f[0] = Nothing
    /\ \A n \in 1 .. Len(xvs) : f[n] = AddWeighed(f[n - 1], xvs[n], es[n])

LEMMA AddWeighedTyped ==
    ASSUME NEW t \in SumState, NEW x \in Nat, NEW e \in Nat
    PROVE  AddWeighed(t, x, e) \in SumState
<1> DEFINE w == mod_pow(Q, e)
           m == mod_mul(x, w.value, P)
<1>1. t.value \in Nat /\ w.value \in Nat
  BY PowLoopExact, FieldIsNat DEF SumState
<1> HIDE DEF w
<1>2. m \in Nat
  BY <1>1, HelpersInField, FieldIsNat
<1> HIDE DEF m
<1>3. mod_add(t.value, m, P) \in Field
  BY <1>1, <1>2, HelpersInField
<1>4. (\/ t.panics \/ w.panics \/ MulOverflows(x, w.value, P)
       \/ AddOverflows(t.value, m, P)) \in BOOLEAN
  OBVIOUS
<1> QED
  BY <1>3, <1>4 DEF AddWeighed, SumState, w, m

LEMMA AddWeighedExact ==
    ASSUME NEW t \in SumState, NEW x \in Nat, NEW e \in Nat,
           ~ AddWeighed(t, x, e).panics
    PROVE  AddWeighed(t, x, e).value = (t.value + (x % P) * Pow[e]) % P
<1> DEFINE w == mod_pow(Q, e)
           m == mod_mul(x, w.value, P)
           z == (x % P) * Pow[e]
<1>1. /\ ~ w.panics /\ ~ MulOverflows(x, w.value, P)
      /\ ~ AddOverflows(t.value, m, P)
      /\ AddWeighed(t, x, e).value = mod_add(t.value, m, P)
  BY DEF AddWeighed
<1>2. w.value = Pow[e] /\ w.value \in Field
  BY <1>1, PowLoopExact
<1> HIDE DEF w
<1>3. m = z % P /\ m \in Field
  BY <1>1, <1>2, MulReduces
<1>4. t.value \in Field
  BY DEF SumState
<1> HIDE DEF m
<1>5. mod_add(t.value, m, P) = (t.value + m) % P
  BY <1>1, <1>3, <1>4, AddExact
<1>6. z \in Int /\ t.value \in Int
  <2>1. x % P \in Nat /\ Pow[e] \in Nat /\ t.value \in Nat
    <3>1. x % P \in Field
      BY ResidueInField
    <3>2. Pow[e] \in Field
      BY PowRange DEF Field
    <3> QED
      BY <1>4, <3>1, <3>2, FieldIsNat
  <2>2. \A a, b \in Nat : a * b \in Int
    OBVIOUS
  <2> QED
    BY <2>1, <2>2
<1> HIDE DEF z
<1>7. ((z % P) + t.value) % P = (z + t.value) % P
  BY <1>6, ModPlus
<1>8. (z % P) + t.value = t.value + (z % P) /\ z + t.value = t.value + z
  <2>1. z % P \in Int
    BY <1>6, DivMod
  <2> QED
    BY <1>6, <2>1
<1> QED
  BY <1>1, <1>3, <1>5, <1>7, <1>8 DEF z

LEMMA AddWeighedPanics ==
    ASSUME NEW t, NEW x, NEW e, t.panics
    PROVE  AddWeighed(t, x, e).panics
  BY DEF AddWeighed

LEMMA AddWeighedNeverPanics ==
    ASSUME NEW t \in SumState, NEW x \in Nat, NEW e \in Nat, NoOverflow, ~ t.panics
    PROVE  ~ AddWeighed(t, x, e).panics
<1> DEFINE w == mod_pow(Q, e)
           m == mod_mul(x, w.value, P)
           r == x % P
<1>1. ~ w.panics /\ w.value \in Field
  BY PowLoopExact, PowNeverPanics
<1> HIDE DEF w
<1>2. t.value \in Field
  BY DEF SumState
<1>3. ~ MulOverflows(x, w.value, P)
  <2>1. r \in Field /\ r % P = r
    <3>1. r \in Field
      BY ResidueInField
    <3> QED
      BY <3>1, ModSmall DEF Field
  <2>2. MulOverflows(r, w.value, P) = MulOverflows(x, w.value, P)
    BY <2>1 DEF MulOverflows
  <2> HIDE DEF r
  <2>3. ~ MulOverflows(r, w.value, P)
    BY <1>1, <2>1, NoHelperOverflows
  <2> QED
    BY <2>2, <2>3
<1>4. m \in Field
  BY <1>1, <1>3, MulReduces
<1>5. ~ AddOverflows(t.value, m, P)
  BY <1>2, <1>4, NoHelperOverflows
<1> QED
  BY <1>1, <1>3, <1>5 DEF AddWeighed, w

LEMMA SumRunExists ==
    ASSUME NEW xvs \in Seq(Nat), NEW es \in [1 .. Len(xvs) -> Nat]
    PROVE  \E f : IsSumRun(f, xvs, es) /\ WeighedSum(xvs, es) = f[Len(xvs)]
<1> DEFINE N == Len(xvs)
           G == [n \in 1 .. N |-> [t \in SumState |-> AddWeighed(t, xvs[n], es[n])]]
           Fix(f) == f = [n \in 0 .. Len(xvs) |->
                            IF n = 0 THEN [value |-> 0, panics |-> FALSE]
                            ELSE AddWeighed(f[n - 1], xvs[n], es[n])]
           D == CHOOSE f : Fix(f)
<1>1. N \in Nat /\ \A n \in 1 .. N : xvs[n] \in Nat /\ es[n] \in Nat
  BY LenProperties
<1>2. G \in [1 .. N -> [SumState -> SumState]] /\ Nothing \in SumState
  <2>1. Nothing \in SumState
    BY ParamAssumption DEF Nothing, SumState, Field
  <2> QED
    BY <1>1, <2>1, AddWeighedTyped
<1>3. PICK f \in [0 .. N -> SumState] : IsLoop(f, N, Nothing, G)
  BY <1>1, <1>2, LoopExists
<1>4. ASSUME NEW n \in 1 .. N PROVE f[n] = AddWeighed(f[n - 1], xvs[n], es[n])
  <2>1. n - 1 \in 0 .. N
    BY <1>1
  <2>2. f[n - 1] \in SumState /\ f[n] = G[n][f[n - 1]]
    BY <1>3, <2>1 DEF IsLoop
  <2> QED
    BY <2>2
<1>5. f[0] = Nothing
  BY <1>3 DEF IsLoop
<1>6. Fix(f)
  BY <1>1, <1>3, <1>4, <1>5 DEF Nothing
<1>7. Fix(D)
  BY <1>6
<1>8. WeighedSum(xvs, es) = D[Len(xvs)]
  BY DEF WeighedSum
<1> HIDE DEF D
<1>9. /\ D[0] = Nothing
      /\ \A n \in 1 .. N : D[n] = AddWeighed(D[n - 1], xvs[n], es[n])
  <2> DEFINE Body(n) == IF n = 0 THEN [value |-> 0, panics |-> FALSE]
                        ELSE AddWeighed(D[n - 1], xvs[n], es[n])
  <2>1. D = [n \in 0 .. N |-> Body(n)]
    BY <1>7
  <2> HIDE DEF Body
  <2>2. \A n \in 0 .. N : D[n] = Body(n)
    BY <2>1
  <2>3. 0 \in 0 .. N /\ \A n \in 1 .. N : n \in 0 .. N /\ n # 0
    BY <1>1
  <2> QED
    BY <2>2, <2>3 DEF Body, Nothing
<1>10. IsOver(D, N) /\ IsOver(f, N)
  BY <1>3, <1>7 DEF IsOver
<1>11. D = f
  <2> HIDE DEF N, G, Fix
  <2> QED
    BY <1>1, <1>4, <1>5, <1>9, <1>10, LoopUnique
<1> QED
  BY <1>3, <1>4, <1>5, <1>8, <1>11 DEF IsSumRun

LEMMA SumRunExact ==
    ASSUME NEW xvs \in Seq(Nat), NEW es \in [1 .. Len(xvs) -> Nat],
           NEW f, IsSumRun(f, xvs, es), ~ f[Len(xvs)].panics
    PROVE  IsWeighed([n \in 0 .. Len(xvs) |-> f[n].value], xvs,
                     PowersOf(es, Len(xvs)))
<1> DEFINE N == Len(xvs)
           a == [n \in 0 .. N |-> f[n].value]
           w == PowersOf(es, N)
<1>1. /\ N \in Nat /\ \A n \in 1 .. N : xvs[n] \in Nat /\ es[n] \in Nat
      /\ \A n \in 0 .. N : f[n] \in SumState
      /\ f[0] = Nothing
      /\ \A n \in 1 .. N : f[n] = AddWeighed(f[n - 1], xvs[n], es[n])
  BY LenProperties DEF IsSumRun
<1>2. \A n \in 0 .. N : ~ f[n].panics
  <2>1. ASSUME NEW n \in 1 .. N, f[n - 1].panics PROVE f[n].panics
    BY <1>1, <2>1, AddWeighedPanics
  <2> HIDE DEF N
  <2> QED
    BY <1>1, <2>1, NoneBefore DEF N
<1>3. ASSUME NEW n \in 1 .. N
      PROVE  w[n] \in Nat /\ a[n] = (a[n - 1] + (xvs[n] % P) * w[n]) % P
  <2>1. n - 1 \in 0 .. N /\ n \in 0 .. N
    BY <1>1
  <2>2. f[n].value = (f[n - 1].value + (xvs[n] % P) * Pow[es[n]]) % P
    <3>1. /\ f[n] = AddWeighed(f[n - 1], xvs[n], es[n]) /\ ~ f[n].panics
          /\ f[n - 1] \in SumState /\ xvs[n] \in Nat /\ es[n] \in Nat
      BY <1>1, <1>2, <2>1
    <3> QED
      BY <3>1, AddWeighedExact
  <2>3. w[n] = Pow[es[n]] /\ Pow[es[n]] \in Nat
    BY <1>1, PowRange DEF PowersOf
  <2> QED
    BY <2>1, <2>2, <2>3
<1>4. a \in [0 .. N -> Field] /\ a[0] = 0
  BY <1>1 DEF SumState, Nothing
<1> QED
  BY <1>3, <1>4 DEF IsWeighed

(***************************************************************************)
(* The shifted sum is the sum with the powers of its exponents, and where  *)
(* products and sums of residues fit the word it does not panic.           *)
(***************************************************************************)
LEMMA ShiftedIsSum ==
    ASSUME NEW xvs \in Seq(Nat), NEW es \in [1 .. Len(xvs) -> Nat]
    PROVE  /\ NoOverflow => ~ WeighedSum(xvs, es).panics
           /\ ~ WeighedSum(xvs, es).panics =>
                \E f : /\ IsWeighed(f, xvs, PowersOf(es, Len(xvs)))
                       /\ WeighedSum(xvs, es).value = f[Len(xvs)]
<1> DEFINE N == Len(xvs)
<1>1. PICK f : IsSumRun(f, xvs, es) /\ WeighedSum(xvs, es) = f[N]
  BY SumRunExists
<1>2. /\ N \in Nat /\ \A n \in 1 .. N : xvs[n] \in Nat /\ es[n] \in Nat
      /\ \A n \in 0 .. N : f[n] \in SumState
      /\ f[0] = Nothing
      /\ \A n \in 1 .. N : f[n] = AddWeighed(f[n - 1], xvs[n], es[n])
  BY <1>1, LenProperties DEF IsSumRun
<1>3. ASSUME NoOverflow PROVE ~ WeighedSum(xvs, es).panics
  <2> DEFINE B == {k \in Nat : k <= N => ~ f[k].panics}
  <2>1. 0 \in B
    BY <1>2 DEF Nothing
  <2>2. ASSUME NEW k \in Nat, k \in B PROVE k + 1 \in B
    <3>1. SUFFICES ASSUME k + 1 <= N PROVE ~ f[k + 1].panics
      OBVIOUS
    <3>2. /\ k + 1 \in 1 .. N /\ k \in 0 .. N /\ (k + 1) - 1 = k
          /\ ~ f[k].panics
      BY <1>2, <2>2, <3>1
    <3>3. f[k + 1] = AddWeighed(f[k], xvs[k + 1], es[k + 1])
          /\ f[k] \in SumState /\ xvs[k + 1] \in Nat /\ es[k + 1] \in Nat
      BY <1>2, <3>2
    <3> QED
      BY <1>3, <3>2, <3>3, AddWeighedNeverPanics
  <2> HIDE DEF B
  <2>3. N \in B
    BY <1>2, <2>1, <2>2, SetInduction
  <2> QED
    BY <1>1, <2>3 DEF B
<1>4. ASSUME ~ WeighedSum(xvs, es).panics
      PROVE  \E g : /\ IsWeighed(g, xvs, PowersOf(es, N))
                    /\ WeighedSum(xvs, es).value = g[N]
  <2> DEFINE g == [n \in 0 .. N |-> f[n].value]
  <2>1. IsWeighed(g, xvs, PowersOf(es, N))
    BY <1>1, <1>4, SumRunExact
  <2>2. WeighedSum(xvs, es).value = g[N]
    BY <1>1, <1>2
  <2> QED
    BY <2>1, <2>2
<1> QED
  BY <1>3, <1>4

(***************************************************************************)
(* ksentry_spec is such a sum, too, with the triangular powers.            *)
(***************************************************************************)
LEMMA SpecIsSum ==
    ASSUME NEW xvs \in Seq(Nat)
    PROVE  \E f : /\ IsWeighed(f, xvs, PowersOf(Triangular(Len(xvs), 0), Len(xvs)))
                  /\ ksentry_spec(xvs) = f[Len(xvs)]
<1> DEFINE N == Len(xvs)
           w == PowersOf(Triangular(N, 0), N)
<1>1. PICK f : IsSum(f, xvs) /\ ksentry_spec(xvs) = f[N]
  BY SpecSum
<1>2. N \in Nat
  BY LenProperties
<1>3. ASSUME NEW n \in 1 .. N
      PROVE  w[n] \in Nat /\ f[n] = (f[n - 1] + (xvs[n] % P) * w[n]) % P
  <2>1. (n - 1) + 0 = n - 1 /\ n - 1 \in Nat
    BY <1>2
  <2>2. w[n] = Pow[triangular_exp(n - 1)]
    BY <2>1 DEF PowersOf, Triangular
  <2>3. triangular_exp(n - 1) \in Nat
    BY <2>1, TriangularStep
  <2>4. w[n] \in Nat
    BY <2>2, <2>3, PowRange
  <2>5. f[n] = (f[n - 1] + Term(xvs[n], n - 1)) % P
    BY <1>1 DEF IsSum
  <2> QED
    BY <2>2, <2>4, <2>5 DEF Term
<1>4. IsWeighed(f, xvs, w)
  BY <1>1, <1>3 DEF IsWeighed, IsSum
<1> QED
  BY <1>1, <1>4

LEMMA WeighedExists ==
    ASSUME NEW xvs \in Seq(Nat), NEW es \in [1 .. Len(xvs) -> Nat]
    PROVE  \E f : IsWeighed(f, xvs, PowersOf(es, Len(xvs)))
<1> DEFINE N == Len(xvs)
           w == PowersOf(es, N)
           G == [n \in 1 .. N |->
                    [d \in Field |-> (d + (xvs[n] % P) * w[n]) % P]]
<1>1. N \in Nat /\ \A n \in 1 .. N : xvs[n] \in Nat /\ es[n] \in Nat
  BY LenProperties
<1>2. ASSUME NEW n \in 1 .. N PROVE w[n] \in Nat /\ xvs[n] % P \in Nat
  <2>1. w[n] = Pow[es[n]] /\ es[n] \in Nat /\ xvs[n] \in Int
    BY <1>1 DEF PowersOf
  <2>2. Pow[es[n]] \in Nat
    BY <2>1, PowRange
  <2>3. xvs[n] % P \in Field
    BY <2>1, ResidueInField, Zenon
  <2> QED
    BY <2>1, <2>2, <2>3, FieldIsNat
<1> HIDE DEF w
<1>3. ASSUME NEW n \in 1 .. N, NEW d \in Field
      PROVE  (d + (xvs[n] % P) * w[n]) % P \in Field
  <2>1. PICK a \in Nat, b \in Nat : a = xvs[n] % P /\ b = w[n]
    BY <1>2
  <2>2. d \in Nat /\ \A i, j \in Nat : i * j \in Nat
    BY FieldIsNat
  <2>3. d + a * b \in Int
    BY <2>2
  <2> QED
    BY <2>1, <2>3, ResidueInField
<1>4. G \in [1 .. N -> [Field -> Field]] /\ 0 \in Field
  <2>1. 0 \in Field
    BY ParamAssumption DEF Field
  <2> QED
    BY <1>3, <2>1
<1>5. PICK f \in [0 .. N -> Field] : IsLoop(f, N, 0, G)
  BY <1>1, <1>4, LoopExists
<1>6. ASSUME NEW n \in 1 .. N PROVE f[n] = (f[n - 1] + (xvs[n] % P) * w[n]) % P
  <2>1. n - 1 \in 0 .. N
    BY <1>1
  <2>2. f[n - 1] \in Field /\ f[n] = G[n][f[n - 1]]
    BY <1>5, <2>1 DEF IsLoop
  <2> QED
    BY <2>2
<1>7. f[0] = 0
  BY <1>5 DEF IsLoop
<1> HIDE DEF G
<1> QED
  BY <1>2, <1>5, <1>6, <1>7 DEF IsWeighed, w

-----------------------------------------------------------------------------
(***************************************************************************)
(* A cut of a stream at s: what comes before the chunk, and the chunk.     *)
(***************************************************************************)
Ahead(xvs, s) == SubSeq(xvs, 1, s)

Behind(xvs, s) == SubSeq(xvs, s + 1, Len(xvs))

LEMMA CutTyped ==
    ASSUME NEW xvs \in Seq(Nat), NEW s \in 0 .. Len(xvs)
    PROVE  /\ Len(xvs) \in Nat /\ s \in Nat /\ s <= Len(xvs)
           /\ Ahead(xvs, s) \in Seq(Nat) /\ Len(Ahead(xvs, s)) = s
           /\ \A n \in 1 .. s : Ahead(xvs, s)[n] = xvs[n]
           /\ Behind(xvs, s) \in Seq(Nat) /\ Len(Behind(xvs, s)) = Len(xvs) - s
           /\ \A n \in 1 .. (Len(xvs) - s) : Behind(xvs, s)[n] = xvs[s + n]
<1> DEFINE N == Len(xvs)
<1>1. N \in Nat /\ s \in Nat /\ s <= N /\ \A n \in 1 .. N : xvs[n] \in Nat
  BY LenProperties
<1>2. /\ SubSeq(xvs, 1, s) \in Seq(Nat)
      /\ Len(SubSeq(xvs, 1, s)) = IF 1 <= s THEN s - 1 + 1 ELSE 0
      /\ \A n \in 1 .. (s - 1 + 1) : SubSeq(xvs, 1, s)[n] = xvs[1 + n - 1]
  <2>1. 1 \in Int /\ s \in Int /\ \A n \in 1 .. s : xvs[n] \in Nat
    BY <1>1
  <2> HIDE DEF N
  <2> QED
    BY <2>1, SubSeqProperties
<1>3. /\ SubSeq(xvs, s + 1, N) \in Seq(Nat)
      /\ Len(SubSeq(xvs, s + 1, N)) = IF s + 1 <= N THEN N - (s + 1) + 1 ELSE 0
      /\ \A n \in 1 .. (N - (s + 1) + 1) :
            SubSeq(xvs, s + 1, N)[n] = xvs[(s + 1) + n - 1]
  <2>1. s + 1 \in Int /\ N \in Int /\ \A n \in (s + 1) .. N : xvs[n] \in Nat
    BY <1>1
  <2> HIDE DEF N
  <2> QED
    BY <2>1, SubSeqProperties
<1>4. \A n \in 1 .. s : n \in 1 .. (s - 1 + 1) /\ 1 + n - 1 = n
  BY <1>1
<1>5. \A n \in 1 .. (N - s) : n \in 1 .. (N - (s + 1) + 1) /\ (s + 1) + n - 1 = s + n
  BY <1>1
<1> QED
  BY <1>1, <1>2, <1>3, <1>4, <1>5 DEF Ahead, Behind

(***************************************************************************)
(* So a sum with any schedule that shifts with the chunk is the sum before *)
(* the cut and the shifted sum behind it.                                  *)
(***************************************************************************)
SplitsAt(xvs, s, w, v, u) ==
    \A f, g, h :
        /\ IsWeighed(f, xvs, w)
        /\ IsWeighed(g, Ahead(xvs, s), v)
        /\ IsWeighed(h, Behind(xvs, s), u)
        => f[Len(xvs)] = (g[s] + h[Len(xvs) - s]) % P

LEMMA CutSplits ==
    ASSUME NEW xvs \in Seq(Nat), NEW s \in 0 .. Len(xvs), NEW w, NEW v, NEW u,
           \A n \in 1 .. s : w[n] = v[n],
           \A n \in 1 .. (Len(xvs) - s) : u[n] = w[s + n]
    PROVE  SplitsAt(xvs, s, w, v, u)
<1> SUFFICES ASSUME NEW f, NEW g, NEW h, IsWeighed(f, xvs, w),
                    IsWeighed(g, Ahead(xvs, s), v),
                    IsWeighed(h, Behind(xvs, s), u)
             PROVE  f[Len(xvs)] = (g[s] + h[Len(xvs) - s]) % P
  BY DEF SplitsAt
<1> DEFINE yvs == Ahead(xvs, s)
           zvs == Behind(xvs, s)
<1>1. /\ Len(xvs) \in Nat /\ s \in Nat /\ s <= Len(xvs)
      /\ yvs \in Seq(Nat) /\ Len(yvs) = s
      /\ \A n \in 1 .. s : yvs[n] = xvs[n]
      /\ zvs \in Seq(Nat) /\ Len(zvs) = Len(xvs) - s
      /\ \A n \in 1 .. (Len(xvs) - s) : zvs[n] = xvs[s + n]
  BY CutTyped
<1> HIDE DEF yvs, zvs
<1>2. Beginning(Len(yvs), xvs, w, yvs, v)
  BY <1>1 DEF Beginning
<1>3. Rest(Len(yvs), xvs, w, zvs, u)
  BY <1>1 DEF Rest
<1>4. IsWeighed(g, yvs, v) /\ IsWeighed(h, zvs, u)
  BY DEF yvs, zvs
<1>5. AddsUp(f, g, h, Len(xvs), Len(yvs), Len(zvs))
  BY <1>1, <1>2, <1>3, <1>4, WeighedSplit
<1> QED
  BY <1>1, <1>5 DEF AddsUp

-----------------------------------------------------------------------------
(***************************************************************************)
(* What RollingRebases and ShiftedComposes say of one stream and one cut.  *)
(* The sum of two residues must fit the word, since the properties add two *)
(* digests themselves; what is too large within a loop panics there.       *)
(***************************************************************************)
SumsFit == (P - 1) + (P - 1) < Word

LEMMA SumsFitStays == SumsFit => []SumsFit
<1>1. SumsFit => SumsFit'
  BY DEF SumsFit
<1> QED
  BY <1>1, PTL

LEMMA SumExact ==
    ASSUME SumsFit, NEW a \in Field, NEW b \in Field
    PROVE  mod_add(a, b, P) = (a + b) % P
<1>1. a % P = a /\ b % P = b
  BY ModSmall DEF Field
<1>2. a + b < Word
  BY ParamAssumption DEF SumsFit, Field
<1>3. ~ AddOverflows(a, b, P)
  BY <1>1, <1>2, ParamAssumption DEF AddOverflows, Field
<1> QED
  BY <1>3, AddExact

LEMMA RebasedExact ==
    ASSUME NEW d \in Field, NEW e \in Nat, ~ rolling_rebase_digest(d, e).panics
    PROVE  rolling_rebase_digest(d, e).value = (d * Pow[e]) % P
<1> DEFINE c == mod_pow(Q, e)
<1>1. /\ ~ c.panics /\ ~ MulOverflows(d, c.value, P)
      /\ rolling_rebase_digest(d, e).value = mod_mul(d, c.value, P)
  BY DEF rolling_rebase_digest
<1>2. c.value = Pow[e] /\ c.value \in Field
  BY <1>1, PowLoopExact
<1> HIDE DEF c
<1> QED
  BY <1>1, <1>2, MulExact

RebasesAt(xvs, s) ==
    LET local   == rolling_hash(Behind(xvs, s))
        stream  == rolling_hash(xvs)
        rebased == rolling_rebase_digest(local.acc, s)
        shifted == rolling_shifted_spec(Behind(xvs, s), s)
    IN  ~ (local.panics \/ stream.panics \/ rebased.panics) =>
          /\ mod_add(rolling_hash(Ahead(xvs, s)).acc, rebased.value, P)
                = stream.acc
          /\ ~ shifted.panics => rebased.value = shifted.value

LEMMA RollingMoves ==
    ASSUME NEW xvs \in Seq(Nat), NEW s \in 0 .. Len(xvs), SumsFit
    PROVE  RebasesAt(xvs, s)
<1> DEFINE N == Len(xvs)
           m == N - s
           yvs == Ahead(xvs, s)
           zvs == Behind(xvs, s)
           w == PowersOf(Affine(N, 0), N)
           v == PowersOf(Affine(s, 0), s)
           l == PowersOf(Affine(m, 0), m)
           u == PowersOf(Affine(m, s), m)
           local == rolling_hash(zvs)
           stream == rolling_hash(xvs)
           rebased == rolling_rebase_digest(local.acc, s)
           shifted == rolling_shifted_spec(zvs, s)
<1>1. /\ N \in Nat /\ s \in Nat /\ s <= N /\ m \in Nat
      /\ yvs \in Seq(Nat) /\ Len(yvs) = s
      /\ \A n \in 1 .. s : yvs[n] = xvs[n]
      /\ zvs \in Seq(Nat) /\ Len(zvs) = m
  <2>1. N \in Nat /\ s \in Nat /\ s <= N
    BY CutTyped
  <2>2. m \in Nat
    BY <2>1
  <2> QED
    BY <2>1, <2>2, CutTyped
<1>2. SUFFICES ASSUME ~ local.panics, ~ stream.panics, ~ rebased.panics
               PROVE  /\ mod_add(rolling_hash(yvs).acc, rebased.value, P)
                            = stream.acc
                      /\ ~ shifted.panics => rebased.value = shifted.value
  BY DEF RebasesAt
<1>3. shifted = WeighedSum(zvs, Affine(m, s)) /\ Affine(m, s) \in [1 .. m -> Nat]
  <2>1. Affine(m, s) \in [1 .. m -> Nat]
    BY <1>1, SchedulesTyped
  <2> HIDE DEF yvs, zvs, m
  <2> QED
    BY <1>1, <2>1 DEF rolling_shifted_spec, Affine
<1>4. /\ \A n \in 1 .. s : w[n] = v[n]
      /\ \A n \in 1 .. m : u[n] = w[s + n]
      /\ \A n \in 1 .. m : u[n] = (l[n] * Pow[s]) % P
  <2>1. ASSUME NEW n \in 1 .. s PROVE w[n] = v[n]
    BY <1>1 DEF PowersOf, Affine
  <2>2. ASSUME NEW n \in 1 .. m
        PROVE  u[n] = w[s + n] /\ u[n] = (l[n] * Pow[s]) % P
    <3>1. /\ s + n \in 1 .. N /\ (s + n) - 1 + 0 = (n - 1) + s
          /\ n - 1 \in Nat /\ (n - 1) + 0 = n - 1
      BY <1>1
    <3>2. u[n] = Pow[(n - 1) + s] /\ w[s + n] = Pow[(n - 1) + s]
          /\ l[n] = Pow[n - 1]
      BY <3>1 DEF PowersOf, Affine
    <3>3. Pow[(n - 1) + s] = (Pow[n - 1] * Pow[s]) % P
      BY <1>1, <3>1, PowAdd
    <3> QED
      BY <3>2, <3>3
  <2> QED
    BY <2>1, <2>2
<1>5. PICK f : IsWeighed(f, xvs, w) /\ stream.acc = f[N]
  BY <1>2, RollingIsSum
<1>6. ~ rolling_hash(yvs).panics
  BY <1>1, <1>2, RollingPrefix
<1>7. PICK g : IsWeighed(g, yvs, v) /\ rolling_hash(yvs).acc = g[s]
  <2> HIDE DEF yvs
  <2> QED
    BY <1>1, <1>6, RollingIsSum
<1>8. PICK d : IsWeighed(d, zvs, l) /\ local.acc = d[m]
  <2> HIDE DEF zvs, m
  <2> QED
    BY <1>1, <1>2, RollingIsSum
<1>9. PICK h : IsWeighed(h, zvs, u)
  <2> HIDE DEF zvs, m
  <2> QED
    BY <1>1, <1>3, WeighedExists
<1>10. /\ local.acc \in Field /\ rolling_hash(yvs).acc \in Field
       /\ rebased.value = (local.acc * Pow[s]) % P
  <2>1. local.acc \in Field /\ rolling_hash(yvs).acc \in Field
    BY <1>1, RollingIsSum
  <2> HIDE DEF local
  <2> QED
    BY <1>1, <1>2, <2>1, RebasedExact
<1> HIDE DEF local, stream, rebased, shifted, w, v, u, l
<1>11. f[N] = (g[s] + h[m]) % P
  <2>1. SplitsAt(xvs, s, w, v, u)
    BY <1>4, CutSplits
  <2> QED
    BY <1>5, <1>7, <1>9, <2>1 DEF SplitsAt
<1> HIDE DEF yvs, zvs, m
<1>12. Pow[s] \in Nat
  BY <1>1, PowRange
<1>13. Scaled(Len(zvs), l, u, Pow[s])
  BY <1>1, <1>4 DEF Scaled
<1>14. ASSUME NEW k, IsWeighed(k, zvs, u) PROVE k[m] = (d[m] * Pow[s]) % P
  <2>1. k[Len(zvs)] = (d[Len(zvs)] * Pow[s]) % P
    BY <1>1, <1>8, <1>12, <1>13, <1>14, WeighedScale
  <2> QED
    BY <1>1, <2>1
<1>15. rebased.value = h[m] /\ h[m] \in Field
  <2>1. m \in 0 .. Len(zvs)
    BY <1>1
  <2> QED
    BY <1>8, <1>9, <1>10, <1>14, <2>1 DEF IsWeighed
<1>16. mod_add(rolling_hash(yvs).acc, rebased.value, P) = stream.acc
  BY <1>5, <1>7, <1>10, <1>11, <1>15, SumExact
<1>17. ASSUME ~ shifted.panics PROVE rebased.value = shifted.value
  <2>1. PICK k : IsWeighed(k, zvs, u) /\ shifted.value = k[m]
    BY <1>1, <1>3, <1>17, ShiftedIsSum DEF u
  <2> QED
    BY <1>8, <1>10, <1>14, <2>1
<1> QED
  BY <1>16, <1>17

(***************************************************************************)
(* The steps of this specification are steps of KSentry, whose invariants  *)
(* therefore hold here.                                                    *)
(***************************************************************************)
LEMMA RebaseIsKSentry == RebaseSpec => Spec
<1>1. [RebaseNext]_vars => [Next]_vars
  BY DEF RebaseNext, Next
<1> QED
  BY <1>1, PTL DEF RebaseSpec, Spec

(***************************************************************************)
(* One scalar moves the digest of a rolling hash, wherever the chunk lies, *)
(* for every stream, modulus and word that holds the sum of two residues.  *)
(***************************************************************************)
THEOREM RollingAlwaysRebases == SumsFit /\ RebaseSpec => []RollingRebases
<1>1. ASSUME SumsFit, TypeOK PROVE RollingRebases
  <2>1. xs \in Seq(Nat)
    BY <1>1, TypedState
  <2>2. ASSUME NEW s \in 0 .. Len(xs) PROVE RebasesAt(xs, s)
    BY <1>1, <2>1, RollingMoves
  <2> QED
    BY <2>2 DEF RollingRebases, RebasesAt, Ahead, Behind, Chunk, Before
<1> QED
  BY <1>1, TypeCorrect, RebaseIsKSentry, SumsFitStays, PTL

(***************************************************************************)
(* The digest is the documented sum under these steps, too.                *)
(***************************************************************************)
THEOREM RebaseDigestIsSpec == SafeBuild /\ RebaseSpec => []ClosedForm
  BY RebaseIsKSentry, DigestIsSpec, PTL

-----------------------------------------------------------------------------
(***************************************************************************)
(* A K-Sentry digest composes through the shifted sum.  In a build that    *)
(* relies on its checks the digest of a beginning of the stream is exact   *)
(* because the accumulator passed through it without a panic; that it did  *)
(* is the inductive invariant.                                             *)
(***************************************************************************)
BeginningsExact ==
    /\ ks = ksentry_fast(xs)
    /\ \A s \in 0 .. Len(xs) : ksentry_fast(Ahead(xs, s)).acc
                                  = ksentry_spec(Ahead(xs, s))

LEMMA AheadOfAppend ==
    ASSUME NEW xvs \in Seq(Nat), NEW x \in Nat
    PROVE  /\ \A s \in 0 .. Len(xvs) : Ahead(Append(xvs, x), s) = Ahead(xvs, s)
           /\ Ahead(Append(xvs, x), Len(xvs) + 1) = Append(xvs, x)
<1>1. ASSUME NEW s \in 0 .. Len(xvs) PROVE Ahead(Append(xvs, x), s) = Ahead(xvs, s)
  BY SubSeqOfAppend DEF Ahead
<1> DEFINE yvs == Append(xvs, x)
<1>2. yvs \in Seq(Nat) /\ Len(yvs) = Len(xvs) + 1 /\ Len(xvs) \in Nat
  BY LenProperties, AppendProperties
<1> HIDE DEF yvs
<1>3. /\ Ahead(yvs, Len(yvs)) \in Seq(Nat) /\ Len(Ahead(yvs, Len(yvs))) = Len(yvs)
      /\ \A n \in 1 .. Len(yvs) : Ahead(yvs, Len(yvs))[n] = yvs[n]
  <2>1. Len(yvs) \in 0 .. Len(yvs)
    BY <1>2
  <2> QED
    BY <1>2, <2>1, CutTyped
<1>4. Ahead(yvs, Len(yvs)) = yvs
  BY <1>2, <1>3, SeqEqual
<1> QED
  BY <1>1, <1>2, <1>4 DEF yvs

LEMMA BeginningsStay ==
    ASSUME SafeBuild, TypeOK, ClosedForm, BeginningsExact, [RebaseNext]_vars
    PROVE  BeginningsExact'
<1>1. ASSUME NEW x \in Inputs, Update(x) PROVE BeginningsExact'
  <2>1. /\ xs \in Seq(Nat) /\ x \in Nat /\ ~ UpdateOverflows(ks, x)
        /\ xs' = Append(xs, x) /\ ks' = update(ks, x) /\ ks \in Struct
    BY <1>1, TypedState, UpdateIsExact DEF Update
  <2>2. Len(xs') = Len(xs) + 1 /\ Len(xs) \in Nat
    BY <2>1, LenProperties, AppendProperties
  <2>3. ks' = ksentry_fast(xs')
    BY <2>1, NewTyped, UpdatedAppend DEF BeginningsExact, ksentry_fast
  <2>4. ks'.acc = ksentry_spec(xs')
    <3>1. IsStateAfter(ks, xs)
      BY ClosedFormIsState
    <3> QED
      BY <2>1, <3>1, UpdateKeepsState DEF IsStateAfter
  <2>5. ASSUME NEW s \in 0 .. Len(xs')
        PROVE  ksentry_fast(Ahead(xs', s)).acc = ksentry_spec(Ahead(xs', s))
    <3>1. CASE s \in 0 .. Len(xs)
      BY <2>1, <3>1, AheadOfAppend DEF BeginningsExact
    <3>2. CASE s = Len(xs) + 1
      BY <2>1, <2>3, <2>4, <3>2, AheadOfAppend
    <3> QED
      BY <2>2, <3>1, <3>2
  <2> QED
    BY <2>3, <2>5 DEF BeginningsExact
<1>2. ASSUME NEW x \in Inputs, UpdatePanics(x) PROVE BeginningsExact'
  BY <1>2 DEF UpdatePanics, BeginningsExact
<1>3. CASE UNCHANGED vars
  BY <1>3 DEF vars, BeginningsExact
<1> QED
  BY <1>1, <1>2, <1>3 DEF RebaseNext

LEMMA BeginningsInit == Init => BeginningsExact
<1> SUFFICES ASSUME Init PROVE BeginningsExact
  OBVIOUS
<1>1. << >> \in Seq(Nat) /\ Len(<< >>) = 0
  BY EmptySeq
<1>2. ksentry_fast(<< >>) = new
  BY NewTyped, UpdatedEmpty DEF ksentry_fast
<1>3. ksentry_fast(<< >>).acc = ksentry_spec(<< >>)
  BY <1>2, SpecEmpty DEF new
<1>4. Ahead(<< >>, 0) = << >>
  <2>1. Ahead(<< >>, 0) \in Seq(Nat) /\ Len(Ahead(<< >>, 0)) = 0
    <3>1. 0 \in 0 .. Len(<< >>)
      BY <1>1
    <3> QED
      BY <1>1, <3>1, CutTyped, Zenon
  <2> QED
    BY <2>1, EmptySeq
<1> QED
  BY <1>1, <1>2, <1>3, <1>4 DEF Init, BeginningsExact

ComposesAt(xvs, s, d) ==
    LET shifted == ksentry_shifted_spec(Behind(xvs, s), s)
    IN  ~ shifted.panics =>
          mod_add(ksentry_fast(Ahead(xvs, s)).acc, shifted.value, P) = d

LEMMA ShiftedAddsUp ==
    ASSUME NEW xvs \in Seq(Nat), NEW s \in 0 .. Len(xvs), SumsFit,
           ksentry_fast(Ahead(xvs, s)).acc = ksentry_spec(Ahead(xvs, s))
    PROVE  ComposesAt(xvs, s, ksentry_spec(xvs))
<1> DEFINE N == Len(xvs)
           m == N - s
           yvs == Ahead(xvs, s)
           zvs == Behind(xvs, s)
           w == PowersOf(Triangular(N, 0), N)
           v == PowersOf(Triangular(s, 0), s)
           u == PowersOf(Triangular(m, s), m)
           shifted == ksentry_shifted_spec(zvs, s)
<1>1. /\ N \in Nat /\ s \in Nat /\ s <= N /\ m \in Nat
      /\ yvs \in Seq(Nat) /\ Len(yvs) = s
      /\ zvs \in Seq(Nat) /\ Len(zvs) = m
  <2>1. N \in Nat /\ s \in Nat /\ s <= N
    BY CutTyped
  <2>2. m \in Nat
    BY <2>1
  <2> QED
    BY <2>1, <2>2, CutTyped
<1>2. SUFFICES ASSUME ~ shifted.panics
               PROVE  mod_add(ksentry_fast(yvs).acc, shifted.value, P)
                         = ksentry_spec(xvs)
  BY DEF ComposesAt
<1>3. shifted = WeighedSum(zvs, Triangular(m, s))
      /\ Triangular(m, s) \in [1 .. m -> Nat]
  <2>1. Triangular(m, s) \in [1 .. m -> Nat]
    BY <1>1, SchedulesTyped
  <2> HIDE DEF yvs, zvs, m
  <2> QED
    BY <1>1, <2>1 DEF ksentry_shifted_spec, Triangular
<1>4. (\A n \in 1 .. s : w[n] = v[n]) /\ (\A n \in 1 .. m : u[n] = w[s + n])
  <2>1. ASSUME NEW n \in 1 .. s PROVE w[n] = v[n]
    BY <1>1 DEF PowersOf, Triangular
  <2>2. ASSUME NEW n \in 1 .. m PROVE u[n] = w[s + n]
    <3>1. s + n \in 1 .. N /\ (s + n) - 1 + 0 = (n - 1) + s
      BY <1>1
    <3> QED
      BY <3>1 DEF PowersOf, Triangular
  <2> QED
    BY <2>1, <2>2
<1>5. PICK f : IsWeighed(f, xvs, w) /\ ksentry_spec(xvs) = f[N]
  BY SpecIsSum
<1>6. PICK g : IsWeighed(g, yvs, v) /\ ksentry_spec(yvs) = g[s]
  <2> HIDE DEF yvs
  <2> QED
    BY <1>1, SpecIsSum
<1>7. PICK h : IsWeighed(h, zvs, u) /\ shifted.value = h[m]
  <2> HIDE DEF zvs, m
  <2> QED
    BY <1>1, <1>2, <1>3, ShiftedIsSum
<1> HIDE DEF shifted, w, v, u
<1>8. f[N] = (g[s] + h[m]) % P
  <2>1. SplitsAt(xvs, s, w, v, u)
    BY <1>4, CutSplits
  <2> QED
    BY <1>5, <1>6, <1>7, <2>1 DEF SplitsAt
<1>9. g[s] \in Field /\ h[m] \in Field
  <2>1. s \in 0 .. Len(yvs) /\ m \in 0 .. Len(zvs)
    BY <1>1
  <2> QED
    BY <1>6, <1>7, <2>1 DEF IsWeighed
<1> HIDE DEF yvs, zvs, m
<1> QED
  BY <1>5, <1>6, <1>7, <1>8, <1>9, SumExact DEF yvs

(***************************************************************************)
(* The digest of what came before a chunk and the shifted sum of the chunk *)
(* add up to the digest of the stream, wherever the chunk lies.            *)
(***************************************************************************)
THEOREM ShiftedAlwaysComposes ==
    SafeBuild /\ SumsFit /\ RebaseSpec => []ShiftedComposes
<1>1. ASSUME SumsFit, TypeOK, ClosedForm, BeginningsExact PROVE ShiftedComposes
  <2>1. xs \in Seq(Nat) /\ ks.acc = ksentry_spec(xs)
    BY <1>1, TypedState DEF ClosedForm
  <2>2. ASSUME NEW s \in 0 .. Len(xs) PROVE ComposesAt(xs, s, ks.acc)
    BY <1>1, <2>1, ShiftedAddsUp DEF BeginningsExact
  <2> QED
    BY <2>2 DEF ShiftedComposes, ComposesAt, Ahead, Behind, Chunk, Before
<1>2. SafeBuild /\ TypeOK /\ ClosedForm /\ BeginningsExact /\ [RebaseNext]_vars
          => BeginningsExact'
  BY BeginningsStay
<1> QED
  BY <1>1, <1>2, BeginningsInit, TypeCorrect, RebaseDigestIsSpec, RebaseIsKSentry,
     SafeBuildStays, SumsFitStays, PTL DEF RebaseSpec

-----------------------------------------------------------------------------
(***************************************************************************)
(* Over a prime that does not divide q the powers of q repeat: one of the  *)
(* first p - 1 is 1 again, since there are p of them from q^0 on and only  *)
(* p - 1 residues that they can be.                                        *)
(***************************************************************************)
LEMMA PowOfSum ==
    ASSUME NEW a \in Nat, NEW b \in Nat, Pow[b] = 1
    PROVE  Pow[a + b] = Pow[a]
<1>1. Pow[a] \in 0 .. (P - 1) /\ Pow[a + b] = (Pow[a] * Pow[b]) % P
  BY PowRange, PowAdd
<1>2. Pow[a] * 1 = Pow[a]
  BY <1>1, ParamAssumption
<1> QED
  BY <1>1, <1>2, ModSmall

LEMMA PowCancel ==
    ASSUME PrimeParams, NEW a \in Nat, NEW d \in Nat, Pow[a + d] = Pow[a]
    PROVE  Pow[d] = 1
<1> DEFINE x == Pow[a]
           y == Pow[d]
<1>1. x \in 0 .. (P - 1) /\ y \in 0 .. (P - 1) /\ Pow[a + d] = (x * y) % P
  BY PowRange, PowAdd
<1>2. x % P # 0
  BY PowNeverZero DEF PrimeParams
<1> HIDE DEF x, y
<1>3. x \in Int /\ y \in Int /\ x % P = x /\ y % P = y /\ 1 % P = 1
  BY <1>1, ModSmall, ParamAssumption
<1>4. (y * x) % P = (1 * x) % P
  <2>1. y * x = x * y /\ 1 * x = x
    BY <1>3
  <2>2. (x * y) % P = x
    BY <1>1 DEF x
  <2> QED
    BY <1>3, <2>1, <2>2
<1>5. y % P = 1 % P
  BY <1>2, <1>3, <1>4, ModCancelFactor DEF PrimeParams
<1> QED
  BY <1>3, <1>5 DEF y

LEMMA PowersRepeat ==
    ASSUME PrimeParams
    PROVE  \E k \in 1 .. (P - 1) : Pow[k] = 1
<1> DEFINE S == 0 .. (P - 1)
           T == 1 .. (P - 1)
           f == [e \in S |-> Pow[e]]
<1>1. P \in Int /\ P > 1
  BY ParamAssumption
<1>2. f \in [S -> T]
  <2>1. ASSUME NEW e \in S PROVE Pow[e] \in T
    <3>1. e \in Nat
      BY <1>1
    <3>2. Pow[e] \in 0 .. (P - 1) /\ Pow[e] % P # 0
      BY <3>1, PowRange, PowNeverZero DEF PrimeParams
    <3>3. Pow[e] # 0
      BY <3>2, ModSmall
    <3> QED
      BY <3>2, <3>3
  <2> QED
    BY <2>1
<1>3. /\ IsFiniteSet(S) /\ Cardinality(S) = P
      /\ IsFiniteSet(T) /\ Cardinality(T) = P - 1
  <2>1. 0 \in Int /\ 1 \in Int /\ P - 1 \in Int
    BY <1>1
  <2>2. /\ IsFiniteSet(0 .. (P - 1))
        /\ Cardinality(0 .. (P - 1)) = IF 0 > P - 1 THEN 0 ELSE (P - 1) - 0 + 1
    BY <2>1, FS_Interval
  <2>3. /\ IsFiniteSet(1 .. (P - 1))
        /\ Cardinality(1 .. (P - 1)) = IF 1 > P - 1 THEN 0 ELSE (P - 1) - 1 + 1
    BY <2>1, FS_Interval
  <2> QED
    BY <1>1, <2>2, <2>3
<1> HIDE DEF f
<1>4. \E i, j \in S : i # j /\ f[i] = f[j]
  <2>1. Cardinality(T) < Cardinality(S)
    BY <1>1, <1>3
  <2> HIDE DEF S, T
  <2> QED
    BY <1>2, <1>3, <2>1, FS_PigeonHole
<1>5. PICK i \in S, j \in S : i < j /\ f[i] = f[j]
  <2>1. PICK i \in S, j \in S : i # j /\ f[i] = f[j]
    BY <1>4
  <2> QED
    BY <1>1, <2>1
<1>6. Pow[i] = Pow[j]
  BY <1>5 DEF f
<1>7. /\ i \in Nat /\ j - i \in Nat /\ i + (j - i) = j /\ j - i \in 1 .. (P - 1)
  BY <1>1, <1>5
<1>8. Pow[j - i] = 1
  BY <1>6, <1>7, PowCancel
<1> QED
  BY <1>7, <1>8

LEMMA PowOfMultiple ==
    ASSUME NEW k \in Nat, NEW c \in Nat, Pow[k] = 1
    PROVE  Pow[c * k] = 1
<1> DEFINE B == {n \in Nat : Pow[n * k] = 1}
<1>1. 0 \in B
  <2>1. 0 * k = 0
    OBVIOUS
  <2> QED
    BY <2>1, PowStep
<1>2. ASSUME NEW n \in Nat, n \in B PROVE n + 1 \in B
  <2>1. n * k \in Nat /\ (n + 1) * k = n * k + k
    OBVIOUS
  <2>2. Pow[n * k + k] = Pow[n * k]
    BY <2>1, PowOfSum
  <2> QED
    BY <1>2, <2>1, <2>2
<1> HIDE DEF B
<1>3. c \in B
  BY <1>1, <1>2, SetInduction
<1> QED
  BY <1>3 DEF B

(***************************************************************************)
(* So every power is one of the scalars q^e that a search up to p - 2      *)
(* tries.                                                                  *)
(***************************************************************************)
LEMMA SmallExponent ==
    ASSUME PrimeParams, NEW n \in Nat
    PROVE  \E e \in 0 .. (P - 2) : Pow[e] = Pow[n]
<1>1. PICK k \in 1 .. (P - 1) : Pow[k] = 1
  BY PowersRepeat
<1> DEFINE c == n \div k
           e == n % k
<1>2. k \in Nat /\ k > 0 /\ k <= P - 1
  BY <1>1, ParamAssumption
<1>3. n = c * k + e /\ e \in 0 .. (k - 1) /\ c \in Int
  BY <1>2, Division
<1>4. c \in Nat
  BY <1>2
<1> HIDE DEF c, e
<1>5. e \in Nat /\ e <= P - 2 /\ c * k \in Nat /\ n = e + c * k
  BY <1>2, <1>3, <1>4, ParamAssumption
<1>6. Pow[c * k] = 1
  BY <1>1, <1>2, <1>4, PowOfMultiple
<1>7. Pow[e + c * k] = Pow[e]
  BY <1>5, <1>6, PowOfSum
<1> QED
  BY <1>5, <1>7, ParamAssumption

-----------------------------------------------------------------------------
(***************************************************************************)
(* A chunk with one event has one term.                                    *)
(***************************************************************************)
LEMMA OneEventTyped ==
    ASSUME NEW m \in Nat, NEW n \in 1 .. m
    PROVE  /\ OneEvent(m, n) \in Seq(Nat) /\ Len(OneEvent(m, n)) = m
           /\ \A k \in 1 .. m : OneEvent(m, n)[k] = IF k = n THEN 1 ELSE 0
<1>1. OneEvent(m, n) \in [1 .. m -> Nat]
  BY DEF OneEvent
<1>2. OneEvent(m, n) \in Seq(Nat) /\ Len(OneEvent(m, n)) = m
  BY <1>1, SeqDef, LenProperties
<1> QED
  BY <1>2 DEF OneEvent

LEMMA OneEventSum ==
    ASSUME NEW m \in Nat, NEW n \in 1 .. m, NEW w, NEW f,
           IsWeighed(f, OneEvent(m, n), w), w[n] \in Field
    PROVE  f[m] = w[n]
<1> DEFINE xvs == OneEvent(m, n)
           Good(k) == f[k] = IF k < n THEN 0 ELSE w[n]
           B == {k \in Nat : k <= m => Good(k)}
<1>1. /\ Len(xvs) = m /\ \A k \in 1 .. m : xvs[k] = IF k = n THEN 1 ELSE 0
  BY OneEventTyped
<1>2. /\ f[0] = 0
      /\ \A k \in 1 .. m : /\ w[k] \in Nat
                           /\ f[k] = (f[k - 1] + (xvs[k] % P) * w[k]) % P
  BY <1>1 DEF IsWeighed
<1> HIDE DEF xvs
<1>3. 0 % P = 0 /\ 1 % P = 1 /\ w[n] % P = w[n]
  BY ModSmall, ParamAssumption DEF Field
<1>4. 0 \in B
  BY <1>2
<1>5. ASSUME NEW k \in Nat, k \in B PROVE k + 1 \in B
  <2>1. SUFFICES ASSUME k + 1 <= m PROVE Good(k + 1)
    OBVIOUS
  <2>2. /\ k + 1 \in 1 .. m /\ (k + 1) - 1 = k /\ Good(k)
        /\ w[k + 1] \in Nat
        /\ f[k + 1] = (f[k] + (xvs[k + 1] % P) * w[k + 1]) % P
    BY <1>2, <1>5, <2>1
  <2>3. f[k] \in Int /\ f[k] % P = f[k]
    BY <1>3, <2>2, ParamAssumption DEF Field
  <2>4. CASE k + 1 = n
    <3>1. xvs[k + 1] % P = 1 /\ f[k] = 0
      BY <1>1, <1>3, <2>2, <2>4
    <3>2. 0 + 1 * w[k + 1] = w[k + 1]
      BY <2>2
    <3> QED
      BY <1>3, <2>2, <2>4, <3>1, <3>2
  <2>5. CASE k + 1 # n
    <3>1. xvs[k + 1] % P = 0
      BY <1>1, <1>3, <2>2, <2>5
    <3>2. f[k] + 0 * w[k + 1] = f[k]
      BY <2>2, <2>3
    <3>3. f[k + 1] = f[k]
      BY <2>2, <2>3, <3>1, <3>2
    <3> QED
      BY <2>2, <2>5, <3>3
  <2> QED
    BY <2>4, <2>5
<1> HIDE DEF B
<1>6. m \in B
  BY <1>4, <1>5, SetInduction
<1> QED
  BY <1>6 DEF B

LEMMA OneEventDigests ==
    ASSUME NoOverflow, NEW m \in Nat, NEW n \in 1 .. m, NEW e \in Nat, NEW s \in Nat
    PROVE  /\ fake_scalar_rebase(ksentry_fast(OneEvent(m, n)).acc, e).value
                 = Pow[triangular_exp(n - 1) + e]
           /\ ksentry_shifted_spec(OneEvent(m, n), s).value
                 = Pow[triangular_exp((n - 1) + s)]
<1> DEFINE xvs == OneEvent(m, n)
           T == triangular_exp(n - 1)
           d == ksentry_fast(xvs).acc
           w == PowersOf(Triangular(m, 0), m)
           u == PowersOf(Triangular(m, s), m)
<1>1. xvs \in Seq(Nat) /\ Len(xvs) = m
  BY OneEventTyped
<1>2. T \in Nat /\ triangular_exp((n - 1) + s) \in Nat
  BY TriangularStep
<1>3. w[n] = Pow[T] /\ u[n] = Pow[triangular_exp((n - 1) + s)]
  <2>1. (n - 1) + 0 = n - 1
    OBVIOUS
  <2> QED
    BY <2>1 DEF PowersOf, Triangular
<1>4. w[n] \in Field /\ u[n] \in Field
  BY <1>2, <1>3, PowRange DEF Field
<1> HIDE DEF w, u
<1>5. d = Pow[T]
  <2>1. d = ksentry_spec(xvs)
    BY <1>1, FastIsSpec DEF IsStateAfter
  <2>2. PICK f : IsWeighed(f, xvs, w) /\ ksentry_spec(xvs) = f[m]
    BY <1>1, SpecIsSum DEF w
  <2> QED
    BY <1>3, <1>4, <2>1, <2>2, OneEventSum
<1>6. fake_scalar_rebase(d, e).value = Pow[T + e]
  <2>1. d \in Field
    BY <1>3, <1>4, <1>5
  <2> HIDE DEF d, T
  <2>2. ~ mod_pow(Q, e).panics /\ mod_pow(Q, e).value \in Field
    BY PowLoopExact, PowNeverPanics
  <2>3. ~ MulOverflows(d, mod_pow(Q, e).value, P)
    BY <2>1, <2>2, NoHelperOverflows
  <2>4. ~ rolling_rebase_digest(d, e).panics
    BY <2>2, <2>3 DEF rolling_rebase_digest
  <2>5. rolling_rebase_digest(d, e).value = (d * Pow[e]) % P
    BY <2>1, <2>4, RebasedExact
  <2> QED
    BY <1>2, <1>5, <2>5, PowAdd DEF fake_scalar_rebase
<1>7. ksentry_shifted_spec(xvs, s).value = u[n]
  <2>1. Triangular(m, s) \in [1 .. m -> Nat]
    BY SchedulesTyped
  <2> HIDE DEF xvs
  <2>2. ksentry_shifted_spec(xvs, s) = WeighedSum(xvs, Triangular(m, s))
    BY <1>1 DEF ksentry_shifted_spec, Triangular
  <2>3. PICK f : /\ IsWeighed(f, xvs, u)
                 /\ WeighedSum(xvs, Triangular(m, s)).value = f[m]
    BY <1>1, <2>1, ShiftedIsSum DEF u
  <2> QED
    BY <1>4, <2>2, <2>3, OneEventSum DEF xvs
<1> QED
  BY <1>3, <1>6, <1>7

-----------------------------------------------------------------------------
(***************************************************************************)
(* T_(a+b) = T_a + T_b + a b: the last term is why a shift by b moves      *)
(* different positions differently.                                        *)
(***************************************************************************)
LEMMA TriangularSum ==
    ASSUME NEW a \in Nat, NEW b \in Nat
    PROVE  triangular_exp(a + b) = (triangular_exp(a) + triangular_exp(b)) + a * b
<1> DEFINE Good(n) == triangular_exp(n + b)
                         = (triangular_exp(n) + triangular_exp(b)) + n * b
           B == {n \in Nat : Good(n)}
<1>1. triangular_exp(b) \in Nat /\ triangular_exp(0) = 0
  BY TriangularStep DEF triangular_exp
<1>2. 0 \in B
  BY <1>1
<1>3. ASSUME NEW n \in Nat, n \in B PROVE n + 1 \in B
  <2>1. /\ triangular_exp(n + 1) = triangular_exp(n) + (n + 1)
        /\ triangular_exp(n) \in Nat
    BY TriangularStep
  <2>2. triangular_exp((n + b) + 1) = triangular_exp(n + b) + ((n + b) + 1)
    BY TriangularStep, n + b \in Nat
  <2>3. (n + b) + 1 = (n + 1) + b /\ (n + 1) * b = n * b + b /\ n * b \in Nat
    OBVIOUS
  <2> HIDE DEF Good
  <2>4. triangular_exp(n + b) = (triangular_exp(n) + triangular_exp(b)) + n * b
    BY <1>3 DEF Good
  <2>5. PICK x \in Nat, y \in Nat, z \in Nat :
            x = triangular_exp(n) /\ y = triangular_exp(b) /\ z = n * b
    BY <1>1, <2>1, <2>3
  <2>6. ((x + y) + z) + ((n + b) + 1) = ((x + (n + 1)) + y) + (z + b)
    OBVIOUS
  <2>7. triangular_exp((n + 1) + b)
            = (triangular_exp(n + 1) + triangular_exp(b)) + (n + 1) * b
    BY <2>1, <2>2, <2>3, <2>4, <2>5, <2>6
  <2> QED
    BY <2>7 DEF Good
<1> HIDE DEF B
<1>4. a \in B
  BY <1>2, <1>3, SetInduction
<1> QED
  BY <1>4 DEF B

LEMMA FirstTriangles == triangular_exp(0) = 0 /\ triangular_exp(1) = 1
  BY DEF triangular_exp

(***************************************************************************)
(* One scalar for every one-event chunk of a length, exactly where the     *)
(* shift does nothing to it.                                               *)
(***************************************************************************)
OneScalar(m, s, e) ==
    \A n \in 1 .. m : Pow[triangular_exp(n - 1) + e] = Pow[triangular_exp((n - 1) + s)]

LEMMA ScalarOnlyTrivially ==
    ASSUME PrimeParams, NEW m \in Nat, NEW s \in Nat, NEW e \in Nat,
           OneScalar(m, s, e), m > 1
    PROVE  Pow[s] = 1
<1> DEFINE t == triangular_exp(s)
<1>1. t \in Nat /\ 1 \in 1 .. m /\ 2 \in 1 .. m
  BY TriangularStep
<1>2. Pow[e] = Pow[t]
  <2>1. 1 - 1 = 0 /\ 0 + e = e /\ 0 + s = s
    OBVIOUS
  <2> QED
    BY <1>1, <2>1, FirstTriangles DEF OneScalar
<1>3. Pow[1 + e] = Pow[triangular_exp(1 + s)]
  <2>1. 2 - 1 = 1
    OBVIOUS
  <2> QED
    BY <1>1, <2>1, FirstTriangles DEF OneScalar
<1>4. triangular_exp(1 + s) = (1 + t) + s
  <2>1. 1 * s = s /\ 1 \in Nat
    OBVIOUS
  <2>2. triangular_exp(1 + s) = (triangular_exp(1) + t) + 1 * s
    BY <2>1, TriangularSum
  <2> QED
    BY <2>1, <2>2, FirstTriangles
<1> HIDE DEF t
<1>5. Pow[1 + e] = Pow[1 + t]
  <2>1. 1 \in Nat
    OBVIOUS
  <2>2. Pow[1 + e] = (Pow[1] * Pow[e]) % P /\ Pow[1 + t] = (Pow[1] * Pow[t]) % P
    BY <1>1, <2>1, PowAdd
  <2> QED
    BY <1>2, <2>2
<1>6. 1 + t \in Nat
  BY <1>1
<1>7. Pow[(1 + t) + s] = Pow[1 + t]
  <2>1. Pow[triangular_exp(1 + s)] = Pow[(1 + t) + s]
    BY <1>4, Zenon
  <2> QED
    BY <2>1, <1>3, <1>5, Zenon
<1> QED
  BY <1>6, <1>7, PowCancel

LEMMA ScalarFound ==
    ASSUME PrimeParams, NEW m \in Nat, NEW s \in Nat, m <= 1 \/ Pow[s] = 1
    PROVE  \E e \in 0 .. (P - 2) : OneScalar(m, s, e)
<1> DEFINE t == triangular_exp(s)
<1>1. t \in Nat
  BY TriangularStep
<1>2. PICK e \in 0 .. (P - 2) : Pow[e] = Pow[t]
  BY <1>1, SmallExponent
<1> HIDE DEF t
<1>3. ASSUME NEW n \in 1 .. m
      PROVE Pow[triangular_exp(n - 1) + e] = Pow[triangular_exp((n - 1) + s)]
  <2> DEFINE a == triangular_exp(n - 1)
             c == n - 1
  <2>1. c \in Nat /\ a \in Nat /\ e \in Nat /\ c * s \in Nat /\ a + t \in Nat
    BY <1>1, TriangularStep
  <2>2. triangular_exp(c + s) = (a + t) + c * s
    BY <2>1, TriangularSum DEF t
  <2>3. Pow[a + e] = Pow[a + t]
    <3>1. Pow[a + e] = (Pow[a] * Pow[e]) % P /\ Pow[a + t] = (Pow[a] * Pow[t]) % P
      BY <1>1, <2>1, PowAdd
    <3> QED
      BY <1>2, <3>1
  <2>4. CASE m <= 1
    <3>1. c = 0 /\ c * s = 0
      BY <2>4
    <3> QED
      BY <2>1, <2>2, <2>3, <3>1
  <2>5. CASE Pow[s] = 1
    <3>1. Pow[c * s] = 1
      BY <2>1, <2>5, PowOfMultiple
    <3>2. Pow[(a + t) + c * s] = Pow[a + t]
      BY <2>1, <3>1, PowOfSum
    <3> QED
      BY <2>2, <2>3, <3>2
  <2> QED
    BY <2>4, <2>5
<1> QED
  BY <1>3 DEF OneScalar

AntiRebaseAt(m, s) ==
    (\E e \in 0 .. (P - 2) : \A n \in 1 .. m : Rebases(e, OneEvent(m, n), s))
        <=> (m <= 1 \/ Pow[s] = 1)

LEMMA OneScalarExactly ==
    ASSUME PrimeParams, NEW m \in Nat, NEW s \in Nat
    PROVE  AntiRebaseAt(m, s)
<1>1. ASSUME NEW e \in 0 .. (P - 2)
      PROVE  (\A n \in 1 .. m : Rebases(e, OneEvent(m, n), s)) = OneScalar(m, s, e)
  <2>1. e \in Nat
    BY ParamAssumption
  <2>2. ASSUME NEW n \in 1 .. m
        PROVE  Rebases(e, OneEvent(m, n), s)
                 <=> Pow[triangular_exp(n - 1) + e] = Pow[triangular_exp((n - 1) + s)]
    BY <2>1, OneEventDigests DEF Rebases, PrimeParams
  <2> QED
    BY <2>2 DEF OneScalar
<1>2. ASSUME NEW e \in 0 .. (P - 2), OneScalar(m, s, e) PROVE m <= 1 \/ Pow[s] = 1
  <2>1. e \in Nat
    BY ParamAssumption
  <2> QED
    BY <1>2, <2>1, ScalarOnlyTrivially
<1>3. (m <= 1 \/ Pow[s] = 1) => \E e \in 0 .. (P - 2) : OneScalar(m, s, e)
  BY ScalarFound
<1> QED
  BY <1>1, <1>2, <1>3 DEF AntiRebaseAt

LEMMA DemoExactly ==
    ASSUME PrimeParams
    PROVE  demo_ksentry_not_one_scalar_rebase <=> Pow[1] \notin {0, 1}
<1> DEFINE a == OneEvent(2, 1)
           b == OneEvent(2, 2)
<1>1. a = <<1, 0>> /\ b = <<0, 1>>
  BY DEF OneEvent
<1>2. 2 \in Nat /\ 1 \in Nat /\ 1 \in 1 .. 2 /\ 2 \in 1 .. 2 /\ NoOverflow
  BY DEF PrimeParams
<1>3. /\ fake_scalar_rebase(ksentry_fast(a).acc, 1).value
            = Pow[triangular_exp(1 - 1) + 1]
      /\ ksentry_shifted_spec(a, 1).value = Pow[triangular_exp((1 - 1) + 1)]
      /\ fake_scalar_rebase(ksentry_fast(b).acc, 1).value
            = Pow[triangular_exp(2 - 1) + 1]
      /\ ksentry_shifted_spec(b, 1).value = Pow[triangular_exp((2 - 1) + 1)]
  BY <1>2, OneEventDigests
<1>4. triangular_exp(2) = 3
  BY DEF triangular_exp
<1>5. /\ fake_scalar_rebase(ksentry_fast(a).acc, 1).value = Pow[1]
      /\ ksentry_shifted_spec(a, 1).value = Pow[1]
      /\ fake_scalar_rebase(ksentry_fast(b).acc, 1).value = Pow[2]
      /\ ksentry_shifted_spec(b, 1).value = Pow[2 + 1]
  <2>1. /\ 1 - 1 = 0 /\ 0 + 1 = 1 /\ 2 - 1 = 1 /\ 1 + 1 = 2 /\ 2 + 1 = 3
    OBVIOUS
  <2> QED
    BY <1>3, <1>4, <2>1, FirstTriangles
<1>6. demo_ksentry_not_one_scalar_rebase <=> Pow[2] # Pow[2 + 1]
  BY <1>1, <1>5 DEF demo_ksentry_not_one_scalar_rebase
<1>7. Pow[2] = Pow[2 + 1] <=> Pow[1] = 1
  BY <1>2, PowCancel, PowOfSum
<1>8. Pow[1] # 0
  <2>1. Pow[1] % P # 0 /\ 0 % P = 0
    BY <1>2, PowNeverZero, ModSmall, ParamAssumption DEF PrimeParams
  <2> QED
    BY <2>1
<1> QED
  BY <1>6, <1>7, <1>8

(***************************************************************************)
(* No scalar moves a K-Sentry digest, unless the shift does nothing to it: *)
(* for every prime, every base that is no multiple of it, and chunks of    *)
(* any length.                                                             *)
(***************************************************************************)
THEOREM AntiRebaseAlways == PrimeParams /\ RebaseSpec => []AntiRebaseExactly
<1>1. ASSUME PrimeParams, TypeOK PROVE AntiRebaseExactly
  <2>1. Len(xs) \in Nat
    BY <1>1, TypedState, LenProperties
  <2>2. ASSUME NEW s \in 0 .. Len(xs) PROVE AntiRebaseAt(Len(xs) - s, s)
    <3>1. Len(xs) - s \in Nat /\ s \in Nat
      BY <2>1
    <3> QED
      BY <1>1, <3>1, OneScalarExactly
  <2> QED
    BY <1>1, <2>2, DemoExactly DEF AntiRebaseExactly, AntiRebaseAt
<1> QED
  BY <1>1, TypeCorrect, RebaseIsKSentry, PrimeParamsStay, PTL

-----------------------------------------------------------------------------

(***************************************************************************)
(* theorem_one_scalar_composition_implies_shift_equivariance               *)
(***************************************************************************)
LEMMA OneScalarShifts ==
    ASSUME NEW n \in Nat, NEW phi \in [0 .. (n - 1) -> Int], NEW k \in Int,
           one_scalar_composition_exponents(phi, n, k)
    PROVE  shift_equivariant_exponents(phi, n, k)
<1>1. ASSUME NEW i \in 0 .. (n - 1 - k), NEW j \in 0 .. (n - 1 - k)
      PROVE  phi[i + k] - phi[i] = phi[j + k] - phi[j]
  <2>1. k \in 0 .. (n - 1)
    BY DEF one_scalar_composition_exponents
  <2>2. i + k = k + i /\ j + k = k + j
    BY <2>1
  <2>3. phi[k + i] - phi[i] = phi[k + j] - phi[j]
    BY DEF one_scalar_composition_exponents
  <2> QED
    BY <2>2, <2>3
<1> QED
  BY <1>1 DEF shift_equivariant_exponents, one_scalar_composition_exponents

(***************************************************************************)
(* theorem_affine_implies_shift_equivariant, for every shift at once       *)
(***************************************************************************)
LEMMA AffineComposes ==
    ASSUME NEW n \in Nat, NEW phi \in [0 .. (n - 1) -> Int],
           finite_affine_exponents(phi, n)
    PROVE  one_scalar_composition_all_shifts(phi, n)
<1>1. PICK a \in Int, b \in Int : is_affine_with(phi, n, a, b)
  BY DEF finite_affine_exponents
<1>2. ASSUME NEW k \in 1 .. (n - 1), NEW j \in 0 .. (n - 1 - k)
      PROVE  phi[k + j] - phi[j] = a * k
  <2>1. k + j \in 0 .. (n - 1) /\ j \in 0 .. (n - 1)
    OBVIOUS
  <2>2. phi[k + j] = a * (k + j) + b /\ phi[j] = a * j + b
    BY <1>1, <2>1 DEF is_affine_with, affine_exp
  <2>3. a * (k + j) = a * k + a * j
    OBVIOUS
  <2>4. a * k \in Int /\ a * j \in Int
    OBVIOUS
  <2> QED
    BY <2>2, <2>3, <2>4
<1>3. ASSUME NEW k \in 1 .. (n - 1)
      PROVE  one_scalar_composition_exponents(phi, n, k)
  <2>1. k \in 0 .. (n - 1)
    OBVIOUS
  <2>2. ASSUME NEW j \in 0 .. (n - 1 - k), NEW l \in 0 .. (n - 1 - k)
        PROVE  phi[k + j] - phi[j] = phi[k + l] - phi[l]
    <3>1. phi[k + j] - phi[j] = a * k
      BY <1>2
    <3>2. phi[k + l] - phi[l] = a * k
      BY <1>2
    <3> QED
      BY <3>1, <3>2
  <2> QED
    BY <2>1, <2>2 DEF one_scalar_composition_exponents
<1> QED
  BY <1>3 DEF one_scalar_composition_all_shifts

(***************************************************************************)
(* theorem_shift_equivariant_implies_affine: a schedule that a shift by    *)
(* one position moves uniformly is affine.                                 *)
(***************************************************************************)
LEMMA ShiftByOneIsAffine ==
    ASSUME NEW n \in Nat, n >= 2, NEW phi \in [0 .. (n - 1) -> Int],
           shift_equivariant_exponents(phi, n, 1)
    PROVE  finite_affine_exponents(phi, n)
<1> DEFINE a == phi[1] - phi[0]
           b == phi[0]
<1>1. a \in Int /\ b \in Int
  OBVIOUS
<1>2. \A i \in 0 .. (n - 2) : phi[i + 1] = phi[i] + a
  <2>1. ASSUME NEW i \in 0 .. (n - 2) PROVE phi[i + 1] = phi[i] + a
    <3>1. i \in 0 .. (n - 1 - 1) /\ 0 \in 0 .. (n - 1 - 1)
      OBVIOUS
    <3>2. phi[i + 1] - phi[i] = phi[0 + 1] - phi[0]
      BY <3>1 DEF shift_equivariant_exponents
    <3>3. phi[i + 1] \in Int /\ phi[i] \in Int
      OBVIOUS
    <3> QED
      BY <3>2, <3>3
  <2> QED
    BY <2>1
<1> DEFINE T == {i \in Nat : i <= n - 1 /\ phi[i] # a * i + b}
<1>3. T = {}
  <2>1. SUFFICES ASSUME T # {} PROVE FALSE
    OBVIOUS
  <2>2. PICK m \in T : \A k \in T : m <= k
    BY <2>1, NatMinimum
  <2>3. m # 0
    BY <2>2, <1>1
  <2>4. m - 1 \in 0 .. (n - 2) /\ m - 1 \notin T
    BY <2>2, <2>3
  <2>5. phi[m - 1] = a * (m - 1) + b
    BY <2>4
  <2>6. phi[m] = phi[m - 1] + a
    <3>1. (m - 1) + 1 = m
      BY <2>2
    <3> QED
      BY <1>2, <2>4, <3>1
  <2> HIDE DEF a, b
  <2>7. a * (m - 1) = a * m - a /\ a * m \in Int
    BY <1>1, <2>2
  <2>8. phi[m] = a * m + b
    BY <1>1, <2>5, <2>6, <2>7
  <2> QED
    BY <2>2, <2>8
<1> HIDE DEF a, b
<1>4. is_affine_with(phi, n, a, b)
  BY <1>3 DEF is_affine_with, affine_exp
<1> QED
  BY <1>1, <1>4 DEF finite_affine_exponents

(***************************************************************************)
(* "affine <=> shift-equivariant" and "exact one-scalar composition        *)
(* implies shift symmetry" (sections 15 and 16 of the Verus file) in one   *)
(* equivalence: a schedule of at least two positions composes by one       *)
(* scalar at every shift if and only if it is affine.                      *)
(***************************************************************************)
THEOREM OneScalarExactlyAffine ==
    ASSUME NEW n \in Nat, n >= 2, NEW phi \in [0 .. (n - 1) -> Int]
    PROVE  one_scalar_composition_all_shifts(phi, n)
               <=> finite_affine_exponents(phi, n)
<1>1. ASSUME one_scalar_composition_all_shifts(phi, n)
      PROVE  finite_affine_exponents(phi, n)
  <2>1. one_scalar_composition_exponents(phi, n, 1)
    BY <1>1 DEF one_scalar_composition_all_shifts
  <2>2. shift_equivariant_exponents(phi, n, 1)
    BY <2>1, OneScalarShifts
  <2> QED
    BY <2>2, ShiftByOneIsAffine
<1>2. ASSUME finite_affine_exponents(phi, n)
      PROVE  one_scalar_composition_all_shifts(phi, n)
  BY <1>2, AffineComposes
<1> QED
  BY <1>1, <1>2

-----------------------------------------------------------------------------
(***************************************************************************)
(* A shift by s moves the element at position 1 by s more than the one at  *)
(* position 0.                                                             *)
(***************************************************************************)
LEMMA TriangularGap ==
    ASSUME NEW s \in Nat
    PROVE  tri_gap_o1(1, s) = tri_gap_o1(0, s) + s
<1>1. /\ triangular_exp(s) \in Nat
      /\ triangular_exp(s + 1) = triangular_exp(s) + (s + 1)
  BY TriangularStep
<1>2. triangular_exp(0) \in Nat /\ triangular_exp(1) = triangular_exp(0) + 1
  <2>1. 0 + 1 = 1
    OBVIOUS
  <2> QED
    BY <2>1, TriangularStep
<1>3. 1 + s = s + 1 /\ 0 + s = s
  OBVIOUS
<1> QED
  BY <1>1, <1>2, <1>3 DEF tri_gap_o1

(***************************************************************************)
(* theorem_triangular_no_one_scalar_rebase_shift_one_o1 for every shift,   *)
(* where the Verus file has it for shift 1: no shift but 0 moves all       *)
(* triangular exponents alike.                                             *)
(***************************************************************************)
THEOREM TriangularNeverRebases ==
    ASSUME NEW s \in Nat \ {0}
    PROVE  ~ triangular_one_scalar_rebase_exponents_for_shift_o1(s)
<1>1. tri_gap_o1(1, s) = tri_gap_o1(0, s) + s
  BY TriangularGap
<1>2. tri_gap_o1(0, s) \in Int
  <2>1. triangular_exp(0) \in Nat /\ triangular_exp(0 + s) \in Nat
    <3>1. 0 \in Nat /\ 0 + s \in Nat
      OBVIOUS
    <3> QED
      BY <3>1, TriangularStep
  <2> QED
    BY <2>1 DEF tri_gap_o1
<1> QED
  BY <1>1, <1>2 DEF triangular_one_scalar_rebase_exponents_for_shift_o1

(***************************************************************************)
(* So the schedule of K-Sentry on three or more positions is not affine,   *)
(* and no chunk longer than two elements composes by one scalar at every   *)
(* shift (theorem_non_affine_no_one_scalar_composition).                   *)
(***************************************************************************)
THEOREM TriangularNotAffine ==
    ASSUME NEW n \in Nat, n >= 3
    PROVE  /\ ~ finite_affine_exponents(TriangularSchedule(n), n)
           /\ ~ one_scalar_composition_all_shifts(TriangularSchedule(n), n)
<1> DEFINE phi == TriangularSchedule(n)
<1>1. phi \in [0 .. (n - 1) -> Int]
  <2>1. \A i \in 0 .. (n - 1) : triangular_exp(i) \in Int
    BY TriangularStep
  <2> QED
    BY <2>1 DEF TriangularSchedule
<1>2. ~ one_scalar_composition_exponents(phi, n, 1)
  <2>1. SUFFICES ASSUME one_scalar_composition_exponents(phi, n, 1)
                 PROVE  FALSE
    OBVIOUS
  <2>2. 0 \in 0 .. (n - 1 - 1) /\ 1 \in 0 .. (n - 1 - 1)
    OBVIOUS
  <2>3. phi[1 + 1] - phi[1] = phi[1 + 0] - phi[0]
    BY <2>1, <2>2 DEF one_scalar_composition_exponents
  <2>4. tri_gap_o1(1, 1) = tri_gap_o1(0, 1)
    <3>1. /\ phi[1 + 1] = triangular_exp(1 + 1)
          /\ phi[1 + 0] = triangular_exp(0 + 1)
          /\ phi[1] = triangular_exp(1)
          /\ phi[0] = triangular_exp(0)
      BY DEF TriangularSchedule
    <3> QED
      BY <2>3, <3>1 DEF tri_gap_o1
  <2>5. tri_gap_o1(1, 1) = tri_gap_o1(0, 1) + 1
    BY TriangularGap
  <2>6. tri_gap_o1(0, 1) \in Int
    BY TriangularStep DEF tri_gap_o1
  <2> QED
    BY <2>4, <2>5, <2>6
<1> HIDE DEF phi
<1>3. ~ one_scalar_composition_all_shifts(phi, n)
  BY <1>2 DEF one_scalar_composition_all_shifts
<1>4. ~ finite_affine_exponents(phi, n)
  BY <1>1, <1>3, OneScalarExactlyAffine
<1> QED
  BY <1>3, <1>4 DEF phi
=============================================================================
