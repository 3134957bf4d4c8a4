------------------------------ MODULE Metrics ------------------------------
(***************************************************************************)
(* The two telemetry experiments of ksentry-metrics: main.rs ("main") and  *)
(* bin/main1.rs ("main1").  Each samples the machine, keeps the usable     *)
(* entries, digests them on 64-bit words under a prime just below 2^64,    *)
(* then damages the log in five ways, one after the other, and reports     *)
(* what the digest says of each.                                           *)
(*                                                                         *)
(* An experiment weighs entry i (from 0) by q^(i i) in main.rs and by      *)
(* q^(i (i + 1) / 2) in main1.rs.  Positions are counted from 1 here, the  *)
(* indices the weights are computed from stay those of the code.           *)
(***************************************************************************)
EXTENDS Modulus, FiniteSets, Sequences
LOCAL INSTANCE SequencesExt
LOCAL INSTANCE FiniteSetsExt

CONSTANTS
    Bases,          \* the values of q an experiment may be built with
    Entries,        \* the packed log entries a sample may give
    InsertionValue, \* the entry the insertion attack adds
    Samples,        \* the number of samples taken
    BigLen          \* length of the repeated log of the second section

ASSUME MetricsAssumption ==
    /\ P < Word
    /\ Bases \subseteq 1 .. (P - 1)
    /\ Entries \subseteq 0 .. (Word - 1) /\ InsertionValue \in Entries
    /\ Samples \in Nat \ {0, 1}
    /\ BigLen \in Nat \ {0, 1}

VARIABLES
    binary,         \* which of the two programs runs
    q,              \* the base its KSentry was built with
    pc,             \* the section of main it is in
    logs,           \* the log being sampled, then the usable log
    cases,          \* the attacks done, in order, with what was reported
    composition     \* the outcome of the composition test

vars == <<binary, q, pc, logs, cases, composition>>

None == 0           \* no position: positions start at 1
Unset == << >>      \* the composition test has not run

-----------------------------------------------------------------------------
(***************************************************************************)
(* Plausible bugs of the definitions below, for the mutation checks.       *)
(***************************************************************************)
AddThenReduce(a, b, p) == ((a + b) % Word) % p

LinearWeight(base, i, p) == (base ^ i) % p

LinearBound(b, n) == n - 1

WindowWithoutEnd(l1, l2) ==
    LET bad == {i \in 1 .. Len(l1) : l1[i] # l2[i]}
    IN  IF bad = {} THEN <<None, None>>
        ELSE <<Min(bad), IF Cardinality(bad) = 1 THEN Min(bad) ELSE Max(bad) - 1>>

-----------------------------------------------------------------------------
(***************************************************************************)
(* Arithmetic on u64 words; products are taken in u128 and always fit.     *)
(* add_mod_u64 never forms a sum that is p or more, so it is safe for any  *)
(* p below the word, where adding first and reducing afterwards is not.    *)
(***************************************************************************)
add_mod_u64(a, b, p) ==
    LET t == (p - b) % Word
    IN  IF a >= t THEN a - t ELSE (a + b) % Word

mul_mod_u64(a, b, p) == (a * b) % p

\* The square-and-multiply loop.  A turn halves the exponent, so after as many
\* turns as its value the loop has ended.
pow_turn(t, p) ==
    IF t.exp = 0 THEN t
    ELSE [base   |-> mul_mod_u64(t.base, t.base, p),
          exp    |-> t.exp \div 2,
          result |-> IF t.exp % 2 = 1 THEN mul_mod_u64(t.result, t.base, p)
                     ELSE t.result]

pow_mod_u64(base, exp, p) ==
    LET start == [base |-> base % p, exp |-> exp, result |-> 1 % p]
        after[k \in 0 .. exp] ==
            IF k = 0 THEN start ELSE pow_turn(after[k - 1], p)
    IN  after[exp].result

(***************************************************************************)
(* weight_for_index.  The exponent is computed with checked_mul, which     *)
(* panics from index 2^32 on, far beyond any log the programs build.       *)
(***************************************************************************)
square_weight(base, i, p) == pow_mod_u64(base, i * i, p)

triangular_weight(base, i, p) == pow_mod_u64(base, (i * (i + 1)) \div 2, p)

weight_for_index(b, base, i) ==
    IF b = "main" THEN square_weight(base, i, P)
                  ELSE triangular_weight(base, i, P)

term_at(b, base, x, i) == mul_mod_u64(x % P, weight_for_index(b, base, i), P)

\* One iteration of each of the three loops over a log.
Absorb(b, base, state, x, i) ==
    add_mod_u64(state, term_at(b, base, x, i), P) % P

\* The state after each entry of a log whose first entry has index offset.
States(b, base, l, offset) ==
    LET state[n \in 0 .. Len(l)] ==
            IF n = 0 THEN 0
            ELSE Absorb(b, base, state[n - 1], l[n], offset + n - 1)
    IN  state

state_for_logs(b, base, l) == States(b, base, l, 0)[Len(l)]

\* A plausible bug of the next definition, for the mutation checks.
ShiftForgotten(b, base, l, offset) == States(b, base, l, 0)[Len(l)]

shifted_state_for_logs(b, base, l, offset) ==
    States(b, base, l, offset)[Len(l)]

\* A plausible bug of the next definition, for the mutation checks.
PrefixBeforeEntry(b, base, l) ==
    [i \in 1 .. Len(l) |-> States(b, base, l, 0)[i - 1]]

prefix_states(b, base, l) ==
    [i \in 1 .. Len(l) |-> States(b, base, l, 0)[i]]

(***************************************************************************)
(* The bounds the programs print for the probability that two logs of      *)
(* length n collide, times p: the number of bases they concede.            *)
(***************************************************************************)
collision_probability_bound(b, n) ==
    IF b = "main" THEN (n - 1) * (n - 1)
                  ELSE (n * (n - 1)) \div 2

-----------------------------------------------------------------------------
(***************************************************************************)
(* The damaged logs.  A log is never empty here; every attack but the      *)
(* swap aims at index len / 2 of the code.                                 *)
(***************************************************************************)
Mid(l) == Len(l) \div 2 + 1

\* out[i] ^= 1
run_edit_attack(l, i) ==
    [l EXCEPT ![i] = IF @ % 2 = 0 THEN @ + 1 ELSE @ - 1]

run_reorder_attack(l) == [l EXCEPT ![1] = Last(l), ![Len(l)] = l[1]]

run_insertion_attack(l, value, i) == InsertAt(l, i, value)

run_deletion_attack(l, i) == RemoveAt(l, i)

run_truncation_attack(l, keep) == SubSeq(l, 1, keep)

Attacks == <<"tampered", "reordered", "inserted", "deleted", "truncated">>

Damaged(attack, l) ==
    CASE attack = "tampered"  -> run_edit_attack(l, Mid(l))
      [] attack = "reordered" -> run_reorder_attack(l)
      [] attack = "inserted"  -> run_insertion_attack(l, InsertionValue, Mid(l))
      [] attack = "deleted"   -> run_deletion_attack(l, Mid(l))
      [] attack = "truncated" -> run_truncation_attack(l, Len(l) \div 2)

-----------------------------------------------------------------------------
(***************************************************************************)
(* Localisation, for two logs of one length.                               *)
(***************************************************************************)
Differing(s1, s2) == {i \in DOMAIN s1 : s1[i] # s2[i]}

FirstDiffering(s1, s2) ==
    IF s1 = s2 THEN None ELSE Min(Differing(s1, s2))

mismatch_window(l1, l2) ==
    IF l1 = l2 THEN <<None, None>>
    ELSE <<Min(Differing(l1, l2)), Max(Differing(l1, l2))>>

prefix_divergence(b, base, l1, l2) ==
    FirstDiffering(prefix_states(b, base, l1), prefix_states(b, base, l2))

\* The digest of positions start to end of a log at their own weights.
window_state(b, base, l, w) ==
    shifted_state_for_logs(b, base, SubSeq(l, w[1], w[2]), w[1] - 1)

(***************************************************************************)
(* What is printed of the window: main.rs digests the differing window of  *)
(* either log, main1.rs the single term of an edit and the whole of a      *)
(* reordered log.                                                          *)
(***************************************************************************)
localize_window(base, l1, l2) ==
    LET w == mismatch_window(l1, l2)
    IN  IF w[1] = None THEN <<0, 0>>
        ELSE <<window_state("main", base, l1, w), window_state("main", base, l2, w)>>

tampered_window(base, l1, l2) ==
    LET i == FirstDiffering(l1, l2)
    IN  IF i = None THEN <<0, 0>>
        ELSE <<term_at("main1", base, l1[i], i - 1),
               term_at("main1", base, l2[i], i - 1)>>

reordered_window(base, l1, l2) ==
    <<shifted_state_for_logs("main1", base, l1, 0),
      shifted_state_for_logs("main1", base, l2, 0)>>

ShiftedWindows(b, attack, base, l1, l2) ==
    CASE b = "main" -> localize_window(base, l1, l2)
      [] b = "main1" /\ attack = "tampered" -> tampered_window(base, l1, l2)
      [] b = "main1" /\ attack = "reordered" -> reordered_window(base, l1, l2)

NoReport == [window |-> <<None, None>>, divergence |-> None, shifted |-> <<0, 0>>]

localization_report(b, attack, base, l1, l2) ==
    [window     |-> mismatch_window(l1, l2),
     divergence |-> prefix_divergence(b, base, l1, l2),
     shifted    |-> ShiftedWindows(b, attack, base, l1, l2)]

(***************************************************************************)
(* One attack and what the program prints of it.  Only the two attacks     *)
(* that keep the length are localised, and only in the first section.      *)
(***************************************************************************)
Case(attack, localise) ==
    LET changed == Damaged(attack, logs)
    IN  [attack |-> attack,
         log    |-> changed,
         before |-> state_for_logs(binary, q, logs),
         after  |-> state_for_logs(binary, q, changed),
         report |-> IF localise /\ Len(changed) = Len(logs)
                    THEN localization_report(binary, attack, q, logs, changed)
                    ELSE NoReport]

-----------------------------------------------------------------------------
Init ==
    /\ binary \in {"main", "main1"}
    /\ q \in IF binary = "main" THEN {None} ELSE Bases
    /\ pc = "sampling"
    /\ logs = << >>
    /\ cases = << >>
    /\ composition = Unset

(***************************************************************************)
(* What pack may return: main.rs clamps the load to 1000 permille over 48  *)
(* bits of memory, which stays below p, main1.rs can fill the word.        *)
(***************************************************************************)
pack(b) == IF b = "main" THEN Entries \cap Field ELSE Entries

\* One pass of the sampling loop.
Sample(x) ==
    /\ pc = "sampling"
    /\ Len(logs) < Samples
    /\ x \in pack(binary)
    /\ logs' = Append(logs, x)
    /\ UNCHANGED <<binary, q, pc, cases, composition>>

\* main.rs drops the warm-up sample, then builds its KSentry.
DropWarmUp ==
    /\ pc = "sampling" /\ binary = "main"
    /\ Len(logs) = Samples
    /\ logs' = Tail(logs)
    /\ pc' = "attacks"
    /\ q' \in Bases
    /\ UNCHANGED <<binary, cases, composition>>

\* main1.rs has built it already and takes the first samples but one.
TakeUsable ==
    /\ pc = "sampling" /\ binary = "main1"
    /\ Len(logs) = Samples
    /\ logs' = Front(logs)
    /\ pc' = "attacks"
    /\ UNCHANGED <<binary, q, cases, composition>>

Attack ==
    /\ pc = "attacks"
    /\ cases' = Append(cases, Case(Attacks[Len(cases) + 1], TRUE))
    /\ pc' = IF Len(cases') = Len(Attacks) THEN "composing" ELSE pc
    /\ UNCHANGED <<binary, q, logs, composition>>

(***************************************************************************)
(* test_composition_theorem: the halves digested apart, the second one     *)
(* from its offset, against the whole.  main.rs skips it for one entry.    *)
(***************************************************************************)
Compose ==
    /\ pc = "composing"
    /\ LET mid == Len(logs) \div 2
           state_a == state_for_logs(binary, q, SubSeq(logs, 1, mid))
           shifted_b == shifted_state_for_logs(
                            binary, q, SubSeq(logs, mid + 1, Len(logs)), mid)
       IN  composition' = IF binary = "main" /\ Len(logs) < 2 THEN Unset
                          ELSE <<(state_a + shifted_b) % P,
                                 state_for_logs(binary, q, logs)>>
    /\ pc' = "section2"
    /\ UNCHANGED <<binary, q, logs, cases>>

(***************************************************************************)
(* The second section digests, edits and reorders a large log: the usable  *)
(* one over and over in main.rs, a generated one in main1.rs.              *)
(***************************************************************************)
RepeatLog ==
    /\ pc = "section2" /\ binary = "main"
    /\ logs' = [i \in 1 .. BigLen |-> logs[((i - 1) % Len(logs)) + 1]]
    /\ cases' = << >>
    /\ composition' = Unset
    /\ pc' = "large"
    /\ UNCHANGED <<binary, q>>

GenerateLog ==
    /\ pc = "section2" /\ binary = "main1"
    /\ logs' \in [1 .. BigLen -> Entries]
    /\ cases' = << >>
    /\ composition' = Unset
    /\ pc' = "large"
    /\ UNCHANGED <<binary, q>>

AttackLarge ==
    /\ pc = "large"
    /\ cases' = Append(cases, Case(Attacks[Len(cases) + 1], FALSE))
    /\ pc' = IF Len(cases') = 2 THEN "done" ELSE pc
    /\ UNCHANGED <<binary, q, logs, composition>>

Next ==
    \/ \E x \in Entries : Sample(x)
    \/ DropWarmUp
    \/ TakeUsable
    \/ Attack
    \/ Compose
    \/ RepeatLog
    \/ GenerateLog
    \/ AttackLarge

Spec == Init /\ [][Next]_vars

-----------------------------------------------------------------------------
(***************************************************************************)
(* The states the programs print are the sums of x_i q^(e_i) modulo p in   *)
(* unbounded arithmetic, e_i = i i in main.rs and i (i + 1) / 2 in         *)
(* main1.rs, although p is so close to the word that the sum of two        *)
(* residues does not fit it.                                               *)
(***************************************************************************)
Exponent(b, i) == IF b = "main" THEN i * i ELSE (i * (i + 1)) \div 2

Digest(b, base, l) ==
    LET sum[n \in 0 .. Len(l)] ==
            IF n = 0 THEN 0
            ELSE sum[n - 1] + l[n] * Power(base, Exponent(b, n - 1))
    IN  sum[Len(l)] % P

DigestExact ==
    \A k \in DOMAIN cases :
        /\ cases[k].before = Digest(binary, q, logs)
        /\ cases[k].after = Digest(binary, q, cases[k].log)

(***************************************************************************)
(* The state alone catches the flipped bit always, and the exchange of the *)
(* first and last entry exactly when their residues differ and the weight  *)
(* of the last position is not 1, the weight of the first; it misses a     *)
(* truncation exactly when the lost entries sum to 0 at their offset.      *)
(* p is prime here, as in the programs.                                    *)
(***************************************************************************)
Seen(c) == c.before # c.after

Lost(c) == SubSeq(logs, Len(c.log) + 1, Len(logs))

AttackSeenExactly ==
    \A k \in DOMAIN cases :
        LET c == cases[k]
            last == Len(logs)
        IN  /\ c.attack = "tampered" => Seen(c)
            /\ c.attack = "reordered" =>
                (Seen(c) <=> /\ logs[1] % P # logs[last] % P
                             /\ Power(q, Exponent(binary, last - 1)) # 1)
            /\ c.attack = "truncated" =>
                (Seen(c) <=> shifted_state_for_logs(binary, q, Lost(c), Len(c.log)) # 0)

(***************************************************************************)
(* The first prefix state that differs names the first entry that differs  *)
(* modulo p.  Later damage may bring the states together again, never the  *)
(* first one; entries that differ by p are not found.                      *)
(***************************************************************************)
Residues(l) == [i \in DOMAIN l |-> l[i] % P]

Reported == {k \in DOMAIN cases : pc # "large" /\ pc # "done"
                                  /\ Len(cases[k].log) = Len(logs)}

PrefixLocalises ==
    \A k \in Reported :
        cases[k].report.divergence
            = FirstDiffering(Residues(logs), Residues(cases[k].log))

(***************************************************************************)
(* The window printed for a damaged log carries the whole change of the    *)
(* state: its shifted states differ by what the states differ by, so       *)
(* shifted_window_differs and the detection line never disagree, whichever *)
(* of its three windows the program prints.  And the two halves of a log,  *)
(* the second digested from its offset, add up to the state of the whole:  *)
(* composition_holds is always printed as true.                            *)
(***************************************************************************)
WindowCarriesChange ==
    /\ \A k \in Reported :
        LET c == cases[k]
        IN  (c.report.shifted[2] - c.report.shifted[1]) % P
                = (c.after - c.before) % P
    /\ composition # Unset => composition[1] = composition[2]

(***************************************************************************)
(* The printed collision bound is one: of the nonzero bases modulo the     *)
(* prime p, at most bound * p make two logs of one length collide that     *)
(* differ modulo p somewhere.  Looked at once the usable log is known and  *)
(* before any attack, against every log of its length.                     *)
(***************************************************************************)
CollidingBases(l) ==
    {base \in 1 .. (P - 1) :
        state_for_logs(binary, base, l) = state_for_logs(binary, base, logs)}

CollisionBound ==
    pc = "attacks" /\ cases = << >> =>
        \A l \in [1 .. Len(logs) -> Entries] :
            Residues(l) # Residues(logs) =>
                Cardinality(CollidingBases(l))
                    <= collision_probability_bound(binary, Len(logs))
=============================================================================
