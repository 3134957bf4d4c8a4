------------------------------ MODULE Verified ------------------------------
(***************************************************************************)
(* The executable functions of proofs/finaltest_timefence_core_verified.rs *)
(* and the statements that file makes about them.  run_from_empty_k is the *)
(* digest as the Verus file computes it, on u64 words: no running weight,  *)
(* the power of q found by repeated multiplication for every element, an   *)
(* addition that never leaves the word.  find_first_mismatch compares two  *)
(* logs of one length.                                                     *)
(*                                                                         *)
(* A behaviour digests logs, one iteration of either loop per step, and    *)
(* then compares them with other.  Nothing in the repository calls the two *)
(* together: the order is the model's, and the functions share no state.   *)
(***************************************************************************)
EXTENDS FieldArith, Sequences, FiniteSets

CONSTANTS
    Inputs,     \* the u64 entries of a log, reduced or not
    MaxLen      \* the k that bounds the length of a log

(***************************************************************************)
(* What run_from_empty_k requires: k keeps i * (i + 1) in the word (with   *)
(* 64 bits, k <= 2^32 - 1), and p, q and the entries are words themselves. *)
(***************************************************************************)
ASSUME VerifiedAssumption ==
    /\ Inputs \subseteq 0 .. (Word - 1)
    /\ MaxLen \in Nat
    /\ MaxLen * (MaxLen + 1) < Word
    /\ P < Word /\ Q < Word

VARIABLES
    logs,       \* the log that is digested
    other,      \* the log that it is compared with
    pc,         \* ingest | weight | compare | done
    i,          \* the loop variable of ingest_telemetry_k
    state,      \* the digest so far
    res, curr,  \* locals of calculate_weight_internal
    j,          \* the loop variable of find_first_mismatch
    result      \* what find_first_mismatch returned

vars == <<logs, other, pc, i, state, res, curr, j, result>>

-----------------------------------------------------------------------------
\* Plausible bugs of the definitions below, for the mutation checks.
AddModStrict(a, b, p) == IF a > p - b THEN a - (p - b) ELSE a + b

TriangleBelow(n) == ((n - 1) * n) \div 2

SquareExponent(n) == n * n

-----------------------------------------------------------------------------
(***************************************************************************)
(* The executable helpers.  a and b are reduced when add_mod_u64 is called *)
(* (it requires it), the product of mul_mod_u64 is a u128.                 *)
(***************************************************************************)
add_mod_u64(a, b, p) ==
    LET t == p - b
    IN  IF a >= t THEN a - t ELSE (a + b) % Word

mul_mod_u64(a, b, p) == ((a * b) % (Word * Word)) % p

target_exp(n) == ((n * (n + 1)) % Word) \div 2

Found(n) == [differ |-> TRUE, at |-> n, x |-> logs[n + 1], y |-> other[n + 1]]

NotFound == [differ |-> FALSE, at |-> 0, x |-> 0, y |-> 0]

-----------------------------------------------------------------------------
Logs == UNION {[1 .. n -> Inputs] : n \in 0 .. MaxLen}

Init ==
    /\ logs \in Logs
    /\ other \in Logs
    /\ pc = "ingest"
    /\ i = 0
    /\ state = 0
    /\ res = 0 /\ curr = 0
    /\ j = 0
    /\ result = NotFound

\* The head of the loop of ingest_telemetry_k calls calculate_weight_internal.
StartWeight ==
    /\ pc = "ingest"
    /\ i < Len(logs)
    /\ pc' = "weight"
    /\ res' = 1 % P
    /\ curr' = 0
    /\ UNCHANGED <<logs, other, i, state, j, result>>

WeightStep ==
    /\ pc = "weight"
    /\ curr < target_exp(i)
    /\ res' = mul_mod_u64(res, Q, P)
    /\ curr' = curr + 1
    /\ UNCHANGED <<logs, other, pc, i, state, j, result>>

\* The weight is returned, the rest of the iteration follows.
AddTerm ==
    /\ pc = "weight"
    /\ curr >= target_exp(i)
    /\ state' = add_mod_u64(state, mul_mod_u64(logs[i + 1], res, P), P)
    /\ i' = i + 1
    /\ pc' = "ingest"
    /\ UNCHANGED <<logs, other, res, curr, j, result>>

\* find_first_mismatch requires two logs of one length.
Digested ==
    /\ pc = "ingest"
    /\ i >= Len(logs)
    /\ pc' = IF Len(logs) = Len(other) THEN "compare" ELSE "done"
    /\ UNCHANGED <<logs, other, i, state, res, curr, j, result>>

SameEntry ==
    /\ pc = "compare"
    /\ j < Len(logs)
    /\ logs[j + 1] = other[j + 1]
    /\ j' = j + 1
    /\ UNCHANGED <<logs, other, pc, i, state, res, curr, result>>

Mismatch ==
    /\ pc = "compare"
    /\ j < Len(logs)
    /\ logs[j + 1] # other[j + 1]
    /\ result' = Found(j)
    /\ pc' = "done"
    /\ UNCHANGED <<logs, other, i, state, res, curr, j>>

NoMismatch ==
    /\ pc = "compare"
    /\ j >= Len(logs)
    /\ result' = NotFound
    /\ pc' = "done"
    /\ UNCHANGED <<logs, other, i, state, res, curr, j>>

Next ==
    \/ StartWeight \/ WeightStep \/ AddTerm \/ Digested
    \/ SameEntry \/ Mismatch \/ NoMismatch

Spec == Init /\ [][Next]_vars

TypeOK ==
    /\ logs \in Seq(Inputs) /\ Len(logs) <= MaxLen
    /\ other \in Seq(Inputs) /\ Len(other) <= MaxLen
    /\ pc \in {"ingest", "weight", "compare", "done"}
    /\ i \in 0 .. Len(logs)
    /\ state \in 0 .. (P - 1)
    /\ res \in 0 .. (P - 1) /\ curr \in Nat
    /\ j \in 0 .. Len(logs)
    /\ result \in [differ : BOOLEAN, at : Nat, x : Nat, y : Nat]

-----------------------------------------------------------------------------
(***************************************************************************)
(* The specification functions of the file.  Sequences count from 0 there  *)
(* and from 1 here.                                                        *)
(***************************************************************************)
\* spec_pow(q, exp) % p, the only use but one, with the power kept reduced.
spec_pow_mod(q, exp, p) ==
    LET pow[e \in Nat] == IF e = 0 THEN 1 % p ELSE (q * pow[e - 1]) % p
    IN  pow[exp]

tri_exp(n) == (n * (n + 1)) \div 2

ramanujan_spec(w, q, p) ==
    LET digest[n \in 0 .. Len(w)] ==
          IF n = 0 THEN 0
          ELSE (digest[n - 1] + w[n] * spec_pow_mod(q, tri_exp(n - 1), p)) % p
    IN  digest[Len(w)]

encode_len1(a, q) == a

encode_len2(a, b, q) == a + b * q

encode_len3(a, b, c, q) == a + b * q + c * (q * q * q)

square_degree_bound(n) == IF n <= 0 THEN 0 ELSE ((n - 1) * n) \div 2

diff_coeff_at(w, w2, n) == w[n] - w2[n]

exists_nonzero_diff_coeff(w, w2) ==
    \E n \in DOMAIN w \cap DOMAIN w2 : diff_coeff_at(w, w2, n) # 0

bad_q_for_traces(w, w2, q, p) ==
    /\ 0 <= q /\ q < p
    /\ ramanujan_spec(w, q, p) = ramanujan_spec(w2, q, p)

bad_q_count(w, w2, p) ==
    Cardinality({q \in 0 .. (p - 1) : bad_q_for_traces(w, w2, q, p)})

\* The difference polynomial: the two digests subtracted, and summed up
\* coefficient by coefficient.
diff_poly_eval_mod(w, w2, q, p) ==
    IF Len(w) # Len(w2) \/ p <= 1 THEN 0
    ELSE (ramanujan_spec(w, q, p) - ramanujan_spec(w2, q, p)) % p

diff_poly_sum_full(w, w2, q, p) ==
    LET term(n) == diff_coeff_at(w, w2, n) * spec_pow_mod(q, tri_exp(n - 1), p)
        sum[n \in 0 .. Len(w)] ==
          IF n = 0 THEN 0 ELSE (sum[n - 1] + term(n)) % p
    IN  IF Len(w) # Len(w2) \/ p <= 1 THEN 0 ELSE sum[Len(w)]

root_q_for_diff_poly(w, w2, q, p) ==
    0 <= q /\ q < p /\ diff_poly_eval_mod(w, w2, q, p) = 0

diff_poly_root_count(w, w2, p) ==
    Cardinality({q \in 0 .. (p - 1) : root_q_for_diff_poly(w, w2, q, p)})

is_domain_mod_p(p) ==
    p > 1 /\ \A x, y \in 1 .. (p - 1) : (x * y) % p # 0

first_mismatch_at(w, w2, n) ==
    /\ Len(w) = Len(w2)
    /\ 0 <= n /\ n < Len(w)
    /\ w[n + 1] # w2[n + 1]
    /\ \A m \in 1 .. n : w[m] = w2[m]

-----------------------------------------------------------------------------
(***************************************************************************)
(* The loop invariant of ingest_telemetry_k as a refinement: whatever the  *)
(* modulus and however close it comes to the word, every iteration extends *)
(* the digest of the prefix read so far by one element of the closed form. *)
(***************************************************************************)
Abs == INSTANCE KSentrySpec WITH xs <- SubSeq(logs, 1, i), digest <- state

ImplementsSpec == Abs!Spec

(***************************************************************************)
(* find_first_mismatch returns the first place where two logs of one       *)
(* length differ, and says that there is none only when they are equal.    *)
(***************************************************************************)
Compared == pc = "done" /\ Len(logs) = Len(other)

FirstMismatch ==
    Compared =>
        /\ result.differ <=> logs # other
        /\ result.differ => /\ first_mismatch_at(logs, other, result.at)
                            /\ result.x = logs[result.at + 1]
                            /\ result.y = other[result.at + 1]

(***************************************************************************)
(* What the entry comparison and the digest say of the same two logs fits: *)
(* equal logs have equal digests, and where the place found is the only    *)
(* one with another residue (theorem_single_edit_detected_strong, over a   *)
(* domain and a base that is not 0 there), the digests differ.             *)
(***************************************************************************)
OnlyResidueAt(n) ==
    \A m \in DOMAIN logs : (logs[m] % P # other[m] % P) <=> (m = n)

MismatchLocalised ==
    /\ FirstMismatch
    /\ Compared =>
        LET digest2 == ramanujan_spec(other, Q, P)
        IN  /\ ~ result.differ => state = digest2
            /\ (/\ is_domain_mod_p(P) /\ Q % P # 0
                /\ result.differ /\ OnlyResidueAt(result.at + 1))
                   => state # digest2

(***************************************************************************)
(* What the file trusts of short logs (external_body).  Its three helpers: *)
(* a log of at most three entries has its encoding as digest, reduced.     *)
(* And its five theorems, of which three, on insertion, deletion and       *)
(* truncation, say the same: with entries up to a bound below q, and q so  *)
(* small that the encodings stay below p, logs of length 2 and of length 3 *)
(* do not collide, and a log of length 1 and its extension by an entry     *)
(* that is not 0 do not.                                                   *)
(***************************************************************************)
EncodingsAreDigests ==
    pc = "done" =>
        /\ Len(logs) = 1 => state = encode_len1(logs[1], Q) % P
        /\ Len(logs) = 2 => state = encode_len2(logs[1], logs[2], Q) % P
        /\ Len(logs) = 3 =>
               state = encode_len3(logs[1], logs[2], logs[3], Q) % P

Bound == Q - 1

Below(w) == \A n \in DOMAIN w : w[n] <= Bound

ShortLogsApart ==
    (/\ pc = "done" /\ Below(logs) /\ Below(other)
     /\ P > Q /\ state = ramanujan_spec(other, Q, P)) =>
        /\ (/\ Len(logs) = 2 /\ Len(other) = 2
            /\ Bound + Bound * Q < P) => logs = other
        /\ (/\ Len(logs) = 3 /\ Len(other) = 3
            /\ encode_len3(Bound, Bound, Bound, Q) < P) => logs = other
        /\ ~ (/\ Len(logs) = 1 /\ Len(other) = 2
              /\ logs[1] = other[1] /\ other[2] # 0
              /\ encode_len2(other[1], other[2], Q) < P)

TrustedShort == EncodingsAreDigests /\ ShortLogsApart

(***************************************************************************)
(* theorem_probabilistic_tamper_detection as the file states it, resting   *)
(* on the trusted lemma_nonzero_poly_has_few_roots ("Nonzero polynomial of *)
(* degree <= d has at most d roots over F_p"): two different logs of one   *)
(* length collide under at most n (n - 1) / 2 bases, for any p above 1 and *)
(* any two different words as entries.                                     *)
(***************************************************************************)
Within(w, w2) == bad_q_count(w, w2, P) <= square_degree_bound(Len(w))

FewBadBases ==
    (Compared /\ exists_nonzero_diff_coeff(logs, other)) => Within(logs, other)

(***************************************************************************)
(* What the argument does give: the bound holds where the residues modulo  *)
(* p form a domain and some coefficient of the difference polynomial is    *)
(* not 0 there; and always, that polynomial is the difference of the two   *)
(* digests, at every base, and its roots are the colliding bases.          *)
(***************************************************************************)
NonzeroModP ==
    \E n \in DOMAIN logs : diff_coeff_at(logs, other, n) % P # 0

FewBadBasesInField ==
    Compared =>
        /\ \A q \in 0 .. (P - 1) :
              diff_poly_eval_mod(logs, other, q, P)
                  = diff_poly_sum_full(logs, other, q, P)
        /\ bad_q_count(logs, other, P) = diff_poly_root_count(logs, other, P)
        /\ (is_domain_mod_p(P) /\ NonzeroModP) => Within(logs, other)
=============================================================================
