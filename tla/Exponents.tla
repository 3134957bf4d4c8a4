----------------------------- MODULE Exponents -----------------------------
(***************************************************************************)
(* Which schedules of exponents a digest can be rebased under, as          *)
(* proofs/finaltest_timefence_core_verified.rs defines it (its sections 15 *)
(* to 19).  A schedule phi gives the element at position i, from 0 to      *)
(* n - 1, the weight q^phi[i].  Multiplying a local digest by one scalar   *)
(* q^g moves every element by the same exponent g, so it rebases chunks by *)
(* k positions only where phi[k + j] - phi[j] is the same for every j.     *)
(***************************************************************************)
EXTENDS FieldArith

affine_exp(a, b, i) == a * i + b

is_affine_with(phi, n, a, b) ==
    \A i \in 0 .. (n - 1) : phi[i] = affine_exp(a, b, i)

finite_affine_exponents(phi, n) ==
    \E a \in Int, b \in Int : is_affine_with(phi, n, a, b)

shift_equivariant_exponents(phi, n, s) ==
    /\ s \in 0 .. (n - 1)
    /\ \A i, j \in 0 .. (n - 1 - s) :
          phi[i + s] - phi[i] = phi[j + s] - phi[j]

one_scalar_composition_exponents(phi, n, k) ==
    /\ k \in 0 .. (n - 1)
    /\ \A j, l \in 0 .. (n - 1 - k) :
          phi[k + j] - phi[j] = phi[k + l] - phi[l]

one_scalar_composition_all_shifts(phi, n) ==
    \A k \in 1 .. (n - 1) : one_scalar_composition_exponents(phi, n, k)

(***************************************************************************)
(* The exponents of K-Sentry on n positions, and how far a shift by s      *)
(* moves the element at position i.                                        *)
(***************************************************************************)
TriangularSchedule(n) == [i \in 0 .. (n - 1) |-> triangular_exp(i)]

tri_gap_o1(i, s) == triangular_exp(i + s) - triangular_exp(i)

triangular_one_scalar_rebase_exponents_for_shift_o1(s) ==
    s >= 0 /\ \A i, j \in Nat : tri_gap_o1(i, s) = tri_gap_o1(j, s)
=============================================================================
