----------------------------- MODULE MCRunAll -----------------------------
(***************************************************************************)
(* The three cases of main, and two that main does not have, both with two *)
(* processes at once: one in which either makes events, with a connect, an *)
(* open whose path strace could not print, and an open of the dynamic      *)
(* loader's cache; and one, Ordered, in which only the first makes any.    *)
(***************************************************************************)
EXTENDS RunAll, MerkleRoots

Call(call, arg) == [call |-> call, arg |-> arg]

Bash == "/usr/bin/bash"
Cat == "/usr/bin/cat"
Libc == "/lib/libc.so.6"
Unprinted == "?"
Clean == "/tmp/timefence_clean.txt"
Observed == "/tmp/timefence_observed.txt"
Extra == "/tmp/timefence_extra.txt"

\* echo is a builtin: bash itself opens the file; then cat is a process.
EchoAndCat(opens, file) ==
    << << << Call("execve", Bash), Call("openat", Libc) >>
          \o [n \in 1 .. opens |-> Call("openat", file)] >>,
       << << Call("execve", Cat), Call("openat", file) >> >> >>

TwoAtOnce ==
    << << << Call("execve", Bash) >> >>,
       << << Call("openat", Clean), Call("openat", Unprinted) >>,
          << Call("openat", Libc), Call("connect", Unprinted) >> >> >>

OneWatched ==
    << << << Call("execve", Bash) >> >>,
       << << Call("openat", Clean), Call("openat", Unprinted) >>,
          << Call("openat", Libc) >> >> >>

Case(exp, obs) == [expected |-> exp, observed |-> obs]

CasesOfMain ==
    << Case(EchoAndCat(1, Clean), EchoAndCat(1, Clean)),
       Case(EchoAndCat(1, Clean), EchoAndCat(2, Extra)),
       Case(EchoAndCat(1, Clean), EchoAndCat(1, Observed)) >>

CasesOfMainAndTwoMore ==
    CasesOfMain \o << Case(TwoAtOnce, TwoAtOnce), Case(OneWatched, OneWatched) >>

Noise == {Libc}

Relevant == {Bash, Cat, Clean, Observed, Extra}

Kinds == [kind : {"Exec", "OpenFile", "Connect"},
          target : Relevant \cup {"unknown_exec", "socket_connect"}]

\* some hashes above the modulus 101, no two congruent
Targets == <<Bash, Cat, Clean, Observed, Extra, "unknown_exec",
             "socket_connect">>

Hashes ==
    [e \in Kinds |->
        LET t == CHOOSE n \in DOMAIN Targets : Targets[n] = e.target
        IN  17 * t + (CASE e.kind = "Exec" -> 3 [] e.kind = "OpenFile" -> 5
                        [] OTHER -> 8)]

\* The hypothesis of the theorem DocumentedAlways, for these cases.
ASSUME CasesOfMainDocumented == CasesAsDocumented

\* nine events, five leaves of at most two: an odd leaf on two levels
NineEvents == <<120, 7, 33, 101, 64, 2, 99, 250, 18>>

\* Of the files that the script copies, those that lie in the repository: four
\* where a program once wrote them, and all in artifacts/.
Clone ==
    [home |-> {"timefence_report", "bench", "trace_report", "ebpf_report"},
     artifacts |-> Copied]

\* nothing, a clone, a directory in which everything has been run
LeftoverSets ==
    {[home |-> {}, artifacts |-> {}], Clone,
     [home |-> Files, artifacts |-> Copied]}

JustCloned == {Clone}
=============================================================================
