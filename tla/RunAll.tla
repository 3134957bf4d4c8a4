------------------------------- MODULE RunAll -------------------------------
(***************************************************************************)
(* scripts/run_all_local.sh, the one-command run of the local artifact,    *)
(* with the two programs it starts: timefence-core, whose main builds the  *)
(* strace cases, writes their report and then the baselines, and           *)
(* timefence-trace, whose main builds the cases and writes the report.     *)
(* The script runs under `set -e': a step that fails ends it.  Outputs are *)
(* copied to artifacts/ at the end, and only then.                         *)
(*                                                                         *)
(* The sources are modelled as built from the layout that main.rs and      *)
(* artifacts/lib.rs of timefence-core name (`mod baselines', a library     *)
(* timefence_core), which the tree does not have: as it lies there, the    *)
(* step "test" fails.                                                      *)
(***************************************************************************)
EXTENDS Trace, Baselines

CONSTANT
    Leftovers   \* what may lie there before the run: [home, artifacts : files]

VARIABLES
    step,       \* verus | test | core | trace | copy | done | failed
    home,       \* the age of each output file where its program writes it
    artifacts,  \* the age of each file in artifacts/
    copied      \* the number of copy commands that have been executed

runVars == <<step, home, artifacts, copied>>

vars == <<traceVars, baselineVars, runVars>>

\* The files in the order of the script's copy commands.
Copies == <<"timefence_report", "bench", "trace_report", "ebpf_report">>
            \o CsvOrder

Copied == {Copies[n] : n \in DOMAIN Copies}

\* The report of timefence-core, which no command copies, and the others.
Files == Copied \cup {"core_report"}

Aged(files, left) == [f \in files |-> IF f \in left THEN "old" ELSE "absent"]

-----------------------------------------------------------------------------
\* A plausible bug of the next definition, for the mutation checks.
GoesOn(following) == following

\* What becomes of the script when a command fails, set -e.
OnFailure(following) == "failed"

Written(file) == home' = [home EXCEPT ![file] = "new"]

\* A write or a copy that fails leaves the file alone or cut short.
CutShort(ages, file) == {ages, [ages EXCEPT ![file] = "partial"]}

Init ==
    /\ TraceInit /\ BaselinesInit
    /\ step = "verus" /\ copied = 0
    /\ \E left \in Leftovers :
        /\ home = Aged(Files, left.home)
        /\ artifacts = Aged(Copied, left.artifacts)

(***************************************************************************)
(* [1/4] and [2/4]: Verus, skipped where verus.exe is missing, and cargo   *)
(* test.  Either may fail.                                                 *)
(***************************************************************************)
Command(this, following) ==
    /\ step = this
    /\ step' \in {following, OnFailure(following)}
    /\ UNCHANGED <<traceVars, baselineVars, home, artifacts, copied>>

Verus == Command("verus", "test")

Test == Command("test", "core")

(***************************************************************************)
(* [3/4] and [4/4]: cargo run --release, twice.  Both mains build the      *)
(* cases (build_case); they panic where strace cannot be started.          *)
(***************************************************************************)
Following(program) == IF program = "core" THEN "trace" ELSE "copy"

BuildCases ==
    /\ step \in {"core", "trace"}
    /\ bstep = "idle" \/ step = "trace"
    /\ TraceStep
    /\ UNCHANGED <<baselineVars, runVars>>

ReportOf(program) == IF program = "core" THEN "core_report" ELSE "trace_report"

ReportDue == AllBuilt /\ (step = "trace" \/ (step = "core" /\ bstep = "idle"))

ProgramFails ==
    /\ step \in {"core", "trace"}
    /\ \/ /\ phase = "idle" /\ ~ AllBuilt         \* strace cannot be started
          /\ UNCHANGED home
       \/ /\ ReportDue                            \* the report not written
          /\ home' \in CutShort(home, ReportOf(step))
    /\ step' = OnFailure(Following(step))
    /\ TraceReset
    /\ UNCHANGED <<baselineVars, artifacts, copied>>

WriteReport ==
    /\ ReportDue
    /\ Written(ReportOf(step))
    /\ IF step = "core"
       THEN CallBaselines /\ UNCHANGED step
       ELSE step' = Following(step) /\ UNCHANGED baselineVars
    /\ UNCHANGED <<traceVars, artifacts, copied>>

Evaluate ==
    /\ step = "core"
    /\ BaselinesStep
    /\ CASE csvs' # csvs -> Written(CsvOrder[csv])
         [] bstep = "write" /\ bstep' = "failed"
              -> home' \in CutShort(home, CsvOrder[csv])
         [] OTHER -> UNCHANGED home
    /\ UNCHANGED <<traceVars, step, artifacts, copied>>

\* main of timefence-core returns, or its expect panics.
CoreEnds ==
    /\ step = "core" /\ bstep \in {"done", "failed"}
    /\ step' = IF bstep = "done" THEN "trace" ELSE OnFailure("trace")
    /\ TraceReset
    /\ UNCHANGED <<baselineVars, home, artifacts, copied>>

(***************************************************************************)
(* Copying: a file that is missing where its program writes it is passed   *)
(* over, whatever artifacts/ holds; cp may fail.  The graph that is drawn  *)
(* at the end may fail without consequences.                               *)
(***************************************************************************)
CopyNext ==
    /\ step = "copy" /\ copied < Len(Copies)
    /\ LET file == Copies[copied + 1]
       IN  artifacts' = IF home[file] = "absent" THEN artifacts
                        ELSE [artifacts EXCEPT ![file] = home[file]]
    /\ copied' = copied + 1
    /\ UNCHANGED <<traceVars, baselineVars, step, home>>

CopyFails ==
    /\ step = "copy" /\ copied < Len(Copies)
    /\ home[Copies[copied + 1]] # "absent"
    /\ step' = OnFailure("copy")
    /\ artifacts' \in CutShort(artifacts, Copies[copied + 1])
    /\ UNCHANGED <<traceVars, baselineVars, home, copied>>

Plot ==
    /\ step = "copy" /\ copied = Len(Copies)
    /\ step' = "done"
    /\ UNCHANGED <<traceVars, baselineVars, home, artifacts, copied>>

Next ==
    \/ Verus \/ Test
    \/ BuildCases \/ ProgramFails \/ WriteReport \/ Evaluate \/ CoreEnds
    \/ CopyNext \/ CopyFails \/ Plot

Spec == Init /\ [][Next]_vars /\ WF_vars(Next)

-----------------------------------------------------------------------------
(***************************************************************************)
(* What artifacts/ holds, whichever command, write or copy fails: behind   *)
(* the copy that the script has come to, nothing of this run; before it,   *)
(* whatever lay at home; a file that this run cut short only where the     *)
(* copy failed that ended it.  After a run that ended well, the outputs of *)
(* the programs are all of this run.  Of files that these programs do not  *)
(* write nothing of the kind is promised: see ProducedAsListed.            *)
(***************************************************************************)
Outputs == {ReportOf("core"), ReportOf("trace")}
             \cup {CsvOrder[n] : n \in DOMAIN CsvOrder}

CopiedUpToFailure ==
    /\ \A n \in DOMAIN Copies :
        LET f == Copies[n]
        IN  /\ n > copied => artifacts[f] # "new"
            /\ (n <= copied /\ home[f] # "absent") => artifacts[f] = home[f]
            /\ artifacts[f] = "partial" => step = "failed" /\ n = copied + 1
    /\ step = "done" => \A f \in Outputs \cap Copied : artifacts[f] = "new"

(***************************************************************************)
(* The table of ARTIFACT_SUMMARY.md, without its graph: the files that     *)
(* ./scripts/run_all_local.sh "produces".  Where the script ends well they *)
(* should be of its run.                                                   *)
(***************************************************************************)
Listed == {"timefence_report", "bench", "trace_report"}
            \cup {CsvOrder[n] : n \in DOMAIN CsvOrder}

ProducedAsListed == step = "done" => \A f \in Listed : artifacts[f] = "new"

(***************************************************************************)
(* Where traced scripts and the started programs keep running, the script  *)
(* comes to an end: no loop of build_case, bench_merkle_chunks or the      *)
(* benchmark runs for ever.                                                *)
(***************************************************************************)
Finishes == <>(step \in {"done", "failed"})
=============================================================================
