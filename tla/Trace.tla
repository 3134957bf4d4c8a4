-------------------------------- MODULE Trace --------------------------------
(***************************************************************************)
(* The strace ingestion of timefence-trace/src/main.rs (the main.rs of     *)
(* timefence-core is the same file with the baselines appended).  A case   *)
(* runs two scripts under `strace -f', turns what strace printed into a    *)
(* TraceRun each, and compares the two.                                    *)
(*                                                                         *)
(* The traced script and strace itself are external.  A script is a        *)
(* sequence of stages, a stage a sequence of processes that run at once,   *)
(* each a sequence of calls of the four traced kinds.  strace begins the   *)
(* line of a call when the call is entered.  If another process comes in   *)
(* before the call returns, it cuts the line short ("<unfinished ...>")    *)
(* and prints the rest on a line of its own ("<... resumed>").             *)
(***************************************************************************)
EXTENDS Accumulator
LOCAL INSTANCE SequencesExt

CONSTANTS
    Cases,          \* [expected, observed : scripts], the arguments of build_case
    NoArg,          \* a call whose first argument strace could not print quoted
    NoisePaths,     \* the paths that is_noise_path matches
    RelevantPaths,  \* the paths that is_relevant_path matches
    EventHash       \* the 64-bit hash of an event, by kind and target

TracedCalls == [call : {"execve", "openat", "open", "connect"}, arg : STRING]

Scripts == Seq(Seq(Seq(TracedCalls))) \ {<< >>}

ASSUME TraceAssumption ==
    /\ NoisePaths \cap {NoArg} = {}
    /\ Cases \in Seq([expected : Scripts, observed : Scripts]) \ {<< >>}

VARIABLES
    case,       \* the index of the case being built, Len(Cases) + 1 when done
    side,       \* which of its scripts runs: expected | observed
    phase,      \* idle | tracing | built
    stage,      \* the stage of the script that runs
    begun,      \* per process of the stage, the number of calls entered
    inCall,     \* the processes inside a call
    gone,       \* the processes that have exited
    openLine,   \* the process whose line is not complete yet, 0 if none
    lines,      \* what strace has printed of this script so far
    calls,      \* history: the calls of this script in the order of entry
    run,        \* the TraceRun built last
    expected,   \* the TraceRun of the expected script
    verdicts    \* the status of every case built so far

traceVars == <<case, side, phase, stage, begun, inCall, gone, openLine, lines,
               calls, run, expected, verdicts>>

-----------------------------------------------------------------------------
\* A plausible bug of the next definition, for the mutation checks.
NamesACallLoosely(line) == line.text \in {"call", "resumed"}

-----------------------------------------------------------------------------
(***************************************************************************)
(* Ingestion.  Only the line that a call was entered on holds the name of  *)
(* the call followed by a parenthesis, and its first quoted argument.      *)
(***************************************************************************)
NamesACall(line) == line.text = "call"

is_noise_path(path) == path \in NoisePaths

is_relevant_path(path) == path \in RelevantPaths

extract_quoted_arg(line, default) ==
    IF line.arg = NoArg THEN default ELSE line.arg

NoEvent == << >>

Event(kind, target) == << [kind |-> kind, target |-> target] >>

parse_strace_line(line) ==
    IF ~ NamesACall(line) THEN NoEvent
    ELSE CASE line.call = "execve" ->
                LET target == extract_quoted_arg(line, "unknown_exec")
                IN  IF is_noise_path(target) THEN NoEvent
                    ELSE Event("Exec", target)
           [] line.call \in {"openat", "open"} ->
                LET target == extract_quoted_arg(line, "unknown_file")
                IN  IF is_noise_path(target) \/ ~ is_relevant_path(target)
                    THEN NoEvent
                    ELSE Event("OpenFile", target)
           [] line.call = "connect" -> Event("Connect", "socket_connect")

\* The two results of the loop of build_trace_run over what strace printed.
raw_syscall_lines_seen(printed) ==
    LET seen[n \in 0 .. Len(printed)] ==
          IF n = 0 THEN 0
          ELSE seen[n - 1] + (IF NamesACall(printed[n]) THEN 1 ELSE 0)
    IN  seen[Len(printed)]

Ingest(printed) ==
    LET events[n \in 0 .. Len(printed)] ==
          IF n = 0 THEN << >>
          ELSE events[n - 1] \o parse_strace_line(printed[n])
    IN  events[Len(printed)]

field_elements(events) == [n \in DOMAIN events |-> EventHash[events[n]] % P]

\* A plausible bug of the next definition, for the mutation checks.
GoesOnFromExpected(printed) ==
    LET events == expected.events \o Ingest(printed)
    IN  [raw_syscall_lines_seen |-> raw_syscall_lines_seen(printed),
         events |-> events,
         digest |-> ksentry_fast(field_elements(events)).acc]

build_trace_run(printed) ==
    LET events == Ingest(printed)
    IN  [raw_syscall_lines_seen |-> raw_syscall_lines_seen(printed),
         events |-> events,
         digest |-> ksentry_fast(field_elements(events)).acc]

compare_trace_runs(exp, obs) ==
    CASE Len(exp.events) # Len(obs.events) -> "METADATA_MISMATCH_LENGTH"
      [] Len(exp.events) = Len(obs.events) /\ exp.digest # obs.digest
           -> "DIGEST_MISMATCH_SAME_LENGTH"
      [] OTHER -> "CLEAN"

-----------------------------------------------------------------------------
Script == Cases[case][side]

Procs == DOMAIN Script[stage]

NoRun == [raw_syscall_lines_seen |-> 0, events |-> << >>, digest |-> 0]

\* Stage n of a script begins: none of its processes has made a call.
StageStarts(script, n) ==
    /\ stage' = n
    /\ begun' = [p \in DOMAIN script[n] |-> 0]
    /\ inCall' = {}
    /\ gone' = {}

TraceInit ==
    /\ case = 1 /\ side = "expected" /\ phase = "idle"
    /\ stage = 1 /\ begun = << >> /\ inCall = {} /\ gone = {}
    /\ openLine = 0 /\ lines = << >> /\ calls = << >>
    /\ run = NoRun /\ expected = NoRun /\ verdicts = << >>

\* main starts over, as the next program that runs it does.
TraceReset ==
    /\ case' = 1 /\ side' = "expected" /\ phase' = "idle"
    /\ stage' = 1 /\ begun' = << >> /\ inCall' = {} /\ gone' = {}
    /\ openLine' = 0 /\ lines' = << >> /\ calls' = << >>
    /\ run' = NoRun /\ expected' = NoRun /\ verdicts' = << >>

(***************************************************************************)
(* run_strace_script: strace is started on the next script.                *)
(***************************************************************************)
StartStrace ==
    /\ case <= Len(Cases)
    /\ phase = "idle"
    /\ phase' = "tracing"
    /\ StageStarts(Script, 1)
    /\ openLine' = 0 /\ lines' = << >> /\ calls' = << >>
    /\ UNCHANGED <<case, side, run, expected, verdicts>>

EnterCall(p) ==
    /\ phase = "tracing" /\ p \in Procs \ (inCall \cup gone)
    /\ begun[p] < Len(Script[stage][p])
    /\ LET c == Script[stage][p][begun[p] + 1]
       IN  /\ lines' = Append(lines, [text |-> "call", call |-> c.call,
                                      arg |-> c.arg])
           /\ calls' = Append(calls, c)
    /\ begun' = [begun EXCEPT ![p] = @ + 1]
    /\ inCall' = inCall \cup {p}
    /\ openLine' = p
    /\ UNCHANGED <<case, side, phase, stage, gone, run, expected, verdicts>>

ReturnFromCall(p) ==
    /\ phase = "tracing" /\ p \in inCall
    /\ lines' = IF openLine = p THEN lines
                ELSE Append(lines, [text |-> "resumed",
                                    call |-> Script[stage][p][begun[p]].call,
                                    arg |-> NoArg])
    /\ inCall' = inCall \ {p}
    /\ openLine' = 0
    /\ UNCHANGED <<case, side, phase, stage, begun, gone, calls, run,
                   expected, verdicts>>

\* strace prints "+++ exited with ... +++".
Exit(p) ==
    /\ phase = "tracing" /\ p \in Procs \ (inCall \cup gone)
    /\ begun[p] = Len(Script[stage][p])
    /\ gone' = gone \cup {p}
    /\ lines' = Append(lines, [text |-> "exited", call |-> "none",
                               arg |-> NoArg])
    /\ openLine' = 0
    /\ UNCHANGED <<case, side, phase, stage, begun, inCall, calls, run,
                   expected, verdicts>>

NextStage ==
    /\ phase = "tracing" /\ gone = Procs /\ stage < Len(Script)
    /\ StageStarts(Script, stage + 1)
    /\ UNCHANGED <<case, side, phase, openLine, lines, calls, run, expected,
                   verdicts>>

(***************************************************************************)
(* strace exits, and build_trace_run goes through its whole output.        *)
(***************************************************************************)
BuildRun ==
    /\ phase = "tracing" /\ gone = Procs /\ stage = Len(Script)
    /\ run' = build_trace_run(lines)
    /\ phase' = "built"
    /\ begun' = << >> /\ gone' = {} /\ lines' = << >>
    /\ UNCHANGED <<case, side, stage, inCall, openLine, calls, expected,
                   verdicts>>

(***************************************************************************)
(* build_case goes on to the observed script, then compares.  What it      *)
(* keeps of a finished case is only printed, and here only its status.     *)
(***************************************************************************)
BuildCase ==
    /\ phase = "built"
    /\ phase' = "idle"
    /\ IF side = "expected"
       THEN /\ side' = "observed"
            /\ expected' = run
            /\ UNCHANGED <<case, verdicts>>
       ELSE /\ side' = "expected"
            /\ verdicts' = Append(verdicts, compare_trace_runs(expected, run))
            /\ case' = case + 1
            /\ expected' = NoRun
    /\ stage' = 1 /\ calls' = << >> /\ run' = NoRun
    /\ UNCHANGED <<begun, inCall, gone, openLine, lines>>

TraceStep ==
    \/ StartStrace
    \/ \E p \in (IF phase = "tracing" THEN Procs ELSE {}) :
            EnterCall(p) \/ ReturnFromCall(p) \/ Exit(p)
    \/ NextStage \/ BuildRun \/ BuildCase

AllBuilt == case > Len(Cases)

-----------------------------------------------------------------------------
(***************************************************************************)
(* However the calls of several processes overlap, and however strace cuts *)
(* its lines, each call of the script is counted once, and the events are  *)
(* those of the relevant calls in the order the calls were entered.        *)
(***************************************************************************)
Printed(c) == [text |-> "call", call |-> c.call, arg |-> c.arg]

PrintedAll(cs) == [n \in DOMAIN cs |-> Printed(cs[n])]

CallsCountedOnce ==
    phase = "built" =>
        /\ run.raw_syscall_lines_seen = Len(calls)
        /\ run.events = Ingest(PrintedAll(calls))

(***************************************************************************)
(* What a script comes to where its processes run one after the other, and *)
(* the verdict of a case where both of its scripts do.                     *)
(***************************************************************************)
InTurn(script) ==
    FlattenSeq([n \in DOMAIN script |->
        FlattenSeq([p \in DOMAIN script[n] |-> Ingest(PrintedAll(script[n][p]))])])

RunInTurn(script) ==
    [events |-> InTurn(script),
     digest |-> ksentry_fast(field_elements(InTurn(script))).acc]

VerdictInTurn(c) ==
    compare_trace_runs(RunInTurn(c.expected), RunInTurn(c.observed))

(***************************************************************************)
(* A verdict is one of the scripts and not of the scheduler: the lengths   *)
(* differ exactly where those of the scripts do, and all of the verdict is *)
(* that of the scripts run in turn unless two processes that run at once   *)
(* each make a call that becomes an event, since the order of their events *)
(* is left to the scheduler and the digest depends on it.  So an Ordered   *)
(* script compared with itself is CLEAN.                                   *)
(***************************************************************************)
MakesEvents(process) ==
    \E n \in DOMAIN process : parse_strace_line(Printed(process[n])) # NoEvent

Ordered(script) ==
    \A n \in DOMAIN script : \A p, r \in DOMAIN script[n] :
        p # r => ~ (MakesEvents(script[n][p]) /\ MakesEvents(script[n][r]))

Repeatable ==
    \A n \in DOMAIN verdicts :
        LET c == Cases[n]
        IN  /\ verdicts[n] = "METADATA_MISMATCH_LENGTH"
                 <=> Len(InTurn(c.expected)) # Len(InTurn(c.observed))
            /\ Ordered(c.expected) /\ Ordered(c.observed) =>
                 verdicts[n] = VerdictInTurn(c)

(***************************************************************************)
(* The verdicts that MASTER_REPORT.md lists for the three cases of main:   *)
(* no change, an event more, and as many events but other ones.            *)
(***************************************************************************)
Documented == << "CLEAN", "METADATA_MISMATCH_LENGTH",
                 "DIGEST_MISMATCH_SAME_LENGTH" >>

DocumentedVerdicts ==
    \A n \in DOMAIN verdicts \cap DOMAIN Documented :
        verdicts[n] = Documented[n]

\* The scripts and hashes under which they can be documented at all.
CasesAsDocumented ==
    \A n \in DOMAIN Cases \cap DOMAIN Documented :
        /\ Ordered(Cases[n].expected) /\ Ordered(Cases[n].observed)
        /\ VerdictInTurn(Cases[n]) = Documented[n]
=============================================================================
