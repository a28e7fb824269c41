---------------------------- MODULE ExperimentRun ---------------------------
(***************************************************************************)
(* tools/run-veri-config-experiment.py, called again and again on one      *)
(* machine: it checks its arguments, checks a branch out and builds it     *)
(* with some constants spliced into the generated C++, prepares the data   *)
(* directory, and runs the benchmark under blktrace and a time budget.     *)
(*                                                                         *)
(* A call is [args, branch, out, updates]: the set of arguments given, the *)
(* values of git_branch= and output=, and the constants to splice.  Every  *)
(* command the script runs may fail; where the script asserts its result   *)
(* that is an AssertionError, and where it does not the script goes on.    *)
(* The script may be interrupted anywhere; the benchmark, in a session of  *)
(* its own, and blktrace then go on without it.                            *)
(***************************************************************************)
EXTENDS Integers, Sequences, FiniteSets

CONSTANTS
    Calls,
    Branch,         \* branches; one is checked out to begin with
    Constant,       \* constants of Bundle.cpp that can be spliced
    Default,        \* their value before
    MaxRuns,        \* bound: calls of the script
    MaxFaults,      \* bound: commands that fail
    MaxInterrupts,  \* bound: calls that are interrupted
    None

\* What build/Bundle.cpp can be: the branch it was made from and its constants.
Bundles ==
    [branch : Branch,
     values : [Constant -> {Default} \cup UNION {{c.updates[x] : x \in DOMAIN c.updates} : c \in Calls}]]

ASSUME ExperimentConstants ==
    /\ MaxRuns \in Nat \ {0} /\ MaxFaults \in Nat /\ MaxInterrupts \in Nat
    /\ \A c \in Calls : c.branch \in Branch
    /\ None \notin Bundles

VARIABLES
    run, call, at,              \* number of the call, its arguments, where it is
    exception,
    faults,                     \* failed commands
    lostCheckouts, lostKills,   \* those of them that were a git checkout, a killall
    checkout, bundle, exe,      \* branch checked out; build/Bundle.cpp; build/...Ycsb
    data,                       \* what the data directory holds
    blktraces, ending,          \* blktrace processes by call; those told to end, not gone yet
    procs,                      \* benchmark processes that run, by call
    started,                    \* what the benchmark of this call was started with
    ret,                        \* result of the benchmark
    expired, interrupted,       \* calls whose budget expired, that were interrupted
    results                     \* results[o]: calls that wrote output file o, in order

experimentVars ==
    <<run, call, at, exception, faults, lostCheckouts, lostKills, checkout, bundle, exe, data,
      blktraces, ending, procs, started, ret, expired, interrupted, results>>
lost == <<lostCheckouts, lostKills>>
tracing == <<blktraces, ending>>
built == <<checkout, bundle, exe, data>>
machine == <<built, tracing, procs, started, results>>
died == <<expired, interrupted>>
Outs == {c.out : c \in Calls}
Has(a) == a \in call.args

ExperimentInit ==
    /\ run = 1 /\ call \in Calls /\ at = "parse" /\ exception = "none"
    /\ faults = 0 /\ lostCheckouts = 0 /\ lostKills = 0
    /\ checkout \in Branch /\ bundle = None /\ exe = None /\ data = "none"
    /\ blktraces = {} /\ ending = {} /\ procs = {} /\ started = None /\ ret = 0
    /\ expired = {} /\ interrupted = {}
    /\ results = [o \in Outs |-> <<>>]

Goto(l) == at' = l /\ UNCHANGED <<run, call, exception, died>>
Throw(e) == at' = "raised" /\ exception' = e /\ UNCHANGED <<run, call, died>>

\* A command whose result is asserted fails; Bundle.cpp is made for veri only.
Fault == faults < MaxFaults /\ faults' = faults + 1

CommandFails(l) ==
    /\ at = l /\ (l = "bundle" => Has("veri"))
    /\ Fault
    /\ Throw("AssertionError")
    /\ UNCHANGED <<lost, machine, ret>>

(***************************************************************************)
(* The arguments.                                                          *)
(***************************************************************************)
OutputFree == results[call.out] = <<>>

Opened == [results EXCEPT ![call.out] = Append(@, run)]

\* The loop over sys.argv: the output file is opened when its argument comes
\* up, which is before or after one that is not known.
ParseArgs ==
    /\ at = "parse"
    /\ \/ /\ Has("unknown")
          /\ results' = results \/ (Has("output") /\ OutputFree /\ results' = Opened)
          /\ Throw("AssertionError")
       \/ /\ Has("output") /\ ~OutputFree
          /\ Throw("AssertionError") /\ UNCHANGED results
       \/ /\ ~Has("unknown") /\ (~Has("output") \/ OutputFree)
          /\ results' = IF Has("output") THEN Opened ELSE results
          /\ Goto("check")
    /\ UNCHANGED <<faults, lost, built, tracing, procs, started, ret>>

System(a) == a \in {"veri", "rocks", "berkeley", "kyoto"}

ArgsOk ==
    /\ Has("output") /\ Has("git_branch")
    /\ ~(Has("cacheSizeInBytes") /\ Has("cacheSizeInNodes"))
    /\ Has("cacheSizeInBytes") => Has("bucketWeight")
    /\ Has("bucketWeight") => Has("veri")
    /\ Has("workload") /\ Has("device")
    /\ \E a \in call.args : System(a)
    /\ Has("use_unverified_row_cache") => Has("veri")
    /\ Has("veriUseODirect") => Has("veri")
    /\ Has("use_filters") => Has("rocks")

CheckArgs ==
    /\ at = "check"
    /\ IF ArgsOk THEN Goto("cgroup") ELSE Throw("AssertionError")
    /\ UNCHANGED <<faults, lost, machine, ret>>

\* What the arguments ask of make, and what is passed on: make_options is
\* set to "" again after the first two.
AskedOptions ==
    {o \in {"LOG_QUERY_STATS", "WANT_UNVERIFIED_ROW_CACHE", "WANT_O_DIRECT"} :
        \/ o = "LOG_QUERY_STATS" /\ Has("log_stats")
        \/ o = "WANT_UNVERIFIED_ROW_CACHE" /\ Has("use_unverified_row_cache")
        \/ o = "WANT_O_DIRECT" /\ Has("veriUseODirect")}
MakeOptions == AskedOptions \cap {"WANT_O_DIRECT"}

\* cgroup_defaults, then ram, which has no value when ram= was not given.
SetCgroup ==
    /\ at = "cgroup"
    /\ IF Has("ram") THEN Goto("clean") ELSE Throw("UnboundLocalError")
    /\ UNCHANGED <<faults, lost, machine, ret>>

(***************************************************************************)
(* The build.                                                              *)
(***************************************************************************)
AfterClean_Kept(file) == file                               \* Faulty variant: build/ is kept
AfterClean(file) == None

\* rm -rf build/ and clean-for-build.sh, whose result is that of its last
\* command: a checkout that fails is not noticed.
CleanForBuild ==
    /\ at = "clean"
    /\ \/ checkout' = call.branch /\ UNCHANGED <<faults, lostCheckouts>>
       \/ /\ call.branch # checkout
          /\ Fault /\ lostCheckouts' = lostCheckouts + 1
          /\ UNCHANGED checkout
    /\ bundle' = AfterClean(bundle) /\ exe' = AfterClean(exe)
    /\ Goto("bundle")
    /\ UNCHANGED <<lostKills, data, tracing, procs, started, ret, results>>

\* make leaves alone what is there and newer than its sources.
MakeBundle ==
    /\ at = "bundle"
    /\ bundle' = IF ~Has("veri") \/ (bundle # None /\ bundle.branch = checkout) THEN bundle
                 ELSE [branch |-> checkout, values |-> [c \in Constant |-> Default]]
    /\ Goto("splice")
    /\ UNCHANGED <<faults, lost, checkout, exe, data, tracing, procs, started, ret, results>>

\* splice_value_into_bundle, for every constant to set; a name that
\* Bundle.cpp does not have is an AssertionError.
Spliced(values) == [c \in Constant |-> IF c \in DOMAIN call.updates THEN call.updates[c] ELSE values[c]]

SpliceValues ==
    /\ at = "splice"
    /\ IF DOMAIN call.updates # {} /\ ~(Has("veri") /\ DOMAIN call.updates \subseteq Constant)
       THEN Throw("AssertionError") /\ UNCHANGED bundle
       ELSE /\ Goto("exe")
            /\ bundle' = IF bundle = None THEN None ELSE [bundle EXCEPT !.values = Spliced(@)]
    /\ UNCHANGED <<faults, lost, checkout, exe, data, tracing, procs, started, ret, results>>

Source == IF Has("veri") THEN bundle ELSE [branch |-> checkout, values |-> [c \in Constant |-> Default]]

MakeExe ==
    /\ at = "exe"
    /\ exe' = IF exe # None /\ exe.source = Source THEN exe
              ELSE [source |-> Source, options |-> MakeOptions]
    /\ Goto("data")
    /\ UNCHANGED <<faults, lost, checkout, bundle, data, tracing, procs, started, ret, results>>

(***************************************************************************)
(* The data directory and the benchmark.                                   *)
(***************************************************************************)
\* The results of cp and head are not looked at.
PrepareData ==
    /\ at = "data"
    /\ \/ data' = (IF Has("fromArchive") THEN "archive" ELSE IF Has("veri") THEN "zeros" ELSE "empty") /\ UNCHANGED faults
       \/ Fault /\ data' = "empty"
    /\ Goto("cache")
    /\ UNCHANGED <<lost, checkout, bundle, exe, tracing, procs, started, ret, results>>

ClearPageCache ==
    /\ at = "cache"
    /\ Goto("blktrace")
    /\ UNCHANGED <<faults, lost, machine, ret>>

\* sudo killall blktrace, of whatever call: its result is not looked at, and it
\* does not wait for the processes it signals.
Signals ==
    /\ ending' = blktraces
    /\ UNCHANGED <<faults, lost>>
KillFails ==
    /\ blktraces # {} /\ Fault
    /\ lostKills' = lostKills + 1
    /\ UNCHANGED <<lostCheckouts, ending>>
KillAll == Signals \/ KillFails

\* Blktrace() kills the ones that are left from earlier calls; start.
MakeBlktrace ==
    /\ at = "blktrace"
    /\ KillAll
    /\ Goto("trace")
    /\ UNCHANGED <<built, blktraces, procs, started, ret, results>>

StartBlktrace ==
    /\ at = "trace"
    /\ blktraces' = blktraces \cup {run}
    /\ Goto("start")
    /\ UNCHANGED <<faults, lost, built, ending, procs, started, ret, results>>

\* A blktrace ends, signalled or not: it may find its device in use.
BlktraceEnds(r) ==
    /\ r \in blktraces
    /\ blktraces' = blktraces \ {r} /\ ending' = ending \ {r}
    /\ UNCHANGED <<run, call, at, exception, died, faults, lost, built, procs, started, ret, results>>

StartBenchmark ==
    /\ at = "start"
    /\ procs' = procs \cup {run}
    /\ started' = [exe |-> exe, data |-> data]
    /\ Goto("wait")
    /\ UNCHANGED <<faults, lost, built, tracing, ret, results>>

BenchmarkEnds(r) ==
    /\ r \in procs
    /\ procs' = procs \ {r}
    /\ ret' \in IF r = run /\ faults < MaxFaults THEN {0, 1} ELSE {ret}
    /\ faults' = faults + ret' - ret
    /\ UNCHANGED <<run, call, at, exception, died, lost, built, tracing, started, results>>

Exited_Always == TRUE                                       \* Faulty variant: poll for wait
Exited == run \notin procs

\* stop: killall again, then wait, without a limit, for the blktrace of this call.
StopBlktrace ==
    /\ at = "wait" /\ Exited
    /\ KillAll
    /\ Goto("stop")
    /\ UNCHANGED <<built, blktraces, procs, started, ret, results>>

WaitBlktrace ==
    /\ at = "stop" /\ run \notin blktraces
    /\ IF ret = 0 THEN Goto("done") ELSE Throw("AssertionError")
    /\ UNCHANGED <<faults, lost, machine, ret>>

\* proc.wait raises subprocess.TimeoutExpired; the except clause names
\* TimeoutExpired, which is not defined, and that ends the script.
CanExpire_Not == FALSE                                      \* Faulty variant: wait without timeout
CanExpire == at = "wait" /\ run \in procs

BudgetExpires ==
    /\ CanExpire
    /\ at' = "raised" /\ exception' = "NameError"
    /\ expired' = expired \cup {run}
    /\ UNCHANGED <<run, call, interrupted, faults, lost, machine, ret>>

\* Control-C, a kill or a lost connection ends the script, and only the script:
\* setsid puts the benchmark out of reach.
Interrupt ==
    /\ at \notin {"done", "raised"} /\ Cardinality(interrupted) < MaxInterrupts
    /\ at' = "raised" /\ exception' = "KeyboardInterrupt"
    /\ interrupted' = interrupted \cup {run}
    /\ UNCHANGED <<run, call, expired, faults, lost, machine, ret>>

CallAgain ==
    /\ at \in {"done", "raised"} /\ run < MaxRuns
    /\ run' = run + 1 /\ call' \in Calls /\ at' = "parse" /\ exception' = "none"
    /\ started' = None /\ ret' = 0
    /\ UNCHANGED <<died, faults, lost, built, tracing, procs, results>>

Script ==
    \/ ParseArgs \/ CheckArgs \/ SetCgroup \/ CleanForBuild \/ MakeBundle \/ SpliceValues \/ MakeExe
    \/ PrepareData \/ ClearPageCache \/ MakeBlktrace \/ StartBlktrace \/ StartBenchmark
    \/ StopBlktrace \/ WaitBlktrace \/ BudgetExpires
    \/ \E l \in {"cgroup", "clean", "bundle", "exe", "data", "cache"} : CommandFails(l)

ExperimentNext ==
    \/ Script \/ Interrupt \/ CallAgain
    \/ \E r \in blktraces : BlktraceEnds(r)
    \/ \E r \in procs : BenchmarkEnds(r)

\* The script runs, and time passes; a benchmark may hang, and so may a blktrace.
ExperimentSpec == ExperimentInit /\ [][ExperimentNext]_experimentVars /\ WF_experimentVars(Script)
----------------------------------------------------------------------------
(***************************************************************************)
(* What is measured is what was asked for: the executable is built from    *)
(* the branch, with the constants and with the O_DIRECT option of this     *)
(* call and none left from an earlier one, unless a checkout failed; and   *)
(* it starts on data made for it.                                          *)
(***************************************************************************)
MeasuresWhatWasAsked ==
    at = "wait" =>
        /\ lostCheckouts = 0 => started.exe.source.branch = call.branch
        /\ \A c \in DOMAIN call.updates : started.exe.source.values[c] = call.updates[c]
        /\ \A c \in Constant \ DOMAIN call.updates : started.exe.source.values[c] = Default
        /\ ("WANT_O_DIRECT" \in started.exe.options) = Has("veriUseODirect")
        /\ faults = 0 => started.data = (IF Has("fromArchive") THEN "archive" ELSE IF Has("veri") THEN "zeros" ELSE "empty")

(***************************************************************************)
(* An output file is written by one call only, through failed calls and    *)
(* calls with the same output= argument.                                   *)
(***************************************************************************)
OutputsKept == \A o \in Outs : Len(results[o]) <= 1

(***************************************************************************)
(* A blktrace that goes on unsignalled beside the one of the last call has *)
(* outlived a killall that failed: there are never more of them than that, *)
(* however many calls died, and after a call that succeeded there is none  *)
(* unless a killall failed, and never its own.                             *)
(***************************************************************************)
OneBlktrace ==
    /\ Cardinality(blktraces \ ending) <= 1 + lostKills
    /\ at = "done" => run \notin blktraces /\ (lostKills = 0 => blktraces \subseteq ending)

(***************************************************************************)
(* A benchmark runs without a script that waits for it, and may overlap    *)
(* with one of a later call, only if its own call ran out of its time      *)
(* budget or was interrupted: not after a call that failed, and not after  *)
(* one that waited for its blktrace.                                       *)
(***************************************************************************)
OrphanOnlyIfDied ==
    \A r \in procs : (r = run /\ at = "wait") \/ r \in expired \cup interrupted

(***************************************************************************)
(* Calls on one machine do not get in each other's way: results are not    *)
(* overwritten, traces are not mixed but after a failed killall, and       *)
(* benchmarks do not overlap but after an expired budget or an interrupt.  *)
(***************************************************************************)
CallsDoNotInterfere == OutputsKept /\ OneBlktrace /\ OrphanOnlyIfDied

(***************************************************************************)
(* No benchmark holds a call up for ever, not one that hangs either: every *)
(* call comes to an end, but for one that waits in Blktrace.stop for its   *)
(* own blktrace, where the script has set no limit.                        *)
(***************************************************************************)
AwaitsBlktrace == at = "stop" /\ run \in blktraces
CallsEnd == \A r \in 1 .. MaxRuns : run = r ~> (at \in {"done", "raised"} \/ run > r \/ AwaitsBlktrace)
============================================================================
