-------------------------------- MODULE Fleet -------------------------------
(***************************************************************************)
(* Running a suite of experiments on the AWS workers: tools/aws/automation *)
(* (the two launchers and poll_monitors), the launch scripts that use it,  *)
(* kill-jobs.py and pull-results.py, with the jobs on the other end of the *)
(* ssh pipes.                                                              *)
(*                                                                         *)
(* launch_worker_pipes starts one task on each worker and                  *)
(* monitor_worker_pipes waits for all; sequenced_launcher gives the next   *)
(* task to a worker that has become idle.  A pipe carries lines; poll      *)
(* reports POLLIN when there are unread ones and POLLHUP when it is closed.*)
(* An ssh connects and starts its task; one that never connects, whose     *)
(* pipe closes without a task, is not modelled.                            *)
(***************************************************************************)
EXTENDS Suite

CONSTANTS
    Machine,        \* machines that run, by name
    Instances,      \* the same in the order of describe-instances.py
    WorkersFiles,   \* what .awsworkers may say: one set of matched machines for each line
    Blacklist,      \* machines launch-btree.py leaves out
    Suites,
    MaxLines,       \* bound: lines a job prints
    MaxDrops        \* bound: connections that break

ASSUME FleetConstants ==
    /\ Instances \in Seq(Machine) /\ Range(Instances) = Machine /\ Machine # {}
    /\ \A lines \in WorkersFiles : lines \in Seq(SUBSET Machine)
    /\ Blacklist \subseteq Machine
    /\ MaxLines \in Nat /\ MaxDrops \in Nat

\* A suite has variables in every part, and a variable has values.
ASSUME SuiteConstants ==
    \A s \in Suites :
        /\ s.label \in Seq(STRING)
        /\ s.parts \in Seq(Seq([label : STRING, values : Seq(Seq(STRING))]) \ {<<>>})

VARIABLES
    suite, mode, dryRun, regexes,   \* how the launcher was called
    outfiles,                       \* outfiles[t]: output file of the t-th variant
    before,                         \* whether the suite was run before
    logfiles,                       \* labels that have a file in logs/
    phase,                          \* where the launcher is
    idle, next,                     \* idle_resources, next_task_idx
    monitors, alive, events,        \* monitored tasks, those with .running, events to handle
    logged, ended,                  \* lines logged of each task; tasks with WORKER_ENDS
    job, where,                     \* the jobs and their machines
    unread, open, piped,            \* the pipes; lines that entered each
    drops,
    files,                          \* files[m]: [out, by] in expresults/ of m
    pulled                          \* expresults/ here

config == <<suite, mode, dryRun, regexes, outfiles, before>>
launcher == <<phase, idle, next, monitors, alive, events, logged, ended, logfiles>>
remote == <<job, where, unread, open, piped, drops, files>>
fleetVars == <<config, launcher, remote, pulled>>

NTasks == Len(outfiles)
Task == 1 .. NTasks
Old == 0                            \* stands for a task of an earlier run

\* [x for x in s if x in K].
Filter(s, K) ==
    LET upto[n \in 0 .. Len(s)] ==
            IF n = 0 THEN <<>> ELSE IF s[n] \in K THEN Append(upto[n - 1], s[n]) ELSE upto[n - 1]
    IN  upto[Len(s)]

\* filter_workers: a machine once for every line that matches it.
FilterWorkers(lines) ==
    FlattenSeq([i \in DOMAIN Instances |->
        LET hits == Filter(lines, {r \in Range(lines) : Instances[i] \in r})
        IN [j \in DOMAIN hits |-> Instances[i]]])

Workers == Filter(FilterWorkers(regexes), Machine \ Blacklist)

\* The suite may have been run before: then there is a log, and results.
FleetInit ==
    /\ suite \in Suites /\ mode \in {"pipes", "sequenced"} /\ dryRun \in BOOLEAN
    /\ outfiles = Outfiles(suite)
    /\ regexes \in WorkersFiles /\ before \in BOOLEAN
    /\ logfiles = IF before THEN {suite.label} ELSE {}
    /\ phase = "set_logfile"
    /\ idle = <<>> /\ next = 1
    /\ monitors = <<>> /\ alive = {} /\ events = <<>>
    /\ logged = [t \in Task |-> 0] /\ ended = {}
    /\ job = [t \in Task |-> "none"] /\ where = [t \in Task |-> Instances[1]]
    /\ unread = [t \in Task |-> 0] /\ open = {} /\ piped = [t \in Task |-> 0]
    /\ drops = 0
    /\ files = [m \in Machine |-> IF ~before THEN {} ELSE {[out |-> outfiles[t], by |-> Old] : t \in Task}]
    /\ pulled = {}

(***************************************************************************)
(* The launcher's main: set_logfile, retrieve_running_workers, launch.     *)
(***************************************************************************)
LogfileFree == suite.label \notin logfiles

SetLogfile ==
    /\ phase = "set_logfile"
    /\ phase' = IF LogfileFree THEN "retrieve" ELSE "exit"
    /\ logfiles' = logfiles \cup {suite.label}
    /\ UNCHANGED <<config, idle, next, monitors, alive, events, logged, ended, remote, pulled>>

RetrieveRunningWorkers ==
    /\ phase = "retrieve"
    /\ idle' = Workers
    /\ phase' = IF mode = "pipes" /\ NTasks > Len(Workers) THEN "raised"
                ELSE IF mode = "pipes" /\ dryRun THEN "loop" ELSE "assign"
    /\ next' = IF mode = "pipes" /\ dryRun /\ NTasks <= Len(Workers) THEN NTasks + 1 ELSE next
    /\ UNCHANGED <<config, monitors, alive, events, logged, ended, logfiles, remote, pulled>>

\* The command of task t starts on w.  run-veri-config-experiment.py refuses an output
\* file that exists; verification-time-experiment.py, the one script that
\* uses sequenced_launcher, writes it anew.
Refused(t, w) == mode = "pipes" /\ \E f \in files[w] : f.out = outfiles[t]

StartJob(t, w) ==
    /\ where' = [where EXCEPT ![t] = w]
    /\ job' = [job EXCEPT ![t] = IF Refused(t, w) THEN "failed" ELSE "running"]
    /\ open' = IF Refused(t, w) THEN open ELSE open \cup {t}
    /\ files' = IF Refused(t, w) THEN files
                ELSE [files EXCEPT ![w] = {f \in @ : f.out # outfiles[t]} \cup {[out |-> outfiles[t], by |-> t]}]
    /\ UNCHANGED <<unread, piped, drops>>

\* launch_worker_pipes: task idx on workers[idx], one after the other.
LaunchWorkerPipe ==
    /\ phase = "assign" /\ mode = "pipes" /\ next <= NTasks
    /\ StartJob(next, idle[next])
    /\ monitors' = Append(monitors, next) /\ alive' = alive \cup {next}
    /\ next' = next + 1
    /\ UNCHANGED <<config, phase, idle, events, logged, ended, logfiles, pulled>>

\* sequenced_launcher: dispatch_one.
\* Faulty variant: the worker stays in the list.
RestOfIdle_Kept == idle
RestOfIdle == Front(idle)

DispatchOne ==
    /\ phase = "assign" /\ mode = "sequenced" /\ next <= NTasks /\ idle # <<>>
    /\ idle' = RestOfIdle
    /\ IF dryRun THEN where' = [where EXCEPT ![next] = Last(idle)] /\ UNCHANGED <<alive, job, unread, open, piped, drops, files>>
       ELSE alive' = alive \cup {next} /\ StartJob(next, Last(idle))
    /\ monitors' = Append(monitors, next)
    /\ next' = next + 1
    /\ UNCHANGED <<config, phase, events, logged, ended, logfiles, pulled>>

FinishAssign ==
    /\ phase = "assign"
    /\ next > NTasks \/ (mode = "sequenced" /\ idle = <<>>)
    /\ phase' = "loop"
    /\ UNCHANGED <<config, idle, next, monitors, alive, events, logged, ended, logfiles, remote, pulled>>

(***************************************************************************)
(* poll_monitors, and what each launcher does with the monitors that died. *)
(***************************************************************************)
\* Faulty variant: a closed pipe is no event.
Ready_Lines(t) == t \in alive /\ unread[t] > 0
Ready(t) == t \in alive /\ (unread[t] > 0 \/ t \notin open)

Poll ==
    /\ phase = "loop" /\ \E t \in alive : Ready(t)
    /\ LET ready == Filter(monitors, {t \in alive : Ready(t)})
       IN events' = [i \in DOMAIN ready |->
                       [task |-> ready[i], pollin |-> unread[ready[i]] > 0, hup |-> ready[i] \notin open]]
    /\ phase' = "events"
    /\ UNCHANGED <<config, idle, next, monitors, alive, logged, ended, logfiles, remote, pulled>>

\* Faulty variant: a pipe that was closed is not read.
Reads_NotAfterHup(e) == e.pollin /\ ~e.hup
Reads(e) == e.pollin

\* readline until nothing comes.
LinesRead(t) == unread[t]

HandleEvent ==
    /\ phase = "events" /\ events # <<>>
    /\ LET e == Head(events) IN
          IF Reads(e)
          THEN /\ logged' = [logged EXCEPT ![e.task] = @ + LinesRead(e.task)]
               /\ unread' = [unread EXCEPT ![e.task] = 0]
               /\ UNCHANGED <<alive, ended>>
          ELSE /\ ended' = IF e.hup THEN ended \cup {e.task} ELSE ended
               /\ alive' = IF e.hup THEN alive \ {e.task} ELSE alive
               /\ UNCHANGED <<logged, unread>>
    /\ events' = Tail(events)
    /\ UNCHANGED <<config, phase, idle, next, monitors, logfiles, job, where, open, piped, drops, files, pulled>>

WorkersOf(tasks) == [i \in DOMAIN tasks |-> where[tasks[i]]]

\* The monitors that did not survive: in a dry run all of them.
\* idle_resources.insert(0, ...), one by one.
Reap ==
    LET dead == Filter(monitors, Task \ alive) IN
    /\ idle' = IF mode = "sequenced" THEN Reverse(WorkersOf(dead)) \o idle ELSE idle
    /\ monitors' = Filter(monitors, alive)
    /\ phase' = IF mode = "sequenced" THEN "assign" ELSE "loop"

FinishPoll ==
    /\ phase = "events" /\ events = <<>>
    /\ Reap
    /\ UNCHANGED <<config, next, alive, events, logged, ended, logfiles, remote, pulled>>

ReapDryRun ==
    /\ phase = "loop" /\ mode = "sequenced" /\ dryRun /\ monitors # <<>>
    /\ Reap
    /\ UNCHANGED <<config, next, alive, events, logged, ended, logfiles, remote, pulled>>

\* Faulty variant: "and" for "or" in the loop's condition.
LoopOver_Either == monitors = <<>> \/ next > NTasks
LoopOver == monitors = <<>> /\ next > NTasks

\* "All jobs complete."
AllJobsComplete ==
    /\ phase = "loop" /\ LoopOver
    /\ phase' = "done"
    /\ UNCHANGED <<config, idle, next, monitors, alive, events, logged, ended, logfiles, remote, pulled>>

\* pull-results.py: every worker's files are copied over the ones here.
PullResults ==
    /\ phase = "done" /\ pulled = {}
    /\ LET there == UNION {files[m] : m \in Machine} IN
          \E here \in SUBSET there :
             /\ {f.out : f \in here} = {f.out : f \in there}
             /\ \A f, g \in here : f.out = g.out => f = g
             /\ pulled' = here
    /\ UNCHANGED <<config, launcher, remote>>

(***************************************************************************)
(* The jobs.                                                               *)
(***************************************************************************)
\* A line of a job whose connection broke goes nowhere.
PrintLine(t) ==
    /\ job[t] = "running" /\ t \in open /\ piped[t] < MaxLines
    /\ piped' = [piped EXCEPT ![t] = @ + 1]
    /\ unread' = [unread EXCEPT ![t] = @ + 1]
    /\ UNCHANGED <<config, launcher, job, where, open, drops, files, pulled>>

FinishJob(t) ==
    /\ job[t] = "running"
    /\ job' = [job EXCEPT ![t] = "finished"]
    /\ open' = open \ {t}
    /\ UNCHANGED <<config, launcher, where, unread, piped, drops, files, pulled>>

\* kill-jobs.py reaches machine m.
KillJobs(m) ==
    /\ \E t \in Task : job[t] = "running" /\ where[t] = m
    /\ job' = [t \in Task |-> IF job[t] = "running" /\ where[t] = m THEN "killed" ELSE job[t]]
    /\ open' = {t \in open : where[t] # m}
    /\ UNCHANGED <<config, launcher, where, unread, piped, drops, files, pulled>>

\* The connection breaks and the job goes on.
DropConnection(t) ==
    /\ t \in open /\ drops < MaxDrops
    /\ open' = open \ {t}
    /\ drops' = drops + 1
    /\ UNCHANGED <<config, launcher, job, where, unread, piped, files, pulled>>

LauncherStep ==
    \/ SetLogfile \/ RetrieveRunningWorkers \/ LaunchWorkerPipe \/ DispatchOne \/ FinishAssign
    \/ Poll \/ HandleEvent \/ FinishPoll \/ ReapDryRun \/ AllJobsComplete

FleetNext ==
    \/ LauncherStep \/ PullResults
    \/ \E t \in Task : PrintLine(t) \/ FinishJob(t) \/ DropConnection(t)
    \/ \E m \in Machine : KillJobs(m)

\* The launcher runs, and every job comes to its end, with all that keeps the
\* stderr of its ssh open: a benchmark that hangs and outlives its script
\* would keep the pipe open and the launcher waiting.
FleetSpec == FleetInit /\ [][FleetNext]_fleetVars /\ WF_fleetVars(LauncherStep) /\ WF_fleetVars(\E t \in Task : FinishJob(t))
----------------------------------------------------------------------------
FleetTypeOK ==
    /\ phase \in {"set_logfile", "retrieve", "assign", "loop", "events", "done", "exit", "raised"}
    /\ idle \in Seq(Machine) /\ next \in 1 .. NTasks + 1
    /\ monitors \in Seq(Task) /\ alive \subseteq Range(monitors)
    /\ job \in [Task -> {"none", "running", "failed", "finished", "killed"}]
    /\ open \subseteq Task /\ unread \in [Task -> 0 .. MaxLines]
    /\ \A t \in Task : logged[t] + unread[t] = piped[t]

(***************************************************************************)
(* Every line that entered a task's pipe is in the log before its          *)
(* WORKER_ENDS, though poll reports lines and the hang-up together and     *)
(* lines arrive while events are being handled.                            *)
(***************************************************************************)
NothingLost == \A t \in ended : logged[t] = piped[t]

(***************************************************************************)
(* The log of a task is complete when its end is logged, and at every      *)
(* moment the lines logged and the lines in the pipe are all that entered  *)
(* it.                                                                     *)
(***************************************************************************)
LogComplete == FleetTypeOK /\ NothingLost

(***************************************************************************)
(* A machine runs two tasks at once only when a connection broke and its   *)
(* job went on, or when two lines of .awsworkers match the machine.        *)
(***************************************************************************)
OneJobPerMachine ==
    \A t, u \in Task :
        t # u /\ job[t] = "running" /\ job[u] = "running" /\ where[t] = where[u] =>
            drops > 0 \/ ~IsInjective(Workers)

(***************************************************************************)
(* The launcher says "All jobs complete." only when an ssh was started for *)
(* every task and its end was logged; of the tasks only those whose        *)
(* connection broke may still run.                                         *)
(***************************************************************************)
CompleteMeansOver ==
    phase = "done" /\ ~dryRun =>
        /\ ended = Task
        /\ Cardinality({t \in Task : job[t] \in {"none", "running"}}) <= drops

(***************************************************************************)
(* The results of an earlier run of the same suite are never overwritten.  *)
(***************************************************************************)
OldResultsKept ==
    before => \A m \in Machine : \A t \in Task : [out |-> outfiles[t], by |-> Old] \in files[m]

(***************************************************************************)
(* When the labels of a suite tell its variants apart, every task that     *)
(* finished has its own results among the pulled ones, whatever workers    *)
(* the tasks ran on.                                                       *)
(***************************************************************************)
ResultsArrive ==
    pulled # {} /\ WellLabelled(suite) =>
        \A t \in Task : job[t] = "finished" => [out |-> outfiles[t], by |-> t] \in pulled

(***************************************************************************)
(* Results are neither overwritten by a later run of the suite nor by      *)
(* another variant of the same run.                                        *)
(***************************************************************************)
ResultsKept == OldResultsKept /\ ResultsArrive

(***************************************************************************)
(* The launcher ends, in a dry run too, unless sequenced_launcher was      *)
(* given no workers: then it waits for ever.                               *)
(***************************************************************************)
LauncherEnds == (mode = "pipes" \/ Len(Workers) > 0) ~> phase \in {"done", "exit", "raised"}
============================================================================
