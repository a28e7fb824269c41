# VeriBetrFS in TLA+

This directory models three things:

* the crash-safe core of the repository, the key-value store that Dafny verifies in
  `MapSpec/`, `Versions/`, `Betree/`, `BlockCacheSystem/` and `Impl/`;
* two of the concurrent programs in `concurrency/`, the bank and the queue;
* the Python programs in `tools/` that the project's results rest on: which files the
  build checks and what its status page shows, the line counts, the experiments that
  run on AWS and the traces they are plotted from.

The models are translated from the code (where a Dafny state machine leaves a choice
to the implementation, from `Impl/`), checked with TLC on small instances, and proved with
TLAPS for every instance: the versions of the dictionary, the journal system, the block
system with its tree, the two of them together down to both disks, the bank, the queue, the
dependency traversal, the status page, the line counter, the launchers of the AWS fleet, the
experiment runner and the traces.

## 1. The system

The store keeps a map from keys to values.  Operations change an *ephemeral* state
in memory at once and are added to a journal.  From time to time the ephemeral
state is *frozen* and written to disk as a tree (nodes plus an indirection table);
when a superblock that names the new indirection table is on disk, the frozen state
is the *persistent* one.  A sync can also be served without a tree: by writing the
journal entries behind the persistent journal and then a superblock that covers
them.  After a crash the tree is loaded and the journal is replayed on top of it.

| Part | State | Operations | What is hard |
|---|---|---|---|
| Dictionary (`MapSpec/MapSpec.s.dfy`, `UI.s.dfy`) | a map | get, put, successor query | open, closed and infinite range ends |
| Crash-safe dictionary (`MapSpec/ThreeStateVersioned.s.dfy`) | three versions of the map, status of every sync request | put, freeze, commit, crash, push and pop a sync | which syncs a commit may acknowledge |
| Journal view (`Versions/JournalView.i.dfy`) | five journals, two locations, sync requests | freeze, two ways to commit, replay, crash | entries move between journals; a suffix relation must survive every move |
| States view (`Versions/StatesView.i.dfy`) | what is on disk at each location, the states in memory | load, advance, freeze, disk change, report location, forget, crash | the disk may change in any way that spares two locations |
| Composite view (`Versions/CompositeView.i.dfy`) | both views | a step of both with the same label | the views learn of a commit at different times |
| Journal cache and disk (`BlockCacheSystem/Journal*.i.dfy`) | loading phases, entries in memory, requests under way; superblocks and a circular array of blocks | request and response of every read and write, commit of log or location, freeze, replay | reordered and lost responses, scrambled blocks, wrap-around of positions and counter |
| Block cache and disk (`BlockCacheSystem/Block*.i.dfy`) | three indirection tables, a node cache, requests under way; nodes and tables on disk | write back, page in, allocate, free, evict, freeze, clean up | places that a frozen or persistent table still needs must not be reused |
| Implementation (`Impl/`) | the same, with allocator, caches, marshalled buffers | handlers for user calls and disk responses | one disk request per call; a sync needs many calls |
| Betree (`Betree/`, `PivotBetree/`) | a graph of nodes with buffered messages | query, insert, flush, grow, redirect (split, merge), garbage collection | sequential, but a lost message or a node collected too early shows only much later |
| Bank (`concurrency/bank-paper/`, `concurrency/framework/Mutex.i.dfy`) | accounts, each behind a spinning mutex; worker threads; a main thread | transfer, audit, join, add the balances up | two locks per transfer, interleaved atomic steps, a sum without locks |
| Node replication (`concurrency/node-replication/`) | a shared circular log, replicas, combiners | append, execute, advance head, read | lock-free log with reused slots, linearizable reads |
| Shared cache (`concurrency/scache/`) | a status word and counters per page, queues of IO | get, claim, lock, write back, evict | fine-grained atomics |
| Queue (`concurrency/spsc-queue/`) | a ring of cells, two atomic indices | produce, consume | each side acts on an old value of the other's index |
| Locks, hash tables (`concurrency/rwlock*`, `hashtable`, `handoverhand`) | words updated with atomics | acquire, release, insert | interleavings |
| Dependency tools (`tools/lib_deps.py`, `veridepend.py`, `dep-graph.py`) | work list, visited files, sorted groups | explore, skip, sort, refuse | cycles, repeated roots, trust tested one include at a time |
| Build status (`Makefile`, `tools/lib_aggregate.py`, `aggregate-verchk.py`, `veridepend.py`, `dep-graph.py`) | sources, the rules in `build/deps`, reports, `.verified` files, the page, time stamps | read the include lines and write the rules, check, aggregate, draw the page; edit, interrupt | edits while `veridepend.py` or a check runs, failed and interrupted runs, changed include lines |
| Line counter (`tools/line_count*.py`) | temporary directories, a count per file, counters per row | print, clean, count, add up | parallel processes with random directory names; order of the files |
| Fleet (`tools/aws/`) | tasks, workers, pipes, log, result files | launch, poll, reap, kill, pull | lines and hang-ups in one event, broken connections, duplicate workers |
| Experiment runner (`tools/run-veri-config-experiment.py`) | checked-out branch, build, spliced constants, data, processes | one call is fourteen steps | what a failed, expired or interrupted call leaves for the next one; a `killall` whose result nobody looks at |
| Traces (`tools/plot/parser.py`, `PlotHelper.py`) | traces by operation count, bases of the phase | read a line, look up, throughput over a window | phases that start from zero, phases with one name, cached keys, uneven reports |

How they interact: the user calls an operation (`UI.Op`); it is one step of the
block side and of the journal side with a common label (`VOp`).  The label is how
the journal side tells the block side the persistent location at start-up
(`SendPersistentLocOp`), how the block side tells the journal side where the frozen
table went (`SendFrozenLocOp`), and how it hears that the commit is complete
(`CleanUpOp`).  Each side sends requests to its part of an asynchronous disk, which
answers in any order, and a crash resets both sides.  The programs in `concurrency/`
are separate from the store: each has its own threads and shares with the others only
the framework's mutexes and atomics.  The tools share files: `veridepend.py` writes the
rules that make follows, the reports of make's checks are what the status page is made
from, the launchers start the experiment runner on the workers, and its output files are
pulled back, parsed and plotted.

What makes each part correct:

* Crash-safe dictionary: every version is what a prefix of the user's puts produces; a
  sync is acknowledged only when everything before it is in the persistent version.
* The two views: they agree on the persistent and the frozen location; the journals
  they pass around always lead from one version to the next.
* Journal cache and disk: the superblock that recovery chooses, and the one being
  written, describe a journal that can be read; no write touches it; entries come back
  in the order they went in.
* Block cache and disk: the persistent, frozen and ephemeral tables never share a place
  that is being overwritten; a table on disk names only nodes that are on disk.
* Implementation: every handler is one step of the caches; a sync that the user keeps
  asking for is acknowledged.
* Betree: a query returns what the messages on the path to the key amount to, and no
  operation but an insert changes that for any key.
* Bank: transfers are atomic and covered, money is conserved, every run ends.
* Node replication: every operation takes effect once, between its call and its return,
  in the order of the log; no slot of the ring is reused before every replica read it.
* Queue: each element is delivered once, in order, and the two sides never touch the
  same cell.
* Shared cache, locks, hash tables: exclusive access is exclusive; a page is neither
  lost nor written back twice.
* Dependency tools: exactly the reachable files, includes first; no trusted file rests
  on an untrusted one.
* Build status: after a run of make without edits, nothing on the page is out of date or
  looks better than it is, up to races and a miscount that are listed in section 3.
* Line counter: rows add up to the total; a wrong count does not go unnoticed.
* Fleet: every task runs once on an idle machine, its output is logged whole, its
  results arrive under a name of their own.
* Experiment runner: what is measured is what was asked for, and a call leaves nothing
  that spoils the next.
* Traces: a value is looked up where it was measured, and rates are those of the program
  as long as the names of its phases tell them apart.

PROJECT.json lists every component with its status, and the hazards of the code
with the properties that would catch them.

## 2. Modules

| Module | Models | Remarks |
|---|---|---|
| `MapSpec` | `MapSpec.s.dfy`, `UI.s.dfy` | operations as records; `MapNext(s, t, op)` |
| `Journal` | `Journal.i.dfy`, `TSJ.i.dfy` (suffixes), `ThreeStateTypes` | `ApplySeq` is written without recursion so that it can be proved about; `IApplySeq` is the recursion of the code, and the two are proved equal |
| `ThreeStateVersioned` | `ThreeStateVersioned.s.dfy` | the abstract specification |
| `CrashSafety` | history variables over it | what a user can rely on; no code of its own |
| `ViewOp`, `JournalView`, `StatesView`, `CompositeView` | `Versions/` | one action per `Step`; the composition conjoins the two actions of a label |
| `JournalInterval` | `JournalInterval.i.dfy`, `JournalRange.i.dfy`, `DiskLayout.i.dfy`, superblocks | circular arithmetic, batches of entries in blocks |
| `JournalDisk` | `JournalDisk.i.dfy` | request queues, superblocks, the array of blocks, crash |
| `JournalCache` | `JournalCache.i.dfy` | the machine as a record with a phase |
| `JournalSystem` | `JournalSystem.i.dfy`, `JournalSystem_Refines_JournalView.i.dfy`, the condition of `CommitterImpl.tryAdvanceLog` | cache and disk joined; the refinement mapping to `JournalView` |
| `MathUtils`, `Bank` | `bank-paper/Bank.i.dfy` | the abstract bank: balances and covered transfers |
| `BankTransfer` | `bank-paper/Impl.i.dfy`, `bank-paper/Bundle.i.cpp`, `framework/Mutex.i.dfy` | mutexes, transfer, audit, worker loop, main |
| `BetreeSpec` | `Betree/BetreeSpec.i.dfy`, `BlockInterface.i.dfy`, `BetreeInv.i.dfy`, `lib/Base/Message.i.dfy` | messages, nodes, lookups; an operation is the nodes it reads and the writes it makes |
| `BlockDisk`, `BlockCache` | `BlockCacheSystem/BlockDisk.i.dfy`, `BlockCache.i.dfy` | requests, nodes and tables on disk; three indirection tables and a node cache |
| `BetreeSystem` | `BetreeCache.i.dfy`, `BetreeSystem.i.dfy`, `BlockSystem.i.dfy` and their refinement files | tree transactions on the block cache, joined with the disk; the mapping to `StatesView` |
| `BetreeJournalSystem` | `BetreeJournalSystem.i.dfy` and its two refinement files, the invariant of `BlockJournalCache.i.dfy` | the product of `BetreeSystem` and `JournalSystem` under one label, and the theorems about it |
| `SpscQueue`, `BoundedFifo` | `concurrency/spsc-queue/QueueImpl.i.dfy` | three atomic steps a call; the abstract queue it implements |
| `LibDeps` | `tools/lib_deps.py`, callers in `veridepend.py` and `dep-graph.py` | one behaviour is one run of one of the two tools over one source tree |
| `Aggregate`, `BuildStatus` | `tools/lib_aggregate.py`, `aggregate-verchk.py`, `veridepend.py`, `dep-graph.py`, rules of the `Makefile` | conditions of reports; make, Dafny and a programmer |
| `LineCounts` | `tools/line_count_lib.py`, `line_counter.py`, `line_counter_report_lib.py` | counting processes, then the report |
| `Suite`, `Fleet` | `tools/aws/suite.py`, `automation.py`, the launch scripts, `kill-jobs.py`, `pull-results.py` | variants and labels; launchers, pipes, jobs |
| `ExperimentRun` | `tools/run-veri-config-experiment.py`, `tools/clean-for-build.sh` | one action per group of commands between two tests |
| `TracePlot` | `tools/plot/parser.py`, `PlotHelper.py`, the progress reports of `ycsb/YcsbMain.cpp` | the benchmark that prints, the parser, the plot |
| `JournalTheorems`, `CompositeViewProofs`, `CrashSafetyProofs`, `JournalSystemProofs`, `BetreeSystemProofs`, `ConcurrencyProofs` (bank, queue and status page), `ToolProofs` (the other tools) | | lemmas and theorems |
| `MC_...` | | the small instances; `BankTransfer`, `SpscQueue` and `TracePlot` need no module of their own for that |

How the pieces fit: `BetreeSystem` implements `StatesView`, `JournalSystem`
implements `JournalView` (both checked and proved), `CompositeView` joins the two views and implements
`ThreeStateVersioned` (checked and proved), and `CrashSafety` says what that gives a user
(checked and proved).  `BetreeJournalSystem` is the product of the two detailed systems; that it
implements `CompositeView`, and so `ThreeStateVersioned`, is proved.  `BankTransfer` implements `Bank`, `SpscQueue` implements
`BoundedFifo` (both checked and proved).

State corresponds to state and action to predicate by name.  Where a name is taken
(`Init`, `Crash`, `Stutter` occur in several Dafny modules) the action has the
initial of its module in front: `JCrash`, `SCrash`, `DCrash`.  `Option` values are
`None`, `NoLoc` or `NoState`; the pairs `superblock1/2`, `reqReadSuperblock1/2` are
functions on the slots 0 and 1.  The label `vop`, a parameter of the Dafny
predicates, is a variable that holds the label of the last step.

Abstractions:

* A journal block is its place in a batch and the batch's entries, not bytes.  The
  code parses a header in the first block and then the bytes of as many blocks as
  the header says; a batch whose blocks are not all there does not parse.  How many
  blocks a batch takes depends on the size of the entries: the model lets a batch
  take any number up to `MaxBlocksPerWrite`.
* A crash leaves in a block that was being written what was being written or any
  element of `HavocBlock` (in the code: anything).  The runs use an unreadable block
  and one that looks like a valid batch of its own.
* The superblock counter is modulo `CounterModulus` (2^64 in the code).  Three
  values suffice to tell "one ahead", "one behind" and "equal" apart.
* After loading, the code leaves `frozenJournalPosition` unset; the model chooses a
  value of `UnsetPositions`.
* The step of `BankTransfer` is one atomic operation of `Mutex.i.dfy`: the
  compare-and-set of the lock word, the read of the cell, the write of the cell, the
  store that releases the word.  The random account numbers of the worker loop are any
  two numbers of its range.  The counters of successful and aborted calls are left out.
  Overflow of a balance (a 32-bit `int` in `Bundle.i.cpp`, moved by one unit per call
  from 5001) is not modelled: it would take 2^31 calls on one account in three seconds.
  `ChecksFunds` tells the two versions of the transfer apart: `TRUE` is the method of
  `Impl.i.dfy`, `FALSE` the one in the compiled `Bundle.i.cpp`.
* Block side and journal side share no state besides the label of a step.  Their product,
  `BetreeJournalSystem`, is too large to enumerate and has no run of its own: the sides are
  checked alone and through their views, the product is proved.  The two sides write one label
  differently: to the journal an operation that leaves no entry is `NoOp`, whatever the tree
  answered (`JournalLabel`).
* Two node locations overlap only if they have the same address
  (`overlappingNodesSameAddr`), likewise two table locations, so a location is its address.
  The successor lists of an indirection table are sets.  A read that fails, and a sector
  that was being written at a crash and cannot be read, is `None`; otherwise a crash leaves
  what was being written or what was requested (`HavocNode`, `HavocTable`).
* Nodes are those of `Betree/`, a buffer and a child for each key, not the pivots and
  buckets of `PivotBetree/`.  In a redirect the new children hold nothing for keys that are
  not routed to them, and only keys with a child are redirected: a redirect with other
  choices makes the same trees up to nodes nobody reads.
* A step of `SpscQueue` is one atomic load or store of an index, or one access to a cell.
* Modification times are kept as what make asks of them, which prerequisites of a target
  were written after it.  Make itself, ssh, `toposort` and the processes started are
  modelled from how the code uses them and are marked external in PROJECT.json.
* In `BuildStatus` a report is what the regular expressions of `lib_aggregate.py` look for;
  a file includes only files with smaller numbers (cycles are in `LibDeps`).
* In `LineCounts` a printed file is so many lines of compiled code, ghost code and noise.
* A label is the sequence of its words between the dashes, joining labels is concatenation.
  Two labels that differ as sequences but not as text are outside the model.
* In `Fleet` an ssh that is started connects and starts its task.  One that never connects
  closes its pipe at once, and the launcher counts a task that never ran as complete: this
  is not modelled (a task that fails at once, which looks the same to the launcher, is).
  Of the results of an earlier run the model shows that they are kept when `set_logfile` and
  the experiment runner refuse to go on; the rest of `ResultsKept` is about labels.
* Commands of the experiment runner are modelled by what they change: branch, generated
  code, executable, data, processes.  Each of them may fail, `killall` too, and a
  `killall` that works does not wait: a blktrace it has signalled ends some time later.
  The script may be interrupted at every step.
* Of the options that the experiment runner hands to make, `MeasuresWhatWasAsked` is about
  `WANT_O_DIRECT`: line 279 of the script drops the other two.
* Interpolated values are fractions; all measurements of a trace file are stored alike.
  `DiscreteTrace`, which looks the next value up instead of a point between two, is left out.
* Two reports of one phase are at least one operation apart and may have the same time (a
  run catches up on reports after a stall); a phase may end before its first report.

## 3. Runs

| Run | Instance | Distinct states | What it shows |
|---|---|---|---|
| `composite` | one key, two values, two locations, one sync id, journals up to 2 entries | 112,644 | The two views implement the crash-safe dictionary (`RefinesThreeStateVersioned`); `LocationsAgree`; `JournalsConnect`. |
| `crash_safety` | two keys, two values, two sync ids, histories up to 3 puts | 96,852 | `VersionsArePrefixes` of the history, `AckedSyncsSurvive`. |
| `journal` | 2 blocks, batches of 1 or 2 blocks, two values, up to two entries in memory, one sync id | 169,331 | The journal a superblock names is readable (`JournalsReadable`), no write touches it (`WritesAvoidPersistentJournal`), requests and the records of them match and recovery picks a safe superblock (`RecoverySafe`, which includes the type invariant); entries and batches come back in the order they went in, across wrap-around, freezes and crashes, and syncs are acknowledged no earlier than `JournalView` allows (`RefinesJournalView`). |
| `bank` | 2 threads, 4 accounts with one unit, 2 calls each, with audits, `ChecksFunds = TRUE` | 138,917 | `HandlesUnique` (mutual exclusion); `MoneyExact`: conservation, the audit's bound, the final sum; `RefinesBank`; `Termination`. |
| `betree_system` | 1 key, 2 values, 3 references, 2 node places, 2 table places, two requests at a time | 52,787 | Tree, cache and disk implement `StatesView` (`RefinesStatesView`) through inserts, flushes, redirects, deallocation, freezes, write-back, evictions, clean-up and crashes; the persistent, frozen and ephemeral tree each stay closed, acyclic and complete (`TreesUsable`); no outstanding write touches a place that a tree in use needs (`WritesAvoidTrees`); cache and disk agree wherever a node has a place (`CacheCoherent`). |
| `spsc_queue` | ring of 4, 2 items | 1,433 | The two sides never work on one cell (`NoRace`); the queue is an atomic bounded one (`RefinesFifo`). |
| `lib_deps` | every include graph of 3 files with up to 2 different include lines each, missing files, every mix of suffixes, both tools | 513,460 | What the traversals find (`FindsReachable`, `TrustedRestsOnTrusted`), refuse, and in which order they list it (`RightOutcome`); they end (`Terminates`). |
| `build` | 3 files, two jobs: 2 edits or interrupts of a chain that is fine at first, 3 of two of the files of a tree with one include; all combinations of 9 texts for both kinds of page, left alone | 1,394,824 | After a quiet run of make a report can be out of date only if its file was edited during its own check, or an include line was edited while `veridepend.py` ran (`StaleOnlyIfRaced`); every kind of report ends up in the right colour, but for time-outs in tens, and the `.verified` files agree with the page (`PageTruthful`). |
| `line_counts` | 3 files in every order, 12 classifications, 4 directories, 2 calls of make | 741,735 | A collision of directories that spoils a count fails the call (`WrongCountMeansFailure`); rows add up to the total, and the report fails only for listed reasons (`ReportRight`). |
| `fleet` | 2 machines, suites with 2 and 3 tasks, 2 lines, 1 broken connection | 924,564 | No line is lost (`LogComplete`), `OneJobPerMachine`, completion means completion (`CompleteMeansOver`), old results survive and each variant that finished has its own result file (`ResultsKept`), `LauncherEnds`. |
| `experiment` | 3 calls, 1 failing command (or benchmark), 1 interrupt | 398,967 | The benchmark measured is the one asked for (`MeasuresWhatWasAsked`); output files, blktraces and benchmarks of other calls (`CallsDoNotInterfere`); a call ends, or waits in `Blktrace.stop` (`CallsEnd`). |
| `trace_plot` | 3 reports of a load and two runs, steps of 0, 1 or 3, window of 2 | 235,984 | Lookups (`LookupSound`); until a phase follows one of the same name, phase bases and growth of time (`PhasesJoined`), and rates with evenly spaced reports (`EvenReportsShown`). |

A property that is a conjunction of named parts (`RecoverySafe`, `MoneyExact`,
`RightOutcome`, `PageTruthful`, `ReportRight`, `LogComplete`, `ResultsKept`,
`CallsDoNotInterfere`, `PhasesJoined`) is checked as one; each part is stated and explained
beside it in its module.  The type invariants of `CompositeView`, `CrashSafety`, `BankTransfer`
and `LibDeps`, and `SyncStatusIsTruthful`, are parts of the inductive invariants
proved below.  A definition with a suffix such as `_Early`, marked "Faulty variant", is a
plausible mistake in the definition after it; replacing the definition by it makes TLC find
the property named in PROJECT.json violated.

Bounds, all of them CONSTANTS:

* `MaxJournal` (2 in `composite`) bounds the entries in a journal.  Two suffice to have
  a frozen entry and a later one, and two entries whose order matters.  In `journal` (2)
  it bounds the entries on disk and in memory together.
* `MaxHistory` (3) bounds the puts: one in each version with one to spare for an
  overwritten key.
* `NumJournalBlocks` (2): with batches of one or two blocks the array fills exactly, and a
  batch of two wraps around.  `MaxInMemory` (2) bounds the entries in memory,
  `MaxBlocksPerWrite` (2) the blocks of a batch.
* `CounterModulus` (3): the counter of the superblocks wraps after three commits, which
  happens in the run; the code compares two counters only for "one ahead".
* Two request ids: one for each half of a read or write that wraps.
* `MaxCalls` (2) bounds the calls of a worker; the code bounds them by a clock.
* `Ref` (3): a root, a child to flush to and its replacement.  `NodeLoc` (2): with fewer
  places than nodes and versions the system runs out of places, which must block and not
  break.  `ReqId` (2): a write of a node and one of another node or a table.
* `Size` (4): the ring fills with three items, empties and wraps around; the proof is for
  every size.
* Three files are the least with an include of an include.  `Scenarios` starts behaviours
  with two disturbances, an edit during a check and another edit or an interrupt during the
  repair, from one tree; with three, an include line edited under `veridepend.py`, an edit of
  the file it names and one more, in a tree where two of the files are edited; and
  behaviours without any from every combination of texts.
* `MaxAttempts` (2): a failed call of make and the one after it.  Four directories let
  two processes collide or not, in both calls.
* `MaxLines` (2): a line read and a line that comes with the hang-up.  `MaxDrops` (1).
* `MaxRuns` (3), `MaxFaults` (1), `MaxInterrupts` (1): what one bad call leaves, or two of
  them in different ways, for a later one.
* `MaxReports` (3): two phases, one of them with two reports, or the load and two runs, and
  a window over them.

`SYMMETRY` is on request ids, locations, sync ids and temporary directories, which the
specifications only compare for equality, and in runs without liveness properties.  The
VIEWs leave out the label `vop`, which no action reads, and (`StaleFree`) the content, apart from its
counter, of the superblock that is neither what recovery would choose nor what the
machine takes for current: it is overwritten before anything else of it is used; likewise
journal blocks that no interval in use covers.
In the betree run the VIEW leaves out labels and what the disk holds where neither a table
nor a request refers to.  Deadlock is checked except where the program ends: the bank, one
run of a dependency tool, counting and reporting, the launcher, the experiments, the plot.

### Fairness

`BankTransfer`: weak fairness
of each worker's step says that the operating system goes on scheduling every thread;
weak fairness of `Expire` that its clock goes on; weak fairness of main's step the same
for the main thread.  Nothing is assumed about who wins a contended compare-and-set:
`acquire` spins without a queue, and a thread may lose as long as others make calls.
`Termination` holds because the others stop at their deadline and the locks are taken
in ascending order.

`LibDeps` is one sequential process, so weak fairness of its next step says that it goes
on (`Terminates`).
`Fleet`: the launcher goes on, and a job on a worker ends or its connection breaks
(`LauncherEnds`); that poll reports each pipe with something to report is part of the
action.  That jobs end is an assumption about the workers, and it includes what a job
leaves behind: a benchmark that hangs and outlives its script keeps the stderr of the ssh
open, and the launcher waits for it.  `ExperimentRun`: the script goes on; nothing is
assumed of the benchmark, which may hang, because the script waits with a time budget, nor of
blktrace, for which it waits without one: a call that waits there may stay there (`CallsEnd`).

`BuildStatus` assumes no fairness and has no liveness property: `make status` gives Dafny no
time limit (`TIMELIMIT` is set by `verichecks-status` only, Makefile:138-140), so that a check, and make
with it, may never end.

The state machines of the store have no liveness in the code at
that level: a sync makes progress when the user calls `popSync` again, which belongs to
the scheduler in `Impl/` (see the plan).

### Disagreements seen while modelling

The models follow the code.  In these places the code differs from what a comment or a
document next to it says; the properties above are stated so that they hold of the code.

* `concurrency/bank-paper/Impl.i.dfy` makes a transfer "only if the source account has
  enough money" and tests `amount <= sourceBalance`.  The compiled `Bundle.i.cpp` in the
  same directory tests `true || (amount) <= (...)` and makes every transfer; with
  `ChecksFunds = FALSE` two transfers from an account with one unit leave a negative balance.
  `MutualExclusion` is proved for both versions, `RefinesBank` only for the first.
* The Makefile calls `.verified` the "aggregate result of verification for this file and its
  dependencies"; it is that of the file and its direct includes (`VerifiedPrereqs`).  The
  status page does not depend on it: it looks at every report (`PageShowsFailures`).
* `lib_aggregate.py:95` reads the last digit of the number of time-outs (`TimeoutCount`).
  Ten are none, and the file is shown as verified.  One of the texts of `build` has ten, and
  `Sound` says what a green file is in the code: its time-outs are a multiple of ten.
* `veridepend.py` reads the sources (lines 19 to 34) and then writes `build/deps` (80 to 84).
  An include line edited in between is older than `build/deps`, which is not made
  again for it.  When the file that the line names is edited later, the reports of the files
  that include it are out of date, and make does not notice until something else makes
  `build/deps` anew (`IncludeMissed`).
* `tools/run-veri-config-experiment.py:345` handles an expired time budget by killing the
  benchmark, but `TimeoutExpired` is not imported: the handler fails with a `NameError`, and
  the benchmark and its blktrace go on (`BudgetExpires`; hence `OrphanOnlyIfDied`).  So they do when
  the script is interrupted, because the benchmark has a session of its own (line 340).
* Line 90 of the same script ignores the result of `killall`.  When it fails the blktrace of
  an earlier call traces along with that of this one (`OneBlktrace` counts them), and when it fails
  at the end of a call, line 101 waits without a limit for a process that nothing stops
  (`AwaitsBlktrace`).
* `tools/plot/parser.py:231` knows a phase by its name, and the name of every workload after
  the load is "run" (`YcsbMain.cpp:311`, 886-891).  With a load and two workloads the second
  run is not put behind the first: its times and counts overwrite those of the first, and
  the rate plotted is wrong, even negative.  `PhasesJoined` and `EvenReportsShown` hold until then
  (`merged`).
* In the same script `make_options` is emptied (line 279) after two of its options were set
  (`MakeOptions`).
* `tools/plot/parser.py:218` stores a report's time under the operation count of the report
  before it.  Evenly spaced reports only shift the curve (`EvenReportsShown`); with uneven
  ones a constant rate is plotted as a changing one.

## 4. Proofs

All theorems are for every value of the constants that satisfies the named assumptions:
keys are integers and one value is the empty one (`KeyAssumption`,
`EmptyValueAssumption`), `NoLoc` and `NoState` are not a location or a state
(`LocAssumption`, `NoStateAssumption`), the bounds are natural numbers
(`MaxJournalAssumption`, `MaxHistoryAssumption`); for the journal system there is at least
one block (`NumJournalBlocksAssumption`), a batch has at least one block and a position that
the code leaves unset is some position (`BoundsAssumption`), the counter has at least three
values (`CounterAssumption`), what a crash leaves is a block or nothing (`HavocAssumption`),
and `None` is no request, block, superblock or interval (`NoneAssumption`); for the block
system there are finitely many keys and references (`FiniteAssumption`: keys have a largest
length, references are 64-bit numbers), the root is one of the references
(`RootAssumption`), and `NoneAssumption` and `HavocAssumption` say of nodes, tables, places
and requests what they say of blocks above; for the bank `TransferConstants`, for the queue `QueueConstants`
(at least two cells, `None` is no item), for the dependency tools `LibDepsConstants` (include
lines and roots are files, there is a root), for the line counter `LineCountConstants` (finitely
many files and rows, line counts are natural numbers, `NoTime` is no number), for the fleet
`SuiteConstants` and `FleetConstants` (suites are lists of variables, none of their parts empty;
instances are machines), for the experiment runner `ExperimentConstants` (calls name branches,
`None` is no generated program), for the build status `BuildConstants` (includes go to files with
smaller numbers, a report has counts only in its "finished" line and a syntax check prints no such
line, `NoFile` is no report), for the traces `TraceConstants` (`NoValue` is the name of no phase;
measured values are integers; a window has at least one
operation).  The theorems about `BetreeJournalSystem` assume of its
constants, as `ConstantsOK`, what the two sides assume of them.

* `JournalTheorems`: what replaying a journal does.  `ApplySeq` of a concatenation is
  replaying the two parts; a suffix of a journal is what remains after a prefix.
  Everything about the views rests on these.  `ApplySeq` is given in closed form (the
  last entry for a key decides); `ApplySeqRecursion` shows that this is the recursion of the
  code, `IApplySeq`.  The provers cannot instantiate the library's induction theorems, which
  take a predicate as a parameter; `SetInduction` is the same principle for a set (a set of
  numbers that contains 0 and successors contains all of them), which they can.
* `CompositeViewProofs`: `CompositeInvariant`, `LocationsAlwaysAgree`,
  `JournalsAlwaysConnect` and `CompositeRefinement` (the views implement
  `ThreeStateVersioned`).  The inductive
  invariant is `TypeOK`, `LocationsAgree` and `JournalsConnect`.  The refinement mapping
  reads the persistent state at the journal side's location, but the disk is protected at
  the locations the states side knows: without `LocationsAgree` a disk change could
  alter the mapped state.  `JournalsConnect` says that the journals kept for the frozen
  and the ephemeral state lead to the versions in memory.  Two of them, gamma and
  delta, are used only when the log is extended, many steps after they were set, so
  that the relation has to be carried along.  The proof has one step per pair of
  actions with a common label.
* `CrashSafetyProofs`: `VersionsAlwaysPrefixes` and `AckedSyncsAlwaysSurvive`, with
  the invariant `TypeOK`, `VersionsArePrefixes`, `SyncStatusIsTruthful` and
  `AckedSyncsSurvive`: that an acknowledged sync survives the next commit or crash
  follows from what its status said before it was acknowledged.  `HistoryIsAuxiliary`
  shows that the history variables restrict nothing.
* `JournalSystemProofs`: `RecoveryAlwaysSafe`, `WritesAlwaysAvoid`,
  `JournalsAlwaysReadable` and `JournalSystemRefinesView`, for any number of blocks, request
  ids, counter values and crashes.  None of the invariants is inductive by itself; `IInv` is
  their common strengthening, and it holds of all the states of the run `journal` too.
  `SuperblockWriteInv` says which superblock is being written, as a function of the machine;
  `SuperblockInv` that the machine is on the slot that recovery would choose, unless a commit
  has reached the disk and waits for its answer; `MemoryInv` that the entries in memory that
  are frozen belong right behind what is written; `ReadInv` that the halves of the journal
  read while loading are those on disk; `JournalWriteInv` that the writes under way are
  disjoint and lie behind the persistent journal and before the end of what is written, as
  distances from the start of the journal (`Offset`), which makes the wrap-around a matter of
  two lemmas; `ContentInv` that the intervals the machine will commit can be parsed.  A
  journal being readable is a statement about all batches in an interval; the lemmas before
  the invariant show that two readable slices that follow each other are a readable slice
  and that its entries are those of the two (`ParseJournalRange`, a recursion over the
  blocks, is shown to satisfy its equations and then to distribute over concatenation, by
  `SetInduction`).  The refinement has one lemma per step.  The mapping has two forms, while a
  commit waits for its answer on disk (`ViewOfCommitted`) and otherwise (`ViewOfReady`): the
  step that commits in the view is the disk's internal step that makes the write durable, not
  the answer.
* `BetreeSystemProofs`: `CacheAlwaysCoherent`, `WritesAlwaysAvoidTrees`,
  `TreesAlwaysUsable` and `BetreeSystemRefinesStatesView`, for any number of keys, nodes,
  places, requests and crashes.  There are two inductive invariants, and both hold of all the
  states of the run `betree_system` too.  `IInv` is about places and requests and knows
  nothing of what nodes mean: which writes of nodes (`NodeWriteInv`) and of tables
  (`TableWriteInv`) are under way, as a function of the machine; that the writes under way go to different places, none of them in the persistent table nor in
  a frozen one that has a location (`PlaceInv`); that a cached node with a place is what the
  disk holds there, and a node being written is in the cache (`CacheInv`); that a node is read
  once at a time, from the place it has, while it is not in the cache (`ReadInv`); and that a
  machine that is not ready has no requests for nodes (`IdleInv`).  A tree operation is a list of allocations and writes that the
  cache applies in one step; what each of them keeps is proved once and carried along the
  list by `SetInduction`.  `TreeInv` says what the tables mean: the nodes a table names
  (`Graph`) are a tree and the table has their successors (`Holds`), for the persistent, the
  frozen and the ephemeral table, and the tables on disk at the persistent and the frozen
  location are the first two.  Between the two invariants and the view lies the theory of
  trees.  The model defines the value of a key by paths from the root and acyclicity by what
  is reachable, as the code does; for the proof a node decides a key to have a value when it
  is in the least set closed under "the buffer says so, or passes it on to a child that does"
  (`Decided`), and acyclic means that nodes can be given ranks that decrease towards the
  children.  Both are shown to be the same as the definitions, and then each operation needs
  only a set or a ranking for the new tree: an insert changes the value of its key and of
  no other, a flush, a growth, a redirect and a deallocation change none.  `TransInv` says
  which tree a transaction has reached after some of its operations.  The refinement has one
  lemma per step.  Every write request is a disk change of the view, because until it is
  answered a crash may leave anything at its place; that it spares the persistent and the
  frozen location is `PlaceInv`, and the same holds of what a crash scrambles.
* `BetreeJournalSystem`: `StoreRefinesCompositeView` and with it `StoreIsCrashSafe`, the
  end-to-end refinement from both caches and disks to the crash-safe dictionary.  The invariant
  is the conjunction of those of the two sides, and no more is needed: a step of the product is a
  step of each side, which is a step of each view, and two steps of the views under one label
  are a step of `CompositeView` (`TogetherView`).  What has to be shown is that the labels fit:
  which steps of a view go with which label, that the copies of the operators in the instances
  agree, and that for a query, of which the journal knows nothing, the journal's `NoOp` leaves the
  entries that the query would leave, none.  `PersistentTreeAlwaysThere` and
  `OkaySendPersistentLocStep` then follow from `LocationsAgree` of the view.
  `CachesAlwaysAgree`, the invariant of `BlockJournalCache.i.dfy`, needs to know what each
  label does to what is frozen, on either side (`FrozenByLabel` of the two sides).
  The definitions of the product were also tried with TLC before they were proved about, on part
  of its states (all behaviours up to 72,000 states and 2.1 million states of random ones).
* `ConcurrencyProofs`, the bank: `MutualExclusion`, `TransfersRefineBank`, `ChecksumAlwaysExact` and
  `MoneyAlwaysExact`.  The invariant
  `LockInv` adds to the types and to `HandlesUnique` that a pair of accounts is in
  ascending order (so that source and destination differ), that an audit takes one
  lock, and where main's index is.  With it an entry is with at most one thread
  (`SourceCarriers`, `DestCarriers`), every step but `DoTransfer` leaves `BankView` as
  it is, and `DoTransfer` is the transfer of the abstract bank.  The total is a sum over the
  accounts; that a transfer leaves it alone is an induction over the accounts.  Conservation
  and the final sum do not need the test for funds and are proved for both versions of the
  transfer; that no entry exceeds the total does (`ChecksFunds`).
* `ConcurrencyProofs`, the queue: `QueueNeverRaces` and `QueueRefinesFifo`.  Each side decides from an old
  value of the other's
  index; the invariant `QueueInv` says that what it learnt remains true while it works: the
  producer in the middle of a call still has room (`ProducerHasRoom`), the consumer still
  has an item (`ConsumerHasItem`).  The other side can only make more room or more items,
  because `Successor` is injective on the ring: two different indices never step onto the
  same cell.  The contents of the ring are the cells from the consumer's index to the
  producer's; the store of an index adds one at the end or takes one from the front.
* `ConcurrencyProofs`, the status page: `StaleAlwaysRaced` and `PageAlwaysTruthful`, for any source tree,
  edits of texts and include lines, interrupts and number of parallel checks.  What can be included from
  a file is a recursion over the include lines; it is first shown to be the least set closed under
  them (by induction over the numbers of the files), that whatever is reached is reached through a file
  that includes it, and that two graphs which agree on what is reached reach the same files.  With these
  `StatusInv` relates reports to sources through the times that make compares.  `FreshReportInv`: a
  report is about the sources as they are, or its check was raced, or some file it was made
  from is newer, so that the rules notice; `CheckInv` says the same of a check that runs.  The
  rules work through the `.dummydep` files, each of which stands for a file and all it includes;
  `OrderInv` and `RunningInv` say that a check starts only when those are done, so that none of
  them is touched while it runs.  `DepsInv`: the rules of the last `veridepend` are those for
  the sources, or the rules notice that too, or an include line was missed; while `veridepend` runs,
  it says the same of what it has read so far.  `QuietInv`: while nobody edits, what make is
  done with stays up to date, which at the end of an undisturbed run leaves only the races.  `BuiltInv`, `PageInv`
  and `VerifiedInv` carry this on to the page and to the `.verified` files.
* `ToolProofs`, the dependency tools: `ReachableFound`, `TrustedClosed` and `OutcomeAlwaysRight`, for any source
  tree.  The invariant
  `WorkListInv` says that the includes of a visited file are visited or still on a work
  list, `FoundInv` that what is visited or listed is reachable, `RootsInv` that the roots
  dealt with are visited.  When the work list is empty the visited files are closed under
  includes and contain the roots; the reachable files are the least such set.  For
  `TrustedClosed` the trusted files among them are closed in the same way.  For
  `OutcomeAlwaysRight` the groups listed so far contain the includes of their members, and
  when no file is ready for the next group, the file from which the fewest of the finitely
  many files left can be reached is on a cycle.
* `ToolProofs`, the line counter: `WrongCountsAlwaysFail` and `ReportAlwaysRight`, for any number
  of files, directories, calls and rows.  Two counts in one directory do spoil each other, so
  neither "the directory holds what this count printed" nor "the counts are right" is an invariant.
  `CountInv` says that both hold until a call has failed or is bound to (`Doomed`: a count is at
  work where sloccount has already left its data).  `ReportInv` follows the report file by file:
  the total line is the sum of the rows, and of the files added so far, whatever their order
  (`RunningSums`); a row that holds impl lines alone got them from a file of another row, and a
  counter without a time from a file without one (`CountersExplained`), which are the causes that
  `FailuresExplained` allows.  That a sum over a finite set does not depend on the order in which
  `MapThenSumSet` takes the elements is proved first (`SumIs`).
* `ToolProofs`, the experiment runner: `AlwaysMeasuresWhatWasAsked` and `CallsNeverInterfere`, for
  any calls, branches and constants.  `BuildInv` says what of the build there is at each point of a
  call: after `clean-for-build.sh` neither generated program nor executable is left, later the program
  has this call's constants, then the executable is made from it; with the exceptions that the code has,
  a checkout that failed unnoticed and a fault in preparing the data.  `ProcsInv`
  says that a benchmark without a script that waits for it is of a call that expired or was
  interrupted.  `TracesInv` counts the blktraces that were not told to end: a call adds one, and its
  first `killall` tells all that are there unless it fails, so that there are never more than one
  and as many as `killall`s failed.
* `ToolProofs`, the launchers: `LogsAlwaysComplete`, `MachinesNeverShared`, `CompleteIsSaidInTruth`
  and `ResultsAlwaysKept`, for any suites, machines, workers files and number of lines and broken
  connections.  `FleetInv` has a part for each.  `Pipes`: an event with a hang-up and nothing to read
  still means an empty and closed pipe when it is handled, after lines of other pipes, which is what makes
  it right to end a task there.  `Watched`: a task started is monitored until its end is logged, and
  the jobs that run behind a closed pipe are as many as connections broke at most.  `Machines`: with
  `launch_worker_pipes` the n-th task is on the n-th worker; with `sequenced_launcher` no worker is
  idle and monitored, or monitored twice, unless the workers file lists it twice.  `Results`: which
  files a machine holds, and that the pulled files are those of a finished launch.  That different
  variants have different files is a fact about `make_label` (`OutfilesDistinct`): a label is the words of
  the variables that take several values in the suite, and when no part of the suite can be taken for
  another one, a label determines its part, each of its words and so its variant.  It is proved from
  the recursions of `make_variants` and the concatenation of labels, by induction over sets of numbers.
* `ToolProofs`, the traces: `LookupsAlwaysSound`, `PhasesAlwaysJoined` and `EvenReportsAlwaysShown`, for
  any phases, reports, measurements and window.  That `Sorted` lists all keys in ascending order is a
  matter of counting (the key with i - 1 smaller ones exists because different keys have different
  numbers of them); with it bisection finds the nearest keys on both sides.  The invariant
  `TraceInv` has two parts.  `StoredInv` holds of every trace: values are stored under operation
  counts, and keys are cached only when nothing is stored any more; it gives `LookupSound`.  `JoinedInv`
  holds until a phase follows one of the same name.  Its `TotalsInv`: the parser's time and operation
  count are the program's totals, although a new phase counts from zero (its base is the total when it
  started).  Its `RecordedInv`: the time of a report is stored under the total of the one before,
  unless both have the same total.  A growing trace stays growing when it is interpolated (`LookupGrows`, a statement about
  products of integers), which gives positive rates; with even reports the times are
  the operation counts plus a constant, which the difference over a window cancels
  (`LookupLinear`).

Only model-checked:

* `Termination`, `Terminates`, `LauncherEnds`, `CallsEnd`: liveness under fairness.

Every other property of a run is a theorem.

## 5. Not modelled, and why

* The scheduler in `Impl/` (`doSync`, `popSync`, response handlers); node replication;
  shared cache; reader-writer locks; hash tables: planned below.
* Pivots, buckets and the tree operations of `Impl/`: other representations of the nodes
  and transactions that `BetreeSpec` has; sequential.
* Byte-level systems (`ByteBlockCacheSystem/`) and marshalling: a translation of formats
  with checksums, without interleavings of its own.
* The framework for the Dafny proofs (ghost resources) has no run-time state; the older
  concurrency experiments are superseded; the multi-producer queue is an unfinished
  experiment; `lib/` and the C++ runtime are used through their contracts.
* `tools/aws/scale-workers.py` and `describe-instances.py`: one listing and one request to
  EC2; what can go wrong is behaviour of the service, of which the repository says nothing.
  (It starts the first n instances by name, where `tools/aws/README.md` speaks of a desired
  number: the two differ when an instance has stopped by itself.)
* Drawing (most of `PlotHelper.py`, the other plot scripts), the layout of the line count
  table, text filters and generators among the scripts: straight-line code without state
  that a later step depends on.

Behaviour without a property: a superblock or a node that cannot be read leaves the store
waiting for ever, and the code does not claim more; a failed command that prepares the data
of an experiment is not noticed by the script; a job that failed counts as complete; a
syntax check that died looks like a good one; the label of a continuous-integration report
is read before the build.

## 6. Plan

In this order:

1. `NodeReplication` (`concurrency/node-replication/Impl.i.dfy`): the ring with alive bits
   and local tails at the grain of atomics (append, exec, advance head), and the abstract
   log it implements.  Runs: two replicas, a ring of three or four slots, two turns.
   Property: no slot is reused before every replica has read it, no entry of an earlier
   turn is taken for a present one.
2. `Coordination`: `doSync`, `popSync`, `tryAdvanceLog`, `tryAdvanceLocation` and the
   response handlers as a scheduler above abstract caches, one disk request per call;
   liveness: if the user goes on calling and the disk answers, a sync is acknowledged.
3. The status word and reference counts of the shared cache and the reader-writer lock;
   hash tables last.

Theorems to add: for each module of the plan its invariant, before its refinement.
