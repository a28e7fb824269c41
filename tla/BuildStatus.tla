----------------------------- MODULE BuildStatus ----------------------------
(***************************************************************************)
(* How "make status" decides which files to check again and what the       *)
(* status page shows: the rules that tools/veridepend.py writes to         *)
(* build/deps, the pattern rules of the Makefile, aggregate-verchk.py and  *)
(* dep-graph.py, with a programmer who edits files at any moment.          *)
(*                                                                         *)
(* For "synchk" the targets .synchk and .syntax take the place of .verchk  *)
(* and .verified.  Modification times are kept as what make asks of them:  *)
(* which prerequisites were written after a target.                        *)
(***************************************************************************)
EXTENDS Aggregate, FiniteSets

CONSTANTS
    DfyFile,        \* numbers: a file includes only files with smaller numbers
    Root,           \* the goal is build/<Root>.status.pdf
    TrustedFiles,   \* files named .s.dfy
    EditTexts,      \* bound: what an edit may put in a file (assumes, frames, and
                    \* the report Dafny gives)
    Jobs,           \* make -j
    Scenarios,      \* bound: which page, which include graph, which texts at first,
                    \* which files are edited, and how many edits and interrupts
    NoFile          \* no such file yet

Lower(f) == {g \in DfyFile : g < f}

\* Counts stand in a "finished" line only, and a syntax check does not print one.
DafnyReports(summaries) ==
    {r \in [summary : summaries, errors : Nat, timeouts : Nat] :
        r.summary # "finished" => r.errors = 0 /\ r.timeouts = 0}
SourceTexts ==
    [assumes : BOOLEAN, frames : BOOLEAN,
     report : [verchk : DafnyReports({"parse", "type", "finished", "none"}),
               synchk : DafnyReports({"parse", "type", "none"})]]

\* What a check of f has read: f and other files, as they were.
FileStates == [inc : SUBSET DfyFile, text : SourceTexts]
IsSnapshot(s, f) == f \in DOMAIN s /\ DOMAIN s \subseteq DfyFile /\ s \in [DOMAIN s -> FileStates]
Snapshots == UNION {[S -> FileStates] : S \in SUBSET DfyFile}

ASSUME BuildConstants ==
    /\ DfyFile \subseteq Nat /\ Root \in DfyFile /\ TrustedFiles \subseteq DfyFile
    /\ EditTexts \subseteq SourceTexts
    /\ \A s \in Scenarios : /\ s.reportType \in {VERCHK, SYNCHK}
                            /\ \A f \in DfyFile : /\ s.inc[f] \subseteq Lower(f)
                                                  /\ s.text[f] \in SourceTexts
                            /\ s.editable \subseteq DfyFile /\ s.disturbances \in Nat
    /\ Jobs \in Nat \ {0}
    /\ NoFile \notin [reads : Snapshots, text : SourceTexts]

VARIABLES
    reportType,     \* fixed: which of the two pages is made
    editable,       \* fixed: the files that the programmer works on
    src,            \* src[f]: includes and text of f
    deps,           \* include graph in build/deps, or NoFile
    described,      \* the files veridepend.py generated build/deps from
    targetIrefs,    \* the files the veridepend.py under way has found
    output,         \* the include graph it has gathered, or NoFile
    built,          \* targets that exist
    newer,          \* <<p, t>>: p was written after t
    report,         \* report[f]: the .verchk, with the sources Dafny read for it
    verified,       \* verified[f]: content of the .verified, "empty" after a failed tool
    page,           \* page[f]: condition shown for f
    make,           \* "idle"; "deps", "found", "gathered" while build/deps is made; "build";
                    \* "failed" while checks are still running
    considered,     \* targets make is done with in this run
    running,        \* running[f]: what the check of f under way has read, or None
    racing,         \* history: files edited since their check under way was started
    raced,          \* history: files edited while the check for their report was running
    unseen,         \* history: files whose include lines were edited since veridepend.py
                    \* was started
    missed,         \* history: the same for the veridepend.py that wrote build/deps
    quiet,          \* history: the last run of make succeeded and nothing was edited since its start
    disturbances    \* edits and interrupts still to come

workTree == <<src, reportType, editable>>
depsFile == <<deps, described, missed>>
veridepend == <<targetIrefs, output, unseen>>
checks == <<report, running, racing, raced>>
buildVars == <<workTree, depsFile, veridepend, checks, built, newer, verified, page, make, considered, quiet, disturbances>>

Dfy(f) == <<"dfy", f>>
Dummydep(f) == <<"dummydep", f>>
Chk(f) == <<"chk", f>>
Verified(f) == <<"verified", f>>
Deps == <<"deps", Root>>
Page == <<"page", Root>>

\* The files a root reaches (LibDeps).
Reachable(inc, f) ==
    LET reach[g \in DfyFile] == {g} \cup UNION {reach[h] : h \in inc[g]}
    IN  reach[f]
Includes == [f \in DfyFile |-> src[f].inc]
Sources(f) == [g \in Reachable(Includes, f) |-> src[g]]

(***************************************************************************)
(* The rules.  deps is the graph that generateDepsForIref wrote down, with *)
(* no includes for a file that it was not called for; the files it was     *)
(* called for are prerequisites of build/deps itself.                      *)
(***************************************************************************)
Listed == IF deps = NoFile THEN {} ELSE Reachable(deps, Root)

DummyPrereqs_Local(f) == {Dfy(f)}                               \* Faulty variant: no chain
DummyPrereqs(f) == {Dfy(f)} \cup {Dummydep(g) : g \in deps[f]}
VerifiedPrereqs(f) ==
    {Chk(f)} \cup UNION {{Verified(g), Chk(g)} : g \in deps[f]}
DepsPrereqs == {Dfy(f) : f \in described}

PagePrereqs == {Dfy(Root), Verified(Root), Deps}

Prereqs(t) ==
    CASE t[1] = "dummydep" -> DummyPrereqs(t[2])
      [] t[1] = "chk" -> {Dfy(t[2])} \cup {Dummydep(g) : g \in deps[t[2]]}
      [] t[1] = "verified" -> VerifiedPrereqs(t[2])
      [] t[1] = "page" -> PagePrereqs

OutOfDate(t) == t \notin built \/ \E p \in Prereqs(t) : <<p, t>> \in newer
DepsOutOfDate == deps = NoFile \/ \E p \in DepsPrereqs : <<p, Deps>> \in newer

\* Pairs of files that some rule relates.
Related(p, t) ==
    \/ p[1] = "dfy" /\ t[1] \in {"dummydep", "chk"} /\ p[2] = t[2]
    \/ p[1] = "dfy" /\ t = Deps
    \/ p[1] = "dummydep" /\ t[1] \in {"dummydep", "chk"} /\ p[2] < t[2]
    \/ p[1] = "chk" /\ t[1] = "verified" /\ p[2] <= t[2]
    \/ p[1] = "verified" /\ t[1] = "verified" /\ p[2] < t[2]
    \/ t = Page /\ p \in {Dfy(Root), Verified(Root), Deps}

Target == {Dummydep(f) : f \in DfyFile} \cup {Chk(f) : f \in DfyFile} \cup {Verified(f) : f \in DfyFile}
             \cup {Deps, Page}

\* Writing p makes it newer than every target, and no file newer than it.
Written(p) ==
    {q \in newer : q[2] # p} \cup {<<p, t>> : t \in {t \in Target \ {p} : Related(p, t)}}

(***************************************************************************)
(* The programmer.                                                         *)
(***************************************************************************)
BuildInit ==
    /\ \E s \in Scenarios :
          /\ reportType = s.reportType
          /\ src = [f \in DfyFile |-> [inc |-> s.inc[f], text |-> s.text[f]]]
          /\ editable = s.editable /\ disturbances = s.disturbances
    /\ deps = NoFile /\ described = {} /\ missed = {}
    /\ targetIrefs = {} /\ output = NoFile /\ unseen = {}
    /\ built = {} /\ newer = {}
    /\ report = [f \in DfyFile |-> NoFile]
    /\ verified = [f \in DfyFile |-> "missing"]
    /\ page = NoFile
    /\ make = "idle" /\ considered = {}
    /\ running = [f \in DfyFile |-> NoFile]
    /\ racing = {} /\ raced = {} /\ quiet = FALSE

Edit(f) ==
    /\ disturbances > 0 /\ f \in editable
    /\ \E inc \in SUBSET Lower(f), text \in EditTexts :
          /\ src[f] # [inc |-> inc, text |-> text]
          /\ src' = [src EXCEPT ![f] = [inc |-> inc, text |-> text]]
          /\ unseen' = IF make \in {"found", "gathered"} /\ src[f].inc # inc THEN unseen \cup {f} ELSE unseen
    /\ newer' = Written(Dfy(f))
    /\ racing' = IF running[f] = NoFile THEN racing ELSE racing \cup {f}
    /\ quiet' = FALSE
    /\ disturbances' = disturbances - 1
    /\ UNCHANGED <<reportType, editable, depsFile, targetIrefs, output, built, report, verified, page, make, considered, running, raced>>

(***************************************************************************)
(* make: first the included makefile, then the goal.  A target is          *)
(* considered once all its prerequisites have been.  The first real        *)
(* prerequisite of the goal is the root's report, so that depth first the  *)
(* .dummydep files of all included files come before any check.            *)
(***************************************************************************)
StartMake ==
    /\ make = "idle"
    /\ make' = "deps" /\ considered' = {}
    /\ quiet' = FALSE
    /\ UNCHANGED <<workTree, depsFile, veridepend, checks, built, newer, verified, page, disturbances>>

\* veridepend.py reads the sources once to find the files and again for the
\* include lines of each, and writes build/deps at the very end.
FindTargets ==
    /\ make = "deps" /\ DepsOutOfDate
    /\ make' = "found"
    /\ targetIrefs' = Reachable(Includes, Root)
    /\ unseen' = {}
    /\ UNCHANGED <<workTree, depsFile, output, checks, built, newer, verified, page, considered, quiet, disturbances>>

GatherDeps ==
    /\ make = "found"
    /\ make' = "gathered"
    /\ output' = [f \in DfyFile |-> IF f \in targetIrefs THEN src[f].inc ELSE {}]
    /\ UNCHANGED <<workTree, depsFile, targetIrefs, unseen, checks, built, newer, verified, page, considered, quiet, disturbances>>

WriteDepsFile ==
    /\ make = "gathered"
    /\ make' = "deps"
    /\ deps' = output /\ described' = targetIrefs /\ missed' = unseen
    /\ targetIrefs' = {} /\ output' = NoFile /\ unseen' = {}
    /\ built' = built \cup {Deps}
    /\ newer' = Written(Deps)
    /\ UNCHANGED <<workTree, checks, verified, page, considered, quiet, disturbances>>

\* quiet becomes true here and stays so unless somebody edits before the run is over.
StartBuild ==
    /\ make = "deps" /\ ~DepsOutOfDate
    /\ make' = "build"
    /\ quiet' = TRUE
    /\ UNCHANGED <<workTree, depsFile, veridepend, checks, built, newer, verified, page, considered, disturbances>>

Dummies == {Dummydep(f) : f \in Listed \ {Root}}

MayConsider(t) ==
    /\ make = "build" /\ t \notin considered
    /\ \A p \in Prereqs(t) : p[1] \notin {"dfy", "deps"} => p \in considered
    /\ \A d \in Dummies : d \in considered \/ (t[1] = "dummydep" /\ t[2] <= d[2])

Considered(t) == considered \cup {t}

UpToDate(t) ==
    /\ MayConsider(t) /\ ~OutOfDate(t)
    /\ t # Page
    /\ considered' = Considered(t)
    /\ UNCHANGED <<workTree, depsFile, veridepend, checks, built, newer, verified, page, make, quiet, disturbances>>

Build(t) ==
    /\ MayConsider(t) /\ OutOfDate(t)
    /\ built' = built \cup {t}
    /\ newer' = Written(t)
    /\ considered' = Considered(t)

TouchDummydep(f) ==
    /\ Build(Dummydep(f))
    /\ UNCHANGED <<workTree, depsFile, veridepend, checks, verified, page, make, quiet, disturbances>>

JobFree == Cardinality({g \in DfyFile : running[g] # NoFile}) < Jobs

\* Dafny reads the file and everything it includes, and takes its time.
StartCheck(f) ==
    /\ MayConsider(Chk(f)) /\ OutOfDate(Chk(f))
    /\ running[f] = NoFile
    /\ JobFree
    /\ running' = [running EXCEPT ![f] = Sources(f)]
    /\ racing' = racing \ {f}
    /\ UNCHANGED <<workTree, depsFile, veridepend, report, raced, built, newer, verified, page, make, considered, quiet, disturbances>>

\* The report is in place with a fresh time stamp; its exit code is lost in
\* the pipe through tee.
FinishCheck(f) ==
    /\ running[f] # NoFile
    /\ report' = [report EXCEPT ![f] = [reads |-> running[f], text |-> running[f][f].text]]
    /\ running' = [running EXCEPT ![f] = NoFile]
    /\ raced' = IF f \in racing THEN raced \cup {f} ELSE raced \ {f}
    /\ racing' = racing \ {f}
    /\ built' = built \cup {Chk(f)}
    /\ newer' = Written(Chk(f))
    /\ considered' = IF make = "build" THEN Considered(Chk(f)) ELSE considered
    /\ UNCHANGED <<workTree, depsFile, veridepend, verified, page, make, quiet, disturbances>>

\* summarize looks for assumptions in the source as it is now.
Summarize(f) ==
    IF report[f] = NoFile THEN Raises
    ELSE ExtractCondition(reportType, f \in TrustedFiles, report[f].text.report[reportType], src[f].text)

\* aggregate-verchk.py is given all prerequisites and uses the reports among them.
Summarized(f) == {Summarize(p[2]) : p \in {p \in Prereqs(Verified(f)) : p[1] = "chk"}}

Aggregate(f) ==
    /\ Build(Verified(f))
    /\ Raises \notin Summarized(f)
    /\ verified' = [verified EXCEPT ![f] = IF Worst(Summarized(f)).is_success THEN "success" ELSE "failure"]
    /\ UNCHANGED <<workTree, depsFile, veridepend, checks, page, make, quiet, disturbances>>

\* A recipe that fails stops make.  The redirection has created the target.
AggregateRaises(f) ==
    /\ MayConsider(Verified(f)) /\ OutOfDate(Verified(f))
    /\ Raises \in Summarized(f)
    /\ verified' = [verified EXCEPT ![f] = "empty"]
    /\ built' = built \cup {Verified(f)}
    /\ newer' = Written(Verified(f))
    /\ make' = "failed" /\ quiet' = FALSE
    /\ UNCHANGED <<workTree, depsFile, veridepend, checks, page, considered, disturbances>>

Stop ==
    /\ make = "failed"
    /\ \A f \in DfyFile : running[f] = NoFile
    /\ make' = "idle"
    /\ UNCHANGED <<workTree, depsFile, veridepend, checks, built, newer, verified, page, considered, quiet, disturbances>>

\* Interrupted checks leave only a temporary file behind, an interrupted
\* veridepend.py nothing.
Interrupt ==
    /\ make # "idle" /\ disturbances > 0
    /\ make' = "idle" /\ quiet' = FALSE
    /\ running' = [f \in DfyFile |-> NoFile] /\ racing' = {}
    /\ targetIrefs' = {} /\ output' = NoFile /\ unseen' = {}
    /\ disturbances' = disturbances - 1
    /\ UNCHANGED <<workTree, depsFile, report, raced, built, newer, verified, page, considered>>

(***************************************************************************)
(* dep-graph.py visits the files that are reachable now.                   *)
(***************************************************************************)
Shown == Reachable(Includes, Root)

CanShow == \A f \in Shown : Summarize(f) # Raises

BuildPage ==
    /\ MayConsider(Page) /\ OutOfDate(Page)
    /\ CanShow
    /\ page' = [f \in Shown |-> Summarize(f)]
    /\ built' = built \cup {Page} /\ newer' = Written(Page)
    /\ make' = "idle"
    /\ UNCHANGED <<workTree, depsFile, veridepend, checks, verified, considered, quiet, disturbances>>

PageRaises ==
    /\ MayConsider(Page) /\ OutOfDate(Page)
    /\ ~CanShow
    /\ make' = "idle" /\ quiet' = FALSE
    /\ UNCHANGED <<workTree, depsFile, veridepend, checks, built, newer, verified, page, considered, disturbances>>

PageUpToDate ==
    /\ MayConsider(Page) /\ ~OutOfDate(Page)
    /\ make' = "idle"
    /\ UNCHANGED <<workTree, depsFile, veridepend, checks, built, newer, verified, page, considered, quiet, disturbances>>

MakeStep ==
    \/ FindTargets \/ GatherDeps \/ WriteDepsFile \/ StartBuild
    \/ \E f \in Listed \ {Root} : TouchDummydep(f) \/ UpToDate(Dummydep(f))
    \/ \E f \in Listed : \/ StartCheck(f) \/ UpToDate(Chk(f))
                         \/ Aggregate(f) \/ AggregateRaises(f) \/ UpToDate(Verified(f))
    \/ BuildPage \/ PageRaises \/ PageUpToDate \/ Stop

BuildNext ==
    \/ \E f \in DfyFile : Edit(f) \/ FinishCheck(f)
    \/ StartMake \/ Interrupt
    \/ MakeStep

BuildSpec == BuildInit /\ [][BuildNext]_buildVars
----------------------------------------------------------------------------
BuildTypeOK ==
    /\ reportType \in {VERCHK, SYNCHK}
    /\ src \in [DfyFile -> FileStates]
    /\ \A f \in DfyFile : src[f].inc \subseteq Lower(f)
    /\ deps # NoFile => deps \in [DfyFile -> SUBSET DfyFile] /\ \A f \in DfyFile : deps[f] \subseteq Lower(f)
    /\ output # NoFile => output \in [DfyFile -> SUBSET DfyFile] /\ \A f \in DfyFile : output[f] \subseteq Lower(f)
    /\ described \subseteq DfyFile /\ targetIrefs \subseteq DfyFile
    /\ built \subseteq Target
    /\ \A q \in newer : q[2] \in Target /\ Related(q[1], q[2])
    /\ DOMAIN report = DfyFile /\ DOMAIN running = DfyFile
    /\ \A f \in DfyFile : /\ report[f] # NoFile => IsSnapshot(report[f].reads, f)
                          /\ running[f] # NoFile => IsSnapshot(running[f], f)
    /\ verified \in [DfyFile -> {"missing", "success", "failure", "empty"}]
    /\ page # NoFile => \A f \in DOMAIN page : page[f] \in Conditions
    /\ make \in {"idle", "deps", "found", "gathered", "build", "failed"}
    /\ considered \subseteq Target
    /\ racing \subseteq DfyFile /\ raced \subseteq DfyFile
    /\ unseen \subseteq DfyFile /\ missed \subseteq DfyFile
    /\ quiet \in BOOLEAN /\ disturbances \in Nat

AfterQuietMake == make = "idle" /\ quiet

\* build/deps is newer than an include line that it does not have.
IncludeMissed == missed \cap Shown # {}

(***************************************************************************)
(* Time stamps and the chain of .dummydep files suffice to find every file *)
(* whose report is out of date, however edits, changed include lines and   *)
(* interrupted or failed runs were interleaved before: after a run of make *)
(* without edits, a report is about the present sources of the file and of *)
(* all it includes.  There are two exceptions: a file that was itself      *)
(* edited while Dafny was checking it, and all files when an include line  *)
(* was edited while the veridepend.py that wrote build/deps was running,   *)
(* which is forgotten as soon as build/deps is made again.                 *)
(***************************************************************************)
StaleOnlyIfRaced ==
    AfterQuietMake =>
        \A f \in Shown : \/ report[f] # NoFile /\ report[f].reads = Sources(f)
                        \/ f \in raced
                        \/ IncludeMissed

(***************************************************************************)
(* What a text that is shown as a success is: checked without errors, and  *)
(* without assumptions unless the file is trusted.  It had no time outs,   *)
(* or so many that the last digit of their number is a zero: that is the   *)
(* one digit extractCondition reads.                                       *)
(***************************************************************************)
Sound(f) ==
    LET r == src[f].text.report[reportType]
    IN  /\ ~HasDisallowedAssumptions(f \in TrustedFiles, src[f].text)
        /\ r.summary = IF reportType = VERCHK THEN "finished" ELSE "none"
        /\ r.errors = 0
        /\ r.timeouts % 10 = 0

(***************************************************************************)
(* The status page after a quiet run shows all reachable files, and shows  *)
(* none as a success that is not (DafnyCondition.is_success), unless the   *)
(* file was edited during its own check or veridepend.py missed an include *)
(* line.                                                                   *)
(***************************************************************************)
PageShowsFailures ==
    AfterQuietMake /\ ~IncludeMissed =>
        /\ DOMAIN page = Shown
        /\ \A f \in Shown \ raced : page[f].is_success => Sound(f)

(***************************************************************************)
(* If the .verified files of all reachable files say success, the page is  *)
(* green.  (Not the other way round: make does not remake a .verified      *)
(* because an include was removed, so that a failure may outlive it.)      *)
(***************************************************************************)
AllVerifiedMeansAllGreen ==
    AfterQuietMake /\ ~IncludeMissed /\ (\A f \in Shown : verified[f] = "success")
        => \A f \in Shown : page[f].is_success

(***************************************************************************)
(* The page of a quiet run can be trusted up to those exceptions, and      *)
(* agrees with the .verified files; every state is well typed.             *)
(***************************************************************************)
PageTruthful == BuildTypeOK /\ PageShowsFailures /\ AllVerifiedMeansAllGreen
=============================================================================
