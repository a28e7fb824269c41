----------------------------- MODULE LineCounts -----------------------------
(***************************************************************************)
(* The line counts of tools/line_counter.py: one counting process per file *)
(* (line_count_lib.py), which make runs in parallel and runs again after a *)
(* failure, and the report that adds the counts up by component            *)
(* (line_counter_report_lib.py).                                           *)
(*                                                                         *)
(* A printed file is so many lines of code that is compiled, of ghost      *)
(* code, and of noise that clean_dafny_output strips.                      *)
(***************************************************************************)
EXTENDS Integers, Sequences, FiniteSets, FiniteSetsExt

CONSTANTS
    SourceFile,
    Trusted,        \* files named .s.dfy
    Texts,          \* what the files may hold: functions from files to lines
                    \* that are real, ghost, noise and the time of the check
    Dir,            \* the temporary directories random.randint can name
    Row,            \* counter keys with a row in row_descriptors
    ImplMap,        \* rows whose impl lines are billed to another row
    Classifications,\* what file-classifications.txt may say: functions
                    \* from files to sets of keys
    Ignored,        \* keys that ignore_key drops
    MaxAttempts,    \* bound: how often make is called again
    NoTime          \* the report had no "user" line

ASSUME LineCountConstants ==
    /\ IsFiniteSet(SourceFile) /\ Trusted \subseteq SourceFile
    /\ IsFiniteSet(Row) /\ Row \cap {"total", "unmapped"} = {} /\ NoTime \notin Nat
    /\ DOMAIN ImplMap \subseteq Row
    /\ \A r \in DOMAIN ImplMap : ImplMap[r] \in Row \ {r}
    /\ MaxAttempts \in Nat \ {0}
    /\ \A t \in Texts : \A f \in SourceFile :
          /\ t[f].real \in Nat /\ t[f].ghost \in Nat /\ t[f].noise \in Nat
          /\ t[f].time \in Nat \cup {NoTime}

Fields == {"spec", "impl", "proof"}
Idle == "idle"

VARIABLES
    text, classes,  \* the files and file-classifications.txt, never changed
    step,           \* step[f]: where the count of f is
    pass,           \* pass[f]: "ghost" or "real", the print under way
    dir,            \* dir[f]: its temporary directory
    tmp,            \* tmp[d]: printed files in d
    dataDirs,       \* directories that have a sloccount data directory
    ghostSloc,      \* ghostSloc[f]: result of the first pass
    lc,             \* lc[f]: content of the .lc file, once step[f] is "done"
    attempts, failed,   \* calls of make; whether one failed
    rpc,            \* the report: "waiting", "accumulate", "highlights", "done" or "raised"
    order, position,    \* reports in the order of gatherReports; the next one
    counters,       \* counters[key]
    reportError

input == <<text, classes>>
counting == <<input, step, pass, dir, tmp, dataDirs, ghostSloc, lc, attempts, failed>>
reporting == <<rpc, order, position, counters, reportError>>
countVars == <<counting, reporting>>

EmptyCounter == [spec |-> 0, impl |-> 0, proof |-> 0, time |-> 0, has |-> "nothing"]

Count(spec, impl, proof, time) == [spec |-> spec, impl |-> impl, proof |-> proof, time |-> time]

CountInit ==
    /\ text \in Texts /\ classes \in Classifications
    /\ step = [f \in SourceFile |-> "tmp_dir"]
    /\ pass = [f \in SourceFile |-> "ghost"]
    /\ dir = [f \in SourceFile |-> Idle]
    /\ tmp = [d \in Dir |-> {}]
    /\ dataDirs = {}
    /\ ghostSloc = [f \in SourceFile |-> 0]
    /\ lc = [f \in SourceFile |-> Count(0, 0, 0, NoTime)]
    /\ attempts = 1 /\ failed = FALSE
    /\ rpc = "waiting" /\ order = <<>> /\ position = 1
    /\ counters = [r \in Row \cup {"total", "unmapped"} |-> EmptyCounter]
    /\ reportError = "none"

(***************************************************************************)
(* compute_sloc, once with ghost code and once without.                    *)
(***************************************************************************)
MakeTmpDir(f) ==
    /\ step[f] = "tmp_dir"
    /\ \E d \in Dir : dir' = [dir EXCEPT ![f] = d]
    /\ step' = [step EXCEPT ![f] = "run_dafny"]
    /\ UNCHANGED <<input, pass, tmp, dataDirs, ghostSloc, lc, attempts, failed, reporting>>

Printed(f) ==
    [file |-> f, pass |-> pass[f],
     code |-> text[f].real + IF pass[f] = "ghost" THEN text[f].ghost ELSE 0,
     noise |-> text[f].noise]

RunDafny(f) ==
    /\ step[f] = "run_dafny"
    /\ tmp' = [tmp EXCEPT ![dir[f]] = {t \in @ : t.file # f \/ t.pass # pass[f]} \cup {Printed(f)}]
    /\ step' = [step EXCEPT ![f] = "clean"]
    /\ UNCHANGED <<input, pass, dir, dataDirs, ghostSloc, lc, attempts, failed, reporting>>

\* remove_warnings, remove_paired_comments, remove_cruft, remove_whitespace.
CleanDafnyOutput(f) ==
    /\ step[f] = "clean"
    /\ tmp' = [tmp EXCEPT ![dir[f]] = {IF t.file = f /\ t.pass = pass[f] THEN [t EXCEPT !.noise = 0] ELSE t : t \in @}]
    /\ step' = [step EXCEPT ![f] = "sloccount"]
    /\ UNCHANGED <<input, pass, dir, dataDirs, ghostSloc, lc, attempts, failed, reporting>>

\* os.makedirs(data_dir) raises if the directory is there.
DataDirFree_ExistOk(f) == TRUE                                  \* Faulty variant: exist_ok
DataDirFree(f) == dir[f] \notin dataDirs

\* The count is taken from the last line of the output, which has one line
\* for every printed file in the directory.
SlocCounts(f) == {t.code + t.noise : t \in tmp[dir[f]]}

FirstPass(f, sloc) ==
    /\ pass[f] = "ghost" /\ f \notin Trusted
    /\ ghostSloc' = [ghostSloc EXCEPT ![f] = sloc]
    /\ pass' = [pass EXCEPT ![f] = "real"]
    /\ step' = [step EXCEPT ![f] = "tmp_dir"]
    /\ UNCHANGED lc

LastPass(f, sloc) ==
    /\ pass[f] = "real" \/ f \in Trusted
    /\ lc' = [lc EXCEPT ![f] = IF f \in Trusted THEN Count(sloc, 0, 0, text[f].time)
                               ELSE Count(0, sloc, ghostSloc[f] - sloc, text[f].time)]
    /\ step' = [step EXCEPT ![f] = "done"]
    /\ UNCHANGED <<pass, ghostSloc>>

RunSloccount(f) ==
    /\ step[f] = "sloccount" /\ DataDirFree(f)
    /\ dataDirs' = dataDirs \cup {dir[f]}
    /\ \E sloc \in SlocCounts(f) : FirstPass(f, sloc) \/ LastPass(f, sloc)
    /\ UNCHANGED <<input, dir, tmp, attempts, failed, reporting>>

SloccountRaises(f) ==
    /\ step[f] = "sloccount" /\ ~DataDirFree(f)
    /\ step' = [step EXCEPT ![f] = "raised"]
    /\ failed' = TRUE
    /\ UNCHANGED <<input, pass, dir, tmp, dataDirs, ghostSloc, lc, attempts, reporting>>

\* Files with an .lc are up to date; the others are counted from the start.
MakeAgain ==
    /\ attempts < MaxAttempts
    /\ \E f \in SourceFile : step[f] = "raised"
    /\ \A f \in SourceFile : step[f] \in {"done", "raised"}
    /\ attempts' = attempts + 1
    /\ step' = [f \in SourceFile |-> IF step[f] = "done" THEN "done" ELSE "tmp_dir"]
    /\ pass' = [f \in SourceFile |-> IF step[f] = "done" THEN pass[f] ELSE "ghost"]
    /\ UNCHANGED <<input, dir, tmp, dataDirs, ghostSloc, lc, failed, reporting>>

(***************************************************************************)
(* accumulate: one report after the other, in the order of the traversal.  *)
(***************************************************************************)
Orders == {s \in [1 .. Cardinality(SourceFile) -> SourceFile] : \A a, b \in DOMAIN s : a # b => s[a] # s[b]}

StartReport ==
    /\ rpc = "waiting"
    /\ \A f \in SourceFile : step[f] = "done"
    /\ order' \in Orders
    /\ rpc' = "accumulate"
    /\ UNCHANGED <<counting, position, counters, reportError>>

Keys(f) == (IF classes[f] = {} THEN {"unmapped"} ELSE classes[f]) \ Ignored

\* collections.Counter.update: an empty counter takes the values over, a
\* non-empty one adds them, and a string or None cannot be added to a number.
CanAdd(c, r) ==
    \/ c.has = "nothing"
    \/ c.has = "report" /\ c.time # NoTime /\ r.time # NoTime

Added(c, r) ==
    [spec |-> c.spec + r.spec, impl |-> c.impl + r.impl, proof |-> c.proof + r.proof,
     time |-> IF c.has = "nothing" THEN r.time ELSE c.time + r.time, has |-> "report"]

MovesImpl(key) == key \in DOMAIN ImplMap
Rest_KeepsImpl(r) == r                                          \* Faulty variant: billed twice
Rest(r) == [r EXCEPT !.impl = 0]

\* The impl lines of r alone.
AddedImpl(c, r) ==
    [c EXCEPT !.impl = @ + r.impl, !.has = IF @ = "nothing" THEN "impl" ELSE @]

RowsUpdated(key, r) ==
    IF MovesImpl(key)
    THEN [counters EXCEPT ![key] = Added(@, Rest(r)), ![ImplMap[key]] = AddedImpl(@, r),
                          !["total"] = Added(@, r)]
    ELSE [counters EXCEPT ![key] = Added(@, r), !["total"] = Added(@, r)]

ReportRaises(e) ==
    /\ rpc' = "raised" /\ reportError' = e
    /\ UNCHANGED <<counting, order, position, counters>>

More == rpc = "accumulate" /\ position <= Len(order)

SkipIgnored ==
    /\ More /\ Keys(order[position]) = {}
    /\ position' = position + 1
    /\ UNCHANGED <<counting, rpc, order, counters, reportError>>

Accumulate ==
    /\ More
    /\ \E key \in Row : /\ Keys(order[position]) = {key}
                        /\ CanAdd(counters[key], lc[order[position]])
                        /\ CanAdd(counters["total"], lc[order[position]])
                        /\ counters' = RowsUpdated(key, lc[order[position]])
    /\ position' = position + 1
    /\ UNCHANGED <<counting, rpc, order, reportError>>

\* A file with two keys, or with a key that has no row.
AssertFails ==
    /\ More
    /\ \/ Cardinality(Keys(order[position])) > 1
       \/ \E key \in Keys(order[position]) \ Row : /\ Keys(order[position]) = {key}
                                            /\ CanAdd(counters["total"], lc[order[position]])
    /\ ReportRaises("AssertionError")

AddFails ==
    /\ More
    /\ \E key \in Row \cup {"unmapped"} :
          /\ Keys(order[position]) = {key}
          /\ ~(CanAdd(counters[key], lc[order[position]]) /\ CanAdd(counters["total"], lc[order[position]]))
    /\ ReportRaises("TypeError")

FinishAccumulate ==
    /\ rpc = "accumulate" /\ position > Len(order)
    /\ rpc' = "highlights"
    /\ UNCHANGED <<counting, order, position, counters, reportError>>

\* highlights compares the time of every report, also of ignored ones, with a minute.
Highlights ==
    /\ rpc = "highlights"
    /\ IF \A f \in SourceFile : lc[f].time # NoTime
       THEN rpc' = "done" /\ reportError' = reportError
       ELSE rpc' = "raised" /\ reportError' = "TypeError"
    /\ UNCHANGED <<counting, order, position, counters>>

CountNext ==
    \/ \E f \in SourceFile : \/ MakeTmpDir(f) \/ RunDafny(f) \/ CleanDafnyOutput(f)
                       \/ RunSloccount(f) \/ SloccountRaises(f)
    \/ MakeAgain \/ StartReport
    \/ SkipIgnored \/ Accumulate \/ AssertFails \/ AddFails \/ FinishAccumulate
    \/ Highlights

CountSpec == CountInit /\ [][CountNext]_countVars

\* The count that is taken without a collision.
RightCount(f) ==
    IF f \in Trusted THEN Count(text[f].real + text[f].ghost, 0, 0, text[f].time)
    ELSE Count(0, text[f].real, text[f].ghost, text[f].time)
----------------------------------------------------------------------------
CountTypeOK ==
    /\ step \in [SourceFile -> {"tmp_dir", "run_dafny", "clean", "sloccount", "done", "raised"}]
    /\ \A f \in SourceFile : step[f] \in {"run_dafny", "clean", "sloccount"} => dir[f] \in Dir
    /\ \A f \in SourceFile : step[f] = "done" => lc[f].spec \in Nat /\ lc[f].impl \in Nat
    /\ dataDirs \subseteq Dir /\ attempts \in 1 .. MaxAttempts
    /\ rpc \in {"waiting", "accumulate", "highlights", "done", "raised"}
    /\ reportError \in {"none", "AssertionError", "TypeError"} /\ (rpc = "raised" <=> reportError # "none")

(***************************************************************************)
(* Two counts that draw the same random directory mix their files.  When   *)
(* the first call of make counts every file, all counts are right: a       *)
(* collision always fails that call, because the data directory of         *)
(* sloccount can be made only once.                                        *)
(***************************************************************************)
WrongCountMeansFailure ==
    (\A f \in SourceFile : step[f] = "done") => failed \/ \A f \in SourceFile : lc[f] = RightCount(f)

(***************************************************************************)
(* The rows of the finished table add up to its total line, field by       *)
(* field, although impl lines move between rows, and the total is the sum  *)
(* over the files that are not ignored.                                    *)
(***************************************************************************)
SumOfRows(field) == MapThenSumSet(LAMBDA r : counters[r][field], Row)
SumOfFiles(field) == MapThenSumSet(LAMBDA f : lc[f][field], {f \in SourceFile : Keys(f) # {}})

TableAddsUp ==
    rpc = "done" =>
        \A field \in Fields :
            /\ counters["total"][field] = SumOfRows(field)
            /\ counters["total"][field] = SumOfFiles(field)

(***************************************************************************)
(* The report fails for one of four reasons only: a file without a row or  *)
(* with two keys, a file without a time, or a row that was billed another  *)
(* row's impl lines before its own first file came up in the traversal.    *)
(***************************************************************************)
BilledTooEarly ==
    \E a, b \in DOMAIN order : \E key \in Row, from \in DOMAIN ImplMap :
        /\ a < b /\ Keys(order[b]) = {key}
        /\ Keys(order[a]) = {from} /\ ImplMap[from] = key
        /\ \A c \in 1 .. b - 1 : Keys(order[c]) # {key}

FailuresExplained ==
    /\ reportError = "AssertionError" => \E f \in SourceFile : Cardinality(Keys(f)) > 1 \/ ~(Keys(f) \subseteq Row)
    /\ reportError = "TypeError" => BilledTooEarly \/ \E f \in SourceFile : text[f].time = NoTime

(***************************************************************************)
(* The report over any counts: a table that adds up, or a failure with one *)
(* of the listed reasons; every state is well typed.                       *)
(***************************************************************************)
ReportRight == CountTypeOK /\ TableAddsUp /\ FailuresExplained
============================================================================
