------------------------------ MODULE TracePlot -----------------------------
(***************************************************************************)
(* Experiment output made into plots: tools/plot/parser.py reads the lines *)
(* into traces addressed by the operation count, and PlotHelper.py plots   *)
(* throughput as a difference over a window of operations.                 *)
(*                                                                         *)
(* A line is a progress report (phase, time and operation count within the *)
(* phase) or a measurement; all measurements are stored alike.  A value    *)
(* that was interpolated is a fraction [num, den].                         *)
(* DiscreteTrace, whose lookups take the next value instead of a point     *)
(* between two, is left out.                                               *)
(***************************************************************************)
EXTENDS Integers, Sequences, FiniteSets, Functions, FiniteSetsExt

CONSTANTS
    Phases,         \* names of the phases in the order in which they run: "run" for
                    \* every workload after the load
    Steps,          \* by how much time or operations advance between reports
    MaxReports,     \* bound: progress reports
    Values,         \* measured values
    Window,         \* operations in a window
    NoValue

ASSUME TraceConstants ==
    /\ Phases \in Seq(Range(Phases)) /\ NoValue \notin Range(Phases)
    /\ Values \subseteq Int /\ Steps \subseteq Nat
    /\ MaxReports \in Nat /\ Window \in Nat \ {0}

\* Three phases for Phases, for small instances.
ThreePhases == <<"load", "run", "run">>

VARIABLES
    stage,                      \* "parse", "plot" or "skipped"
    repPhase, repT, repOp,      \* the program measured: its phase, time and operations in it
    history,                    \* <<time, operations>> since the start, of every report
    merged,                     \* a phase came after another one of the same name
    cur_phase, cur_op, cur_t, phase_op_base, phase_t_base, phase_starts,
    operation, elapsed, measure,    \* traces: [data, keys], keys cached or <<>>
    measured                    \* ghost: the value that held at each reported operation count

program == <<repPhase, repT, repOp, history, merged>>
parser == <<cur_phase, cur_op, cur_t, phase_op_base, phase_t_base, phase_starts>>
traces == <<operation, elapsed, measure, measured>>
traceVars == <<stage, program, parser, traces>>

EmptyTrace == [data |-> <<>>, keys |-> <<>>]

TraceInit ==
    /\ stage = "parse"
    /\ repPhase = 1 /\ repT = 0 /\ repOp = 0 /\ history = <<>> /\ merged = FALSE
    /\ cur_phase = NoValue /\ cur_op = 0 /\ cur_t = 0
    /\ phase_op_base = 0 /\ phase_t_base = 0 /\ phase_starts = <<>>
    /\ operation = EmptyTrace /\ elapsed = EmptyTrace /\ measure = EmptyTrace
    /\ measured = <<>>

(***************************************************************************)
(* Traces: __setitem__, sortedKeys, idxAfter and __getitem__.              *)
(***************************************************************************)
Put(data, key, value) ==
    [k \in DOMAIN data \cup {key} |-> IF k = key THEN value ELSE data[k]]
Stored(trace, op, value) == [trace EXCEPT !.data = Put(@, op, value)]

\* list.sort: at i the key that i - 1 others are smaller than.
Sorted(keys) ==
    [i \in 1 .. Cardinality(keys) |-> CHOOSE k \in keys : Cardinality({j \in keys : j < k}) = i - 1]
SortedKeys(trace) == IF trace.keys # <<>> THEN trace.keys ELSE Sorted(DOMAIN trace.data)
Queried(trace) == [trace EXCEPT !.keys = SortedKeys(trace)]

\* bisect.bisect: how many keys are at most op.
\* Faulty variant: bisect_left of the next operation count.
Bisect_Next(keys, op) == Cardinality({i \in DOMAIN keys : keys[i] <= op + 1})
Bisect(keys, op) == Cardinality({i \in DOMAIN keys : keys[i] <= op})

Exact(v) == [num |-> v, den |-> 1]
Between(leftOp, rightOp, left, right, op) ==
    [num |-> left * (rightOp - leftOp) + (op - leftOp) * (right - left), den |-> rightOp - leftOp]

Lookup(trace, op) ==
    IF op \in DOMAIN trace.data THEN Exact(trace.data[op])
    ELSE LET keys == SortedKeys(trace)
             i == Bisect(keys, op)
         IN IF keys = <<>> \/ op < keys[1] \/ op > keys[Len(keys)] THEN NoValue
            ELSE IF i = 0 THEN Exact(trace.data[keys[1]])
            ELSE IF i >= Len(keys) THEN NoValue
            ELSE Between(keys[i], keys[i + 1], trace.data[keys[i]], trace.data[keys[i + 1]], op)

(***************************************************************************)
(* parse, line by line.                                                    *)
(***************************************************************************)
\* The program reports: in the same phase further on and not earlier, or in
\* a later phase, where both counts start again.
First(p) == p # repPhase \/ history = <<>>
Advances(p, dt, dop) == IF First(p) THEN dt > 0 ELSE dop > 0

Report(p, t, op) ==
    /\ repPhase' = p /\ repT' = t /\ repOp' = op
    /\ merged' = (merged \/ (history # <<>> /\ p # repPhase /\ Phases[p] = Phases[repPhase]))
    /\ LET before == IF history = <<>> THEN <<0, 0>> ELSE history[Len(history)]
           dt == IF p = repPhase THEN t - repT ELSE t
           dop == IF p = repPhase THEN op - repOp ELSE op
       IN history' = Append(history, <<before[1] + dt, before[2] + dop>>)

\* Faulty variant: the new phase counts its time from the start.
TimeBase_Zero(p) == 0
TimeBase(p) == IF cur_phase # p THEN cur_t ELSE phase_t_base
OpBase(p) == IF cur_phase # p THEN cur_op ELSE phase_op_base

\* process_elapsed: the time is stored under the operation count of the
\* report before.
ProcessElapsed(p, t, op) ==
    /\ cur_phase' = p
    /\ phase_op_base' = OpBase(p) /\ phase_t_base' = TimeBase(p)
    /\ phase_starts' = IF cur_phase # p THEN Put(phase_starts, p, cur_op) ELSE phase_starts
    /\ cur_t' = t + TimeBase(p)
    /\ elapsed' = Stored(elapsed, cur_op, t + TimeBase(p))
    /\ cur_op' = op + OpBase(p)
    /\ operation' = Stored(operation, op + OpBase(p), op + OpBase(p))
    /\ UNCHANGED measure

ReadProgress ==
    /\ stage = "parse" /\ Len(history) < MaxReports
    /\ \E p \in repPhase .. Len(Phases), dt, dop \in Steps :
          LET t == IF p = repPhase THEN repT + dt ELSE dt
              op == IF p = repPhase THEN repOp + dop ELSE dop
          IN Advances(p, dt, dop) /\ Report(p, t, op) /\ ProcessElapsed(Phases[p], t, op)
    /\ UNCHANGED <<stage, measured>>

MeasureKey == cur_op

ReadMeasurement ==
    /\ stage = "parse"
    /\ \E v \in Values :
          /\ measure' = Stored(measure, MeasureKey, v)
          /\ measured' = LET total == IF history = <<>> THEN 0 ELSE history[Len(history)][2]
                         IN Put(measured, total, v)
    /\ UNCHANGED <<stage, program, parser, operation, elapsed>>

\* max(self.sortedOpns) of nothing is a ValueError: the file is skipped.
FinishParse ==
    /\ stage = "parse"
    /\ stage' = IF DOMAIN operation.data = {} THEN "skipped" ELSE "plot"
    /\ UNCHANGED <<program, parser, traces>>

(***************************************************************************)
(* The plots ask for values in any order.                                  *)
(***************************************************************************)
MayQuery == stage = "plot"

Query ==
    /\ MayQuery
    /\ \/ elapsed' = Queried(elapsed) /\ UNCHANGED <<operation, measure>>
       \/ operation' = Queried(operation) /\ UNCHANGED <<elapsed, measure>>
       \/ measure' = Queried(measure) /\ UNCHANGED <<elapsed, operation>>
    /\ UNCHANGED <<stage, program, parser, measured>>

\* Faulty variant: the window is one operation shorter for one of the traces.
WindowStart_Later(opn) == opn - Window + 1
WindowStart(opn) == opn - Window

\* windowedPair(operation, elapsed): operations by time, NoValue where a trace
\* is not defined or no time passed.
Minus(a, b) == [num |-> a.num * b.den - b.num * a.den, den |-> a.den * b.den]

Throughput(opn) ==
    LET to == Lookup(operation, opn)
        from == Lookup(operation, opn - Window)
        tTo == Lookup(elapsed, opn)
        tFrom == Lookup(elapsed, WindowStart(opn))
    IN IF NoValue \in {to, from, tTo, tFrom} \/ Minus(tTo, tFrom).num = 0 THEN NoValue
       ELSE [ops |-> Minus(to, from), time |-> Minus(tTo, tFrom)]

TraceNext == ReadProgress \/ ReadMeasurement \/ FinishParse \/ Query

TraceSpec == TraceInit /\ [][TraceNext]_traceVars
----------------------------------------------------------------------------
(***************************************************************************)
(* A trace looked up between two of its operation counts gives the value   *)
(* on the line between the nearest ones; at one of its counts the value    *)
(* stored; outside of them none.  In particular the cached keys are never  *)
(* out of date, also when a report has overwritten an earlier one.         *)
(***************************************************************************)
Below(trace, op) == {k \in DOMAIN trace.data : k < op}
Above(trace, op) == {k \in DOMAIN trace.data : k > op}

LookupSound ==
    stage = "plot" => \A trace \in {operation, elapsed, measure}, opn \in DOMAIN operation.data :
        \A op \in opn - Window .. opn + 1 : Lookup(trace, op) =
            IF op \in DOMAIN trace.data THEN Exact(trace.data[op])
            ELSE IF Below(trace, op) = {} \/ Above(trace, op) = {} THEN NoValue
            ELSE LET l == Max(Below(trace, op))
                     r == Min(Above(trace, op))
                 IN Between(l, r, trace.data[l], trace.data[r], op)

(***************************************************************************)
(* Across phases, whose reports start from zero again, time never goes     *)
(* back as the operation count grows, although several reports may come at *)
(* one time or one count; so that throughput is never negative and never   *)
(* divided by zero.                                                        *)
(***************************************************************************)
TimeGrows ==
    /\ \A a, b \in DOMAIN elapsed.data : a < b => elapsed.data[a] <= elapsed.data[b]
    /\ stage = "plot" => \A op \in DOMAIN operation.data :
          LET rate == Throughput(op) IN rate # NoValue => rate.time.num > 0 /\ rate.ops.num > 0

(***************************************************************************)
(* A measurement is found under the operations completed since the start   *)
(* of the run, in every phase, and a phase starts where the one before     *)
(* ended.                                                                  *)
(***************************************************************************)
MeasuredAtTotal ==
    /\ measure.data = measured
    /\ \A i \in DOMAIN Phases : Phases[i] \in DOMAIN phase_starts =>
          phase_starts[Phases[i]] \in {0} \cup {history[j][2] : j \in DOMAIN history}

(***************************************************************************)
(* Phases, each of which counts from zero, are joined into one run, in     *)
(* their times and in the operation counts of what was measured, until a   *)
(* phase comes after one of the same name: parse tells phases apart by     *)
(* their names only, and then starts the counts of the first one again.    *)
(***************************************************************************)
PhasesJoined == ~merged => TimeGrows /\ MeasuredAtTotal

(***************************************************************************)
(* A program that works at a constant rate and reports at equal times is   *)
(* plotted at that rate, although a report is stored under the operation   *)
(* count of the one before; again until a phase comes after one of the     *)
(* same name, from where the plot is wrong.                                *)
(***************************************************************************)
Rate(i) == history[i][2] = history[i][1]
EvenReportsShown ==
    stage = "plot" /\ ~merged /\ (\A i \in DOMAIN history : Rate(i) /\ history[i][1] = i * history[1][1]) =>
        \A op \in DOMAIN operation.data :
            LET rate == Throughput(op) IN rate # NoValue => rate.ops.num * rate.time.den = rate.time.num * rate.ops.den
============================================================================
