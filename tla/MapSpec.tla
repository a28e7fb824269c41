------------------------------ MODULE MapSpec ------------------------------
(***************************************************************************)
(* The dictionary every layer of the store is compared with, and the user  *)
(* interface operations ("uiops") that label the transitions of all the    *)
(* state machines.                                                         *)
(*                                                                         *)
(* Keys are byte strings compared lexicographically in the code; all that  *)
(* matters here is that they are totally ordered, so a key is an integer.  *)
(***************************************************************************)
EXTENDS Integers

CONSTANTS
    Key,        \* the keys, a set of integers
    Value,      \* the values a key can map to
    EmptyValue, \* the value that stands for "not in the dictionary"
    Ranges,     \* the <<start, end>> pairs a successor query may ask for
    SyncId      \* identifiers of sync requests

ASSUME KeyAssumption == Key \subseteq Int
ASSUME EmptyValueAssumption == EmptyValue \in Value

\* MapSpec.Variables: a complete map (ViewComplete).
State == [Key -> Value]

EmptyMap == [k \in Key |-> EmptyValue]

(***************************************************************************)
(* UI.Op.  RangeStart is <<"SInclusive", k>>, <<"SExclusive", k>> or       *)
(* <<"NegativeInf">>; RangeEnd likewise.                                   *)
(***************************************************************************)
NoOp == [type |-> "NoOp"]
CrashOp == [type |-> "CrashOp"]
PushSyncOp(id) == [type |-> "PushSyncOp", id |-> id]
PopSyncOp(id) == [type |-> "PopSyncOp", id |-> id]
GetOp(k, v) == [type |-> "GetOp", key |-> k, value |-> v]
PutOp(k, v) == [type |-> "PutOp", key |-> k, value |-> v]
SuccOp(start, results, end) ==
    [type |-> "SuccOp", start |-> start, results |-> results, end |-> end]

LowerBound(start, k) ==
    /\ start[1] = "SInclusive" => start[2] <= k
    /\ start[1] = "SExclusive" => start[2] < k

UpperBound(k, end) ==
    /\ end[1] = "EInclusive" => k <= end[2]
    /\ end[1] = "EExclusive" => k < end[2]

InRange(start, k, end) == LowerBound(start, k) /\ UpperBound(k, end)

NonEmptyRange(start, end) ==
    \/ start[1] = "NegativeInf"
    \/ end[1] = "PositiveInf"
    \/ start[1] = "SInclusive" /\ end[1] = "EInclusive" /\ start[2] <= end[2]
    \/ start[2] < end[2]

(***************************************************************************)
(* The results of a successor query on dictionary s: every key of the      *)
(* range that is present, with its value.  MapSpec.Succ demands a list     *)
(* sorted by key without repetitions, so the list is determined by this    *)
(* function.                                                               *)
(***************************************************************************)
SuccResults(s, start, end) ==
    [k \in {i \in Key : InRange(start, i, end) /\ s[i] # EmptyValue} |-> s[k]]

(***************************************************************************)
(* The transitions of the dictionary: the operations that are possible in  *)
(* state s, with the results they return, and the state each leads to.     *)
(***************************************************************************)
Query(s) == {GetOp(k, s[k]) : k \in Key}

Succ(s) == {SuccOp(r[1], SuccResults(s, r[1], r[2]), r[2]) :
              r \in {q \in Ranges : NonEmptyRange(q[1], q[2])}}

Write == {PutOp(k, v) : k \in Key, v \in Value}

MapOps(s) == Query(s) \cup Succ(s) \cup Write \cup {NoOp}

MapStep(s, op) ==
    IF op.type = "PutOp" THEN [s EXCEPT ![op.key] = op.value] ELSE s

\* MapSpec.Next
MapNext(s, t, op) == op \in MapOps(s) /\ t = MapStep(s, op)
=============================================================================
