------------------------------ MODULE Aggregate -----------------------------
(***************************************************************************)
(* tools/lib_aggregate.py: how a Dafny report and the source it is about   *)
(* become one of eight conditions, and tools/aggregate-verchk.py, which    *)
(* keeps the worst of several.                                             *)
(*                                                                         *)
(* A report is abstracted to what the regular expressions look for:        *)
(*   summary  "parse", "type", "finished", or "none" of these lines        *)
(*   errors, timeouts   the counts in a "finished" line                    *)
(* and a source text to                                                    *)
(*   assumes, frames    it has an assume, a modifies or reads clause       *)
(***************************************************************************)
EXTENDS Integers

SYNCHK == "synchk"
VERCHK == "verchk"

DafnyCondition(level, isSuccess, result) ==
    [level |-> level, is_success |-> isSuccess, result |-> result]

DafnyParseError        == DafnyCondition(0, FALSE, "parse error")
DafnyTypeError         == DafnyCondition(1, FALSE, "type error")
DafnyVerificationError == DafnyCondition(2, FALSE, "verification error")
DafnyAssumeError       == DafnyCondition(3, FALSE, "untrusted file contains assumptions")
DafnyTimeoutError      == DafnyCondition(4, FALSE, "verification timeout")
DafnyDynamicFrames     == DafnyCondition(5, TRUE, "dynamic frames")
DafnyVerified          == DafnyCondition(6, TRUE, "verified successfully")
DafnySyntaxOK          == DafnyCondition(7, TRUE, "syntax ok")

Conditions ==
    {DafnyParseError, DafnyTypeError, DafnyVerificationError, DafnyAssumeError,
     DafnyTimeoutError, DafnyDynamicFrames, DafnyVerified, DafnySyntaxOK}

\* The exception "build system error: couldn't summarize".
Raises == DafnyCondition(-1, FALSE, "build system error")

HasDisallowedAssumptions(trusted, text) == ~trusted /\ text.assumes
HasDynamicFrames(text) == text.frames

\* The pattern "error(.*(\d+) time out)?" is greedy: only the last digit of
\* the count is left for the group.
TimeoutCount(report) == report.timeouts % 10

FinishedCondition_AnyErrors(trusted, report, text) ==           \* Faulty variant: errors not looked at
    CASE HasDisallowedAssumptions(trusted, text) -> DafnyAssumeError
      [] OTHER -> DafnyVerified
FinishedCondition(trusted, report, text) ==
    CASE report.errors > 0 -> DafnyVerificationError
      [] report.errors = 0 /\ HasDisallowedAssumptions(trusted, text) -> DafnyAssumeError
      [] report.errors = 0 /\ ~HasDisallowedAssumptions(trusted, text) ->
            IF TimeoutCount(report) > 0 THEN DafnyTimeoutError ELSE DafnyVerified

SyntaxCondition(trusted, text) ==
    CASE HasDisallowedAssumptions(trusted, text) -> DafnyAssumeError
      [] ~HasDisallowedAssumptions(trusted, text) ->
            IF HasDynamicFrames(text) THEN DafnyDynamicFrames ELSE DafnySyntaxOK

ExtractCondition(reportType, trusted, report, text) ==
    CASE report.summary = "parse" -> DafnyParseError
      [] report.summary = "type" -> DafnyTypeError
      [] report.summary = "finished" -> FinishedCondition(trusted, report, text)
      [] report.summary = "none" /\ reportType = VERCHK -> Raises
      [] report.summary = "none" /\ reportType = SYNCHK -> SyntaxCondition(trusted, text)

\* min(summaries): conditions are compared by level.
Worst(conditions) == CHOOSE c \in conditions : \A d \in conditions : c.level <= d.level
=============================================================================
