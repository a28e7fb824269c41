--------------------------- MODULE MC_BuildStatus ---------------------------
(***************************************************************************)
(* Small instances of BuildStatus: three files, root 3.                    *)
(***************************************************************************)
EXTENDS BuildStatus

Finished(errors, timeouts) == [summary |-> "finished", errors |-> errors, timeouts |-> timeouts]
Line(kind) == [summary |-> kind, errors |-> 0, timeouts |-> 0]
Text(assumes, frames, verchk, synchk) ==
    [assumes |-> assumes, frames |-> frames, report |-> [verchk |-> verchk, synchk |-> synchk]]

Good      == Text(FALSE, FALSE, Finished(0, 0), Line("none"))
Bad       == Text(FALSE, FALSE, Finished(1, 0), Line("none"))
TimedOut  == Text(FALSE, FALSE, Finished(0, 1), Line("none"))
TenTimeouts == Text(FALSE, FALSE, Finished(0, 10), Line("none"))
Assuming  == Text(TRUE, FALSE, Finished(0, 0), Line("none"))
Framed    == Text(FALSE, TRUE, Finished(0, 0), Line("none"))
IllTyped  == Text(FALSE, FALSE, Line("type"), Line("type"))
Unparsed  == Text(FALSE, FALSE, Line("parse"), Line("parse"))
\* Dafny itself dies: no summary line.
Dies      == Text(FALSE, FALSE, Line("none"), Line("none"))

MCFile == {1, 2, 3}
GoodOrBad == {Good, Bad}
AllTexts == {Good, Bad, TimedOut, TenTimeouts, Assuming, Framed, IllTyped, Unparsed, Dies}
Chain == <<{}, {1}, {2}>>
Pair  == <<{}, {}, {1}>>

\* Two edits or interrupts of a tree that is fine at first, three where only
\* the root and one file are edited, and every combination of texts, left alone.
MCScenarios ==
    [reportType : {VERCHK}, inc : {Chain}, text : [MCFile -> {Good}], editable : {MCFile}, disturbances : {2}]
        \cup [reportType : {VERCHK}, inc : {Pair}, text : [MCFile -> {Good}], editable : {{1, 3}}, disturbances : {3}]
        \cup [reportType : {VERCHK, SYNCHK}, inc : {Chain}, text : [MCFile -> AllTexts], editable : {{}},
              disturbances : {0}]
=============================================================================
