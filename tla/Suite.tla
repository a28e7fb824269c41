-------------------------------- MODULE Suite -------------------------------
(***************************************************************************)
(* The experiment suites of tools/aws/suite.py: the variants of a suite    *)
(* are the combinations of its variables' values, and a variant's label    *)
(* and output file are put together from the values that vary.             *)
(*                                                                         *)
(* A label is a sequence of words, those between the "-"; joining labels   *)
(* with "-" is concatenation.  A variable is [label, values], its values   *)
(* labels; a Suite is a sequence of variables; a ConcatSuite is a sequence *)
(* of those, and a plain Suite is one with a single element.               *)
(***************************************************************************)
EXTENDS Integers, Sequences, FiniteSets, SequencesExt

ValueOf(variable, j) == [variable |-> variable.label, label |-> variable.values[j]]

\* make_variants: the last variable varies fastest.
MakeVariants(variables) ==
    LET from[i \in 1 .. Len(variables)] ==
            LET values == variables[i].values IN
            IF i = Len(variables)
            THEN [j \in DOMAIN values |-> <<ValueOf(variables[i], j)>>]
            ELSE FlattenSeq([j \in DOMAIN values |->
                    [s \in DOMAIN from[i + 1] |-> <<ValueOf(variables[i], j)>> \o from[i + 1][s]]])
    IN from[1]

Variants(suite) == FlattenSeq([i \in DOMAIN suite.parts |-> MakeVariants(suite.parts[i])])

\* value_label_set_for_variable_label, of a Suite and of a ConcatSuite.
PartLabels(variables, name) ==
    UNION {Range(variables[i].values) : i \in {n \in DOMAIN variables : variables[n].label = name}}

\* Faulty variant: the labels of the first suite only.
ValueLabels_First(suite, name) == PartLabels(suite.parts[1], name)
ValueLabels(suite, name) == UNION {PartLabels(suite.parts[i], name) : i \in DOMAIN suite.parts}

MakeLabel(suite, variant) ==
    FlattenSeq([i \in DOMAIN variant |->
        IF Cardinality(ValueLabels(suite, variant[i].variable)) > 1 THEN variant[i].label ELSE <<>>])

Outfile(suite, variant) == suite.label \o MakeLabel(suite, variant)
Outfiles(suite) == [t \in DOMAIN Variants(suite) |-> Outfile(suite, Variants(suite)[t])]
----------------------------------------------------------------------------
(***************************************************************************)
(* What the labels of a suite must satisfy for its output files to be      *)
(* distinct.                                                               *)
(***************************************************************************)
Names(suite) ==
    UNION {{suite.parts[i][n].label : n \in DOMAIN suite.parts[i]} : i \in DOMAIN suite.parts}

\* One word a label, no word in two variables, no value twice in a variable.
PlainLabels(suite) ==
    /\ \A i \in DOMAIN suite.parts : \A n \in DOMAIN suite.parts[i] :
          /\ IsInjective(suite.parts[i][n].values)
          /\ \A j \in DOMAIN suite.parts[i][n].values : Len(suite.parts[i][n].values[j]) = 1
    /\ \A v, w \in Names(suite) : v # w => ValueLabels(suite, v) \cap ValueLabels(suite, w) = {}

\* Every two suites of a ConcatSuite differ in a variable both have.
PartsTellApart(suite) ==
    \A i, j \in DOMAIN suite.parts : i # j =>
        \E v \in Names(suite) :
            /\ PartLabels(suite.parts[i], v) # {} /\ PartLabels(suite.parts[j], v) # {}
            /\ PartLabels(suite.parts[i], v) \cap PartLabels(suite.parts[j], v) = {}

WellLabelled(suite) == PlainLabels(suite) /\ PartsTellApart(suite)
============================================================================
