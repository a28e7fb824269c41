------------------------------ MODULE MC_Fleet ------------------------------
(***************************************************************************)
(* Instances of Fleet: the suites of the launch scripts with fewer values, *)
(* and workers files that match no machine, some, or one twice.            *)
(***************************************************************************)
EXTENDS Fleet

Var(label, values) == [label |-> label, values |-> [i \in DOMAIN values |-> <<values[i]>>]]

\* launch-btree.py: two suites that share the variables ops and seed.
Common == <<Var("ops", <<"2pows">>), Var("seed", <<"seed0">>)>>
Btree ==
    [label |-> <<"btree">>,
     parts |-> << <<Var("git_branch", <<"linear">>)>> \o Common, <<Var("git_branch", <<"master">>)>> \o Common>>]

\* launch-ycsb-benchmarks.py: one suite per system, some with a variable of their own.
Ycsb ==
    [label |-> <<"ycsb">>,
     parts |-> << <<Var("system", <<"rocks">>), Var("filters", <<"nofilters", "yesfilters">>)>>,
                  <<Var("system", <<"berkeley">>)>> >>]

\* verification-time-experiment.py: a plain suite, a label of two words.
VerificationTime ==
    [label |-> <<"veri_time">>,
     parts |-> << <<Var("source", <<"Bundle">>), Var("replica", <<"r0">>),
                    [label |-> "git_branch", values |-> << <<"dynamic", "frames">>, <<"linear">> >>] >> >>]

MCInstances == <<"b06", "b07">>
MCMachine == {"b06", "b07"}
\* No line that matches, one machine, each once, one machine twice.
MCWorkersFiles == {<<{}>>, <<{}, {"b07"}>>, <<{"b06"}, {"b07"}>>, <<{"b06", "b07"}, {"b06"}>>}

MCSuites == {Btree, Ycsb, VerificationTime}
=============================================================================
