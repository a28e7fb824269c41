-------------------------- MODULE MC_ExperimentRun --------------------------
(***************************************************************************)
(* Calls of the experiment script: ones that go through, with constants,   *)
(* an archive or options, and ones that lack or misuse an argument.        *)
(***************************************************************************)
EXTENDS ExperimentRun

Usual == {"ram", "git_branch", "workload", "device", "output"}
Call(args, branch, out, updates) == [args |-> args, branch |-> branch, out |-> out, updates |-> updates]
Cache == [c \in {"MaxCacheSizeUint64", "MaxTotalBucketWeightUint64"} |-> "small"]
Misspelt == [c \in {"MaxCacheUint64"} |-> "small"]

MCConstant == {"MaxCacheSizeUint64", "MaxTotalBucketWeightUint64"}

MCCalls ==
    {Call(Usual \cup {"veri", "cacheSizeInNodes"}, "master", "a", Cache),
     Call(Usual \cup {"veri", "veriUseODirect"}, "master", "b", <<>>),
     Call(Usual \cup {"veri"}, "linear", "b", <<>>),
     Call(Usual \cup {"rocks", "use_filters", "fromArchive"}, "master", "c", <<>>),
     Call(Usual \cup {"rocks"}, "master", "d", Cache),
     Call(Usual \cup {"veri"}, "master", "d", Misspelt),
     Call(Usual \cup {"veri", "unknown"}, "master", "c", <<>>),
     Call((Usual \ {"ram"}) \cup {"veri"}, "master", "d", <<>>),
     Call(Usual \cup {"rocks", "bucketWeight"}, "master", "a", <<>>)}

=============================================================================
