----------------------------- MODULE MC_LibDeps -----------------------------
(***************************************************************************)
(* All source trees of three files with up to two different include lines, *)
(* in any order: chains, diamonds, self-includes, cycles, missing files.   *)
(***************************************************************************)
EXTENDS LibDeps

CONSTANTS f1, f2, f3

MCFile == {f1, f2, f3}
MCIncludeLists ==
    {<<>>, <<f1>>, <<f2>>, <<f3>>, <<f1, f2>>, <<f2, f3>>, <<f3, f2>>, <<f1, f3>>, <<f3, f1>>, <<f2, f1>>}
MCRootLists == {<<f1>>, <<f1, f2>>}
=============================================================================
