------------------------------ MODULE LibDeps ------------------------------
(***************************************************************************)
(* tools/lib_deps.py and its two callers: which .dfy files a root reaches  *)
(* through its include lines, which includes are refused, and the order in *)
(* which veridepend.py emits the files.  A file is trusted (.s.dfy),       *)
(* untrusted (.i.dfy) or declares neither.                                 *)
(*                                                                         *)
(* One behaviour is one run of a tool over one source tree: veridepend     *)
(* explores from each root with a work list and then sorts, dep-graph      *)
(* visits recursively from a single root.                                  *)
(***************************************************************************)
EXTENDS Naturals, Sequences, FiniteSets

CONSTANTS
    File,           \* source files, identified by absolute path
    IncludeLists,   \* bound: the lists of include lines a file may have
    RootLists       \* bound: the lists of roots a tool may be given

ASSUME LibDepsConstants ==
    /\ IncludeLists \subseteq Seq(File)
    /\ RootLists \subseteq Seq(File)
    /\ \A r \in RootLists : Len(r) > 0

Suffix == {"s", "i", "undeclared"}
Tool == {"veridepend", "dep-graph"}
Errors == {"IncludeNotFound", "NameError", "IncompatibleIncludeTrustedness", "CircularDependency"}
NoError == "none"

VARIABLES
    \* The source tree and the command line; no step changes them.
    exists,         \* files that can be opened
    includes,       \* includes[f]: targets of f's include lines, in order
    suffix,         \* what f's name declares
    tool, roots,
    \* The run.
    pc,             \* "roots", "explore", "visit", "sort", "done" or "raised"
    root,           \* index of the root being explored
    needExplore,    \* work list: a stack for veridepend, pending calls of visit for dep-graph
    visited,        \* files explored from the current root
    irefs,          \* files found so far
    groups,         \* sorted groups emitted so far
    unsorted,       \* files still to be sorted
    error           \* exception that ended the run

tree == <<exists, includes, suffix, tool, roots>>
vars == <<tree, pc, root, needExplore, visited, irefs, groups, unsorted, error>>

Elems(s) == {s[k] : k \in DOMAIN s}

(***************************************************************************)
(* What one file's include lines lead to.                                  *)
(***************************************************************************)
IsTrusted(f) == suffix[f] = "s"
DeclaresTrustedness(f) == suffix[f] # "undeclared"
CompatiblePath_Any(origin, f) == TRUE                           \* Faulty variant: no test
CompatiblePath(origin, f) == IsTrusted(f) \/ ~IsTrusted(origin)

\* Whether childrenForIref accepts the include of g by f.
Accepts(f, g) == DeclaresTrustedness(g) /\ CompatiblePath(f, g)

\* childrenForIref(f) returns f's includes, or raises for the first one it refuses.
ChildrenOk(f) == f \in exists /\ \A k \in DOMAIN includes[f] : Accepts(f, includes[f][k])

\* The exception class UndeclaredTrustedness does not exist: raising it is a NameError.
Refusals(f) ==
    IF f \notin exists THEN {"IncludeNotFound"}
    ELSE {IF DeclaresTrustedness(includes[f][k]) THEN "IncompatibleIncludeTrustedness" ELSE "NameError" :
             k \in {k \in DOMAIN includes[f] : /\ ~Accepts(f, includes[f][k])
                                               /\ \A j \in 1 .. k - 1 : Accepts(f, includes[f][j])}}

(***************************************************************************)
(* depsFromDfySource and depsFromDfySources.                               *)
(***************************************************************************)
Init ==
    /\ exists \in SUBSET File
    /\ includes \in {inc \in [File -> IncludeLists] : \A f \in File \ exists : inc[f] = <<>>}
    /\ suffix \in [File -> Suffix]
    /\ tool \in Tool
    /\ roots \in {r \in RootLists : tool = "dep-graph" => Len(r) = 1}
    /\ pc = "roots"
    /\ root = 1
    /\ needExplore = <<>> /\ visited = {} /\ irefs = {}
    /\ groups = <<>> /\ unsorted = {}
    /\ error = NoError

StartRoot ==
    /\ pc = "roots" /\ root <= Len(roots)
    /\ pc' = IF tool = "veridepend" THEN "explore" ELSE "visit"
    /\ needExplore' = <<roots[root]>>
    /\ visited' = {}
    /\ irefs' = IF tool = "veridepend" THEN irefs \cup {roots[root]} ELSE irefs
    /\ UNCHANGED <<tree, root, groups, unsorted, error>>

Top == needExplore[Len(needExplore)]
Popped == SubSeq(needExplore, 1, Len(needExplore) - 1)
Extended_Replaced == includes[Top]                              \* Faulty variant: assigns instead of extending
Extended == Popped \o includes[Top]
AfterSkip_Kept == needExplore                                   \* Faulty variant: looks at the top without popping
AfterSkip == Popped
NextRoot == root + 1

SkipVisited ==
    /\ pc = "explore" /\ needExplore # <<>>
    /\ Top \in visited
    /\ needExplore' = AfterSkip
    /\ UNCHANGED <<tree, pc, root, visited, irefs, groups, unsorted, error>>

Explore ==
    /\ pc = "explore" /\ needExplore # <<>>
    /\ Top \notin visited /\ ChildrenOk(Top)
    /\ visited' = visited \cup {Top}
    /\ needExplore' = Extended
    /\ UNCHANGED <<tree, pc, root, irefs, groups, unsorted, error>>

\* The result leaves the root out; the caller has added it already.
FinishRoot ==
    /\ pc = "explore" /\ needExplore = <<>>
    /\ irefs' = irefs \cup (visited \ {roots[root]})
    /\ root' = NextRoot
    /\ pc' = "roots"
    /\ UNCHANGED <<tree, needExplore, visited, groups, unsorted, error>>

StartSort ==
    /\ pc = "roots" /\ root > Len(roots)
    /\ pc' = "sort"
    /\ unsorted' = irefs
    /\ UNCHANGED <<tree, root, needExplore, visited, irefs, groups, error>>

(***************************************************************************)
(* toposort.toposort, as toposortGroup uses it: a group is the files whose *)
(* other includes have all been emitted.                                   *)
(***************************************************************************)
Group_Includers == {f \in unsorted : \A g \in unsorted \ {f} : f \notin Elems(includes[g])}   \* Faulty variant: reversed
Group == {f \in unsorted : \A g \in Elems(includes[f]) \ {f} : g \notin unsorted}

SortGroup ==
    /\ pc = "sort" /\ Group # {}
    /\ groups' = Append(groups, Group)
    /\ unsorted' = unsorted \ Group
    /\ UNCHANGED <<tree, pc, root, needExplore, visited, irefs, error>>

FinishSort ==
    /\ pc = "sort" /\ unsorted = {}
    /\ pc' = "done"
    /\ UNCHANGED <<tree, root, needExplore, visited, irefs, groups, unsorted, error>>

RaiseCircular ==
    /\ pc = "sort" /\ Group = {} /\ unsorted # {}
    /\ pc' = "raised"
    /\ error' = "CircularDependency"
    /\ UNCHANGED <<tree, root, needExplore, visited, irefs, groups, unsorted>>

(***************************************************************************)
(* Traverser.visit of dep-graph.py.  The pending calls of the recursion,   *)
(* innermost first, are the list needExplore.                              *)
(***************************************************************************)
VisitAgain ==
    /\ pc = "visit" /\ needExplore # <<>>
    /\ Head(needExplore) \in visited
    /\ needExplore' = Tail(needExplore)
    /\ UNCHANGED <<tree, pc, root, visited, irefs, groups, unsorted, error>>

Visit ==
    /\ pc = "visit" /\ needExplore # <<>>
    /\ Head(needExplore) \notin visited /\ ChildrenOk(Head(needExplore))
    /\ visited' = visited \cup {Head(needExplore)}
    /\ needExplore' = includes[Head(needExplore)] \o Tail(needExplore)
    /\ UNCHANGED <<tree, pc, root, irefs, groups, unsorted, error>>

FinishVisit ==
    /\ pc = "visit" /\ needExplore = <<>>
    /\ irefs' = visited
    /\ pc' = "done"
    /\ UNCHANGED <<tree, root, needExplore, visited, groups, unsorted, error>>

\* Either traversal stops at the first exception of childrenForIref.
NextFile == IF pc = "explore" THEN Top ELSE Head(needExplore)

Raise ==
    /\ pc \in {"explore", "visit"} /\ needExplore # <<>>
    /\ NextFile \notin visited
    /\ \E e \in Refusals(NextFile) :
          /\ error' = e
          /\ pc' = "raised"
          /\ visited' = visited \cup {NextFile}
          /\ needExplore' = IF pc = "explore" THEN Popped ELSE Tail(needExplore)
    /\ UNCHANGED <<tree, root, irefs, groups, unsorted>>

Next ==
    \/ StartRoot \/ SkipVisited \/ Explore \/ FinishRoot \/ StartSort
    \/ SortGroup \/ FinishSort \/ RaiseCircular
    \/ VisitAgain \/ Visit \/ FinishVisit
    \/ Raise

\* The tools are sequential programs that are left to run.
Spec == Init /\ [][Next]_vars /\ WF_vars(Next)
----------------------------------------------------------------------------
TypeOK ==
    /\ exists \subseteq File
    /\ includes \in [File -> Seq(File)]
    /\ suffix \in [File -> Suffix]
    /\ tool \in Tool
    /\ roots \in Seq(File) /\ Len(roots) > 0
    /\ pc \in {"roots", "explore", "visit", "sort", "done", "raised"}
    /\ root \in 1 .. Len(roots) + 1
    /\ pc \in {"explore", "visit"} => root <= Len(roots)
    /\ needExplore \in Seq(File)
    /\ visited \subseteq File
    /\ irefs \subseteq File
    /\ groups \in Seq(SUBSET File)
    /\ unsorted \subseteq File
    /\ error \in Errors \cup {NoError}

\* A set of files is closed when it holds every include of its members.
Closed(S) == \A f \in S : Elems(includes[f]) \subseteq S

\* The files reachable from S: the smallest closed set around S.
Reach(S) == {f \in File : \A C \in SUBSET File : S \subseteq C /\ Closed(C) => f \in C}

(***************************************************************************)
(* Work lists compute reachability: when a run of veridepend reaches the   *)
(* sort, or dep-graph its end, the files it found are exactly those        *)
(* reachable from the roots: none is missed because a file was skipped as  *)
(* visited, none is included twice over or by accident.                    *)
(***************************************************************************)
FindsReachable ==
    pc \in {"sort", "done"} => irefs = Reach(Elems(roots))

(***************************************************************************)
(* The trusted computing base is closed: when a run ends without an        *)
(* exception, everything a trusted file rests on, at any depth, is         *)
(* trusted, although the code tests one include at a time and never tests  *)
(* the roots.                                                              *)
(***************************************************************************)
TrustedRestsOnTrusted ==
    pc \in {"sort", "done"} =>
        \A f \in irefs : IsTrusted(f) => \A g \in Reach({f}) : IsTrusted(g)

(***************************************************************************)
(* A run raises only for a fault in the tree it was given: a reachable     *)
(* file whose own includes are refused, or a cycle among the reachable     *)
(* files.                                                                  *)
(***************************************************************************)
ErrorsAreReal ==
    pc = "raised" =>
        LET found == Reach(Elems(roots))
        IN  IF error = "CircularDependency"
            THEN \E f \in found : \E g \in Elems(includes[f]) \ {f} : f \in Reach({g})
            ELSE \E f \in found : error \in Refusals(f)

(***************************************************************************)
(* toposortGroup lists a file after all the files it includes, and lists   *)
(* each found file in exactly one group.                                   *)
(***************************************************************************)
IncludesComeFirst ==
    /\ \A m \in DOMAIN groups : \A f \in groups[m] : \A g \in Elems(includes[f]) \ {f} :
          \E k \in 1 .. m - 1 : g \in groups[k]
    /\ \A k, m \in DOMAIN groups : k # m => groups[k] \cap groups[m] = {}
    /\ pc = "done" /\ tool = "veridepend" => UNION Elems(groups) = irefs

(***************************************************************************)
(* What a run leaves behind is right whichever way it ended: the sorted    *)
(* groups, or an exception with a cause in the tree.                       *)
(***************************************************************************)
RightOutcome == ErrorsAreReal /\ IncludesComeFirst

(***************************************************************************)
(* Every run ends, also on trees with include cycles.                      *)
(***************************************************************************)
Terminates == <>(pc \in {"done", "raised"})
============================================================================
