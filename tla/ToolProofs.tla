------------------------------ MODULE ToolProofs ----------------------------
(***************************************************************************)
(* Proofs about the tools: the include graph of lib_deps.py and its        *)
(* callers, the line counter, the experiment script, the launchers of the  *)
(* AWS fleet and the traces behind the plots.  Every theorem holds for all *)
(* values of the constants.                                                *)
(*                                                                         *)
(* The dependency tools find exactly the reachable files, emit a file      *)
(* after its includes and raise only for a cause in the tree.  Wrong line  *)
(* counts end in a failure, and a report that is printed adds up.  An      *)
(* experiment measures what was asked for and leaves the others alone.  A  *)
(* launcher loses no line of a log, puts two jobs on one machine only when *)
(* told to, says "All jobs complete." only when they are, and keeps the    *)
(* results apart.  A trace is looked up where it was measured, across      *)
(* phases that count from zero again.                                      *)
(***************************************************************************)
EXTENDS LibDeps, ExperimentRun, LineCounts, Fleet, TracePlot, TLAPS, FiniteSetTheorems, WellFoundedInduction
----------------------------------------------------------------------------
(* The include graph *)

\* The files that the roots lead to.
Wanted == Reach(Elems(roots))

\* What is left to explore accounts for everything the visited files include.
WorkListInv ==
    pc \in {"explore", "visit"} =>
        /\ roots[root] \in visited \cup Elems(needExplore)
        /\ \A f \in visited : /\ ChildrenOk(f)
                              /\ Elems(includes[f]) \subseteq visited \cup Elems(needExplore)
        /\ visited \cup Elems(needExplore) \subseteq Wanted

\* The files found so far are explored, except the root under way.
FoundInv ==
    pc # "raised" =>
        /\ irefs \subseteq Wanted
        /\ \A f \in irefs : \/ pc = "explore" /\ f = roots[root]
                            \/ ChildrenOk(f) /\ Elems(includes[f]) \subseteq irefs

\* Which roots have been taken up.
RootsInv ==
    /\ tool = "dep-graph" => Len(roots) = 1 /\ root = 1
    /\ pc = "explore" => tool = "veridepend" /\ roots[root] \in irefs
    /\ pc = "visit" => tool = "dep-graph"
    /\ pc # "raised" /\ tool = "veridepend" => \A k \in 1 .. root - 1 : roots[k] \in irefs
    /\ pc \in {"sort", "done"} => Elems(roots) \subseteq irefs

\* What exploring the include graph preserves.
IInv == TypeOK /\ WorkListInv /\ FoundInv /\ RootsInv
----------------------------------------------------------------------------
\* The elements of a list are where the list says.
LEMMA ElemsType ==
    ASSUME NEW S, NEW s \in Seq(S)
    PROVE  Elems(s) \subseteq S
BY DEF Elems

\* A concatenation has the elements of both lists.
LEMMA ElemsConcat ==
    ASSUME NEW S, NEW s \in Seq(S), NEW t \in Seq(S)
    PROVE  /\ s \o t \in Seq(S)
           /\ Elems(s \o t) = Elems(s) \cup Elems(t)
<1>1. s \o t \in Seq(S) /\ Len(s \o t) = Len(s) + Len(t)
  OBVIOUS
<1>2. \A k \in 1 .. Len(s) : (s \o t)[k] = s[k]
  OBVIOUS
<1>3. \A k \in 1 .. Len(t) : (s \o t)[Len(s) + k] = t[k]
  OBVIOUS
<1>4. Elems(s \o t) \subseteq Elems(s) \cup Elems(t)
  <2> SUFFICES ASSUME NEW k \in 1 .. Len(s) + Len(t)
               PROVE  (s \o t)[k] \in Elems(s) \cup Elems(t)
    BY <1>1 DEF Elems
  <2>1. CASE k <= Len(s)
    BY <2>1, <1>2 DEF Elems
  <2>2. CASE k > Len(s)
    <3>1. k - Len(s) \in 1 .. Len(t) /\ k = Len(s) + (k - Len(s))
      BY <2>2
    <3>2. (s \o t)[k] = t[k - Len(s)]
      BY <3>1, <1>3
    <3> QED BY <3>1, <3>2 DEF Elems
  <2> QED BY <2>1, <2>2
<1>5. Elems(s) \subseteq Elems(s \o t)
  BY <1>1, <1>2 DEF Elems
<1>6. Elems(t) \subseteq Elems(s \o t)
  <2> SUFFICES ASSUME NEW k \in 1 .. Len(t) PROVE t[k] \in Elems(s \o t)
    BY SMTT(30) DEF Elems
  <2>1. Len(s) + k \in 1 .. Len(s \o t)
    BY <1>1
  <2> QED BY <2>1, <1>1, <1>3 DEF Elems
<1> QED BY <1>1, <1>4, <1>5, <1>6

\* A proper prefix of a list.
LEMMA PrefixProperties ==
    ASSUME NEW S, NEW s \in Seq(S), NEW n \in Nat, n < Len(s)
    PROVE  /\ SubSeq(s, 1, n) \in Seq(S)
           /\ Len(SubSeq(s, 1, n)) = n
           /\ \A k \in 1 .. n : SubSeq(s, 1, n)[k] = s[k]
OBVIOUS

\* Popping the last element of a work list loses that element only.
LEMMA ElemsPop ==
    ASSUME NEW S, NEW s \in Seq(S), s # <<>>
    PROVE  /\ SubSeq(s, 1, Len(s) - 1) \in Seq(S)
           /\ s[Len(s)] \in S
           /\ Elems(s) = Elems(SubSeq(s, 1, Len(s) - 1)) \cup {s[Len(s)]}
<1> DEFINE n == Len(s) - 1
           p == SubSeq(s, 1, n)
<1>1. Len(s) \in Nat \ {0} /\ n \in Nat /\ n < Len(s) /\ s[Len(s)] \in S
  OBVIOUS
<1>2. p \in Seq(S) /\ Len(p) = n /\ \A k \in 1 .. n : p[k] = s[k]
  BY <1>1, PrefixProperties
<1>3. DOMAIN s = (1 .. n) \cup {Len(s)} /\ DOMAIN p = 1 .. n
  <2>1. 1 .. Len(s) = (1 .. n) \cup {Len(s)}
    BY <1>1
  <2>2. DOMAIN s = 1 .. Len(s)
    OBVIOUS
  <2>3. DOMAIN p = 1 .. Len(p)
    <3> HIDE DEF p
    <3> QED BY <1>2
  <2> QED BY <2>1, <2>2, <2>3, <1>2
<1>4. Elems(s) = Elems(p) \cup {s[Len(s)]}
  <2> HIDE DEF p, n
  <2> QED BY <1>2, <1>3 DEF Elems
<1> QED BY <1>1, <1>2, <1>4

\* Neither does taking the first one.
LEMMA ElemsTail ==
    ASSUME NEW S, NEW s \in Seq(S), s # <<>>
    PROVE  /\ Tail(s) \in Seq(S)
           /\ Head(s) \in S
           /\ Elems(s) = {Head(s)} \cup Elems(Tail(s))
<1>1. Len(s) \in Nat \ {0}
  OBVIOUS
<1>2. /\ Tail(s) \in Seq(S) /\ Len(Tail(s)) = Len(s) - 1
      /\ \A k \in 1 .. Len(s) - 1 : Tail(s)[k] = s[k + 1]
      /\ Head(s) = s[1]
  BY <1>1
<1>3. Elems(Tail(s)) \subseteq Elems(s)
  <2> SUFFICES ASSUME NEW k \in 1 .. Len(s) - 1 PROVE Tail(s)[k] \in Elems(s)
    BY <1>2 DEF Elems
  <2>1. k + 1 \in 1 .. Len(s)
    BY <1>1
  <2> QED BY <2>1, <1>2 DEF Elems
<1>4. Elems(s) \subseteq {Head(s)} \cup Elems(Tail(s))
  <2> SUFFICES ASSUME NEW k \in 1 .. Len(s), k # 1 PROVE s[k] \in Elems(Tail(s))
    BY <1>2 DEF Elems
  <2>1. k - 1 \in 1 .. Len(s) - 1 /\ (k - 1) + 1 = k
    OBVIOUS
  <2>2. Tail(s)[k - 1] = s[k]
    BY <2>1, <1>2
  <2>3. k - 1 \in DOMAIN Tail(s)
    BY <2>1, <1>2
  <2> QED BY <2>2, <2>3 DEF Elems
<1>5. Head(s) \in Elems(s)
  BY <1>1, <1>2 DEF Elems
<1> QED BY <1>1, <1>2, <1>3, <1>4, <1>5

\* Elements of a closed set lead only to elements of it.
LEMMA ReachMember ==
    ASSUME TypeOK, NEW f \in Wanted
    PROVE  Elems(includes[f]) \subseteq Wanted
<1> SUFFICES ASSUME NEW g \in Elems(includes[f]) PROVE g \in Wanted
  OBVIOUS
<1>1. f \in File /\ g \in File
  BY ElemsType DEF TypeOK, Wanted, Reach
<1> SUFFICES ASSUME NEW C \in SUBSET File, Elems(roots) \subseteq C, Closed(C) PROVE g \in C
  BY <1>1 DEF Wanted, Reach
<1>2. f \in C
  BY DEF Wanted, Reach
<1> QED BY <1>2 DEF Closed

\* The roots are reachable.
LEMMA RootsReached ==
    ASSUME TypeOK
    PROVE  Elems(roots) \subseteq Wanted
BY ElemsType DEF TypeOK, Wanted, Reach
----------------------------------------------------------------------------
\* A run starts with nothing found and nothing to explore.
LEMMA InitInv == Init => IInv
<1> SUFFICES ASSUME Init PROVE IInv
  OBVIOUS
<1>1. TypeOK
  BY LibDepsConstants DEF Init, TypeOK, Tool, NoError
<1>2. WorkListInv /\ FoundInv /\ RootsInv
  BY DEF Init, WorkListInv, FoundInv, RootsInv
<1> QED BY <1>1, <1>2 DEF IInv

\* No step changes the tree, so reachability stays what it is.
LEMMA TreeFixed ==
    ASSUME UNCHANGED tree
    PROVE  /\ Wanted' = Wanted
           /\ \A f : ChildrenOk(f)' = ChildrenOk(f)
BY DEF tree, Wanted, Reach, Closed, Elems, ChildrenOk, Accepts, DeclaresTrustedness,
       CompatiblePath, IsTrusted

\* Every step of either tool keeps the invariant.
LEMMA NextInv == IInv /\ [Next]_vars => IInv'
<1> SUFFICES ASSUME IInv, [Next]_vars PROVE IInv'
  OBVIOUS
<1> USE DEF IInv
<1>1. CASE StartRoot
  <2>1. UNCHANGED tree /\ roots[root] \in File /\ root \in 1 .. Len(roots)
    BY <1>1 DEF StartRoot, TypeOK
  <2>2. Elems(<<roots[root]>>) = {roots[root]}
    BY DEF Elems
  <2>3. roots[root] \in Wanted
    BY <2>1, RootsReached DEF TypeOK, Elems
  <2>4. TypeOK'
    BY <1>1, <2>1 DEF StartRoot, TypeOK, tree
  <2>5. WorkListInv'
    BY <1>1, <2>1, <2>2, <2>3, TreeFixed DEF StartRoot, WorkListInv, tree
  <2>6. FoundInv'
    <3>1. pc = "roots" /\ pc' \in {"explore", "visit"} /\ UNCHANGED <<roots, includes, root>>
      BY <1>1 DEF StartRoot, tree
    <3>2. irefs' \subseteq Wanted
      BY <1>1, <2>3, <3>1 DEF StartRoot, FoundInv
    <3>3. CASE tool = "veridepend"
      <4>1. irefs' = irefs \cup {roots[root]} /\ pc' = "explore"
        BY <1>1, <3>3 DEF StartRoot
      <4> QED BY <3>1, <3>2, <4>1, <2>1, TreeFixed DEF FoundInv, tree
    <3>4. CASE tool # "veridepend"
      <4>1. irefs' = irefs
        BY <1>1, <3>4 DEF StartRoot
      <4> QED BY <3>1, <3>2, <4>1, <2>1, TreeFixed DEF FoundInv, tree
    <3> QED BY <3>3, <3>4
  <2>7. RootsInv'
    BY <1>1, <2>1 DEF StartRoot, RootsInv, TypeOK, tree, Tool
  <2> QED BY <2>4, <2>5, <2>6, <2>7
<1>2. CASE SkipVisited
  <2>1. UNCHANGED tree /\ needExplore # <<>> /\ pc = "explore" /\ pc' = pc
    BY <1>2 DEF SkipVisited
  <2>2. /\ needExplore' \in Seq(File)
        /\ visited \cup Elems(needExplore) = visited' \cup Elems(needExplore')
    BY <1>2, <2>1, ElemsPop DEF SkipVisited, TypeOK, Top, Popped, AfterSkip
  <2>3. TypeOK'
    BY <1>2, <2>2 DEF SkipVisited, TypeOK, tree
  <2>4. WorkListInv'
    BY <1>2, <2>1, <2>2, TreeFixed DEF SkipVisited, WorkListInv, tree
  <2>5. FoundInv' /\ RootsInv'
    BY <1>2, <2>1, TreeFixed DEF SkipVisited, FoundInv, RootsInv, tree
  <2> QED BY <2>3, <2>4, <2>5
<1>3. CASE Explore
  <2>1. /\ UNCHANGED tree /\ needExplore # <<>> /\ pc = "explore" /\ pc' = pc
        /\ ChildrenOk(Top) /\ visited' = visited \cup {Top}
        /\ needExplore' = Popped \o includes[Top]
    BY <1>3 DEF Explore, Extended
  <2>2. /\ Top \in File /\ Popped \in Seq(File) /\ includes[Top] \in Seq(File)
        /\ Elems(needExplore) = Elems(Popped) \cup {Top}
    BY <2>1, ElemsPop DEF TypeOK, Top, Popped
  <2>3. /\ needExplore' \in Seq(File)
        /\ Elems(needExplore') = Elems(Popped) \cup Elems(includes[Top])
    BY <2>1, <2>2, ElemsConcat
  <2>4. Elems(includes[Top]) \subseteq Wanted
    BY <2>1, <2>2, ReachMember DEF WorkListInv
  <2>5. TypeOK'
    BY <1>3, <2>1, <2>2, <2>3 DEF Explore, TypeOK, tree
  <2>6. WorkListInv'
    <3>1. UNCHANGED <<roots, root, includes>>
      BY <1>3 DEF Explore, tree
    <3>2. roots[root] \in visited' \cup Elems(needExplore')
      BY <2>1, <2>2, <2>3 DEF WorkListInv
    <3>3. \A f \in visited' : ChildrenOk(f) /\ Elems(includes[f]) \subseteq visited' \cup Elems(needExplore')
      BY <2>1, <2>2, <2>3 DEF WorkListInv
    <3>4. visited' \cup Elems(needExplore') \subseteq Wanted
      BY <2>1, <2>2, <2>3, <2>4 DEF WorkListInv
    <3> QED BY <2>1, <3>1, <3>2, <3>3, <3>4, TreeFixed DEF WorkListInv
  <2>7. FoundInv' /\ RootsInv'
    BY <1>3, <2>1, TreeFixed DEF Explore, FoundInv, RootsInv, tree
  <2> QED BY <2>5, <2>6, <2>7
<1>4. CASE FinishRoot
  <2>1. /\ UNCHANGED tree /\ pc = "explore" /\ pc' = "roots" /\ needExplore = <<>>
        /\ irefs' = irefs \cup (visited \ {roots[root]}) /\ root' = root + 1
    BY <1>4 DEF FinishRoot, NextRoot
  <2>2. Elems(needExplore) = {}
    BY <2>1 DEF Elems
  <2>3. irefs' = irefs \cup visited /\ roots[root] \in irefs
    BY <2>1 DEF RootsInv
  <2>4. TypeOK'
    BY <1>4, <2>1 DEF FinishRoot, TypeOK, tree
  <2>5. WorkListInv'
    BY <2>1 DEF WorkListInv
  <2>6. FoundInv'
    <3>1. irefs' \subseteq Wanted
      BY <2>1, <2>3 DEF FoundInv, WorkListInv
    <3>2. \A f \in irefs' : ChildrenOk(f) /\ Elems(includes[f]) \subseteq irefs'
      BY <2>1, <2>2, <2>3 DEF FoundInv, WorkListInv
    <3> QED BY <2>1, <3>1, <3>2, TreeFixed DEF FoundInv, tree
  <2>7. RootsInv'
    <3>1. tool' = tool /\ roots' = roots /\ tool = "veridepend"
      BY <2>1 DEF tree, RootsInv
    <3>2. \A k \in 1 .. root' - 1 : roots[k] \in irefs'
      <4> SUFFICES ASSUME NEW k \in 1 .. root PROVE roots[k] \in irefs'
        BY <2>1 DEF TypeOK
      <4>1. CASE k = root
        BY <4>1, <2>3
      <4>2. CASE k # root
        BY <4>2, <2>1, <2>3, <3>1 DEF RootsInv, TypeOK
      <4> QED BY <4>1, <4>2
    <3> QED BY <2>1, <3>1, <3>2 DEF RootsInv
  <2> QED BY <2>4, <2>5, <2>6, <2>7
<1>5. CASE StartSort
  <2>1. /\ UNCHANGED tree /\ pc = "roots" /\ pc' = "sort" /\ root > Len(roots)
        /\ UNCHANGED <<root, irefs, needExplore, visited>>
    BY <1>5 DEF StartSort
  <2>2. root = Len(roots) + 1 /\ tool = "veridepend"
    BY <2>1 DEF TypeOK, RootsInv, Tool
  <2>3. \A k \in 1 .. Len(roots) : roots[k] \in irefs
    BY <2>1, <2>2 DEF RootsInv, TypeOK
  <2>4. Elems(roots) \subseteq irefs
    BY <2>3 DEF Elems, TypeOK
  <2>5. TypeOK'
    BY <1>5 DEF StartSort, TypeOK, tree
  <2>6. WorkListInv' /\ FoundInv'
    BY <2>1, TreeFixed DEF WorkListInv, FoundInv, tree
  <2>7. RootsInv'
    BY <2>1, <2>2, <2>4 DEF RootsInv, tree, Elems
  <2> QED BY <2>5, <2>6, <2>7
<1>6. CASE SortGroup \/ FinishSort \/ RaiseCircular
  <2>1. /\ UNCHANGED tree /\ pc = "sort" /\ pc' \in {"sort", "done", "raised"}
        /\ UNCHANGED <<root, irefs, needExplore, visited>>
    BY <1>6 DEF SortGroup, FinishSort, RaiseCircular
  <2>2. TypeOK'
    <3>1. Group \subseteq File
      BY DEF Group, TypeOK
    <3>2. CASE SortGroup
      BY <3>1, <3>2 DEF SortGroup, TypeOK, tree
    <3>3. CASE FinishSort
      BY <3>3 DEF FinishSort, TypeOK, tree
    <3>4. CASE RaiseCircular
      BY <3>4 DEF RaiseCircular, TypeOK, tree, Errors
    <3> QED BY <1>6, <3>2, <3>3, <3>4
  <2>3. WorkListInv' /\ FoundInv'
    BY <2>1, TreeFixed DEF WorkListInv, FoundInv, tree
  <2>4. RootsInv'
    BY <2>1 DEF RootsInv, tree, Elems
  <2> QED BY <2>2, <2>3, <2>4
<1>7. CASE VisitAgain
  <2>1. UNCHANGED tree /\ needExplore # <<>> /\ pc = "visit" /\ pc' = pc
    BY <1>7 DEF VisitAgain
  <2>2. /\ needExplore' \in Seq(File)
        /\ visited \cup Elems(needExplore) = visited' \cup Elems(needExplore')
    BY <1>7, <2>1, ElemsTail DEF VisitAgain, TypeOK
  <2>3. TypeOK'
    BY <1>7, <2>2 DEF VisitAgain, TypeOK, tree
  <2>4. WorkListInv'
    BY <1>7, <2>1, <2>2, TreeFixed DEF VisitAgain, WorkListInv, tree
  <2>5. FoundInv' /\ RootsInv'
    BY <1>7, <2>1, TreeFixed DEF VisitAgain, FoundInv, RootsInv, tree
  <2> QED BY <2>3, <2>4, <2>5
<1>8. CASE Visit
  <2> DEFINE h == Head(needExplore)
  <2>1. /\ UNCHANGED tree /\ needExplore # <<>> /\ pc = "visit" /\ pc' = pc
        /\ ChildrenOk(h) /\ visited' = visited \cup {h}
        /\ needExplore' = includes[h] \o Tail(needExplore)
    BY <1>8 DEF Visit
  <2>2. /\ h \in File /\ Tail(needExplore) \in Seq(File) /\ includes[h] \in Seq(File)
        /\ Elems(needExplore) = {h} \cup Elems(Tail(needExplore))
    BY <2>1, ElemsTail DEF TypeOK
  <2>3. /\ needExplore' \in Seq(File)
        /\ Elems(needExplore') = Elems(includes[h]) \cup Elems(Tail(needExplore))
    <3> DEFINE a == includes[h]
               b == Tail(needExplore)
    <3>1. a \in Seq(File) /\ b \in Seq(File) /\ needExplore' = a \o b
      BY <2>1, <2>2
    <3> HIDE DEF a, b
    <3>2. a \o b \in Seq(File) /\ Elems(a \o b) = Elems(a) \cup Elems(b)
      BY <3>1, ElemsConcat
    <3> QED BY <3>1, <3>2 DEF a, b
  <2>4. Elems(includes[h]) \subseteq Wanted
    BY <2>1, <2>2, ReachMember DEF WorkListInv
  <2>5. TypeOK'
    BY <1>8, <2>1, <2>2, <2>3 DEF Visit, TypeOK, tree
  <2>6. WorkListInv'
    <3>1. UNCHANGED <<roots, root, includes>>
      BY <1>8 DEF Visit, tree
    <3>2. roots[root] \in visited' \cup Elems(needExplore')
      BY <2>1, <2>2, <2>3 DEF WorkListInv
    <3>3. \A f \in visited' : ChildrenOk(f) /\ Elems(includes[f]) \subseteq visited' \cup Elems(needExplore')
      BY <2>1, <2>2, <2>3 DEF WorkListInv
    <3>4. visited' \cup Elems(needExplore') \subseteq Wanted
      BY <2>1, <2>2, <2>3, <2>4 DEF WorkListInv
    <3> QED BY <2>1, <3>1, <3>2, <3>3, <3>4, TreeFixed DEF WorkListInv
  <2>7. FoundInv' /\ RootsInv'
    BY <1>8, <2>1, TreeFixed DEF Visit, FoundInv, RootsInv, tree
  <2> QED BY <2>5, <2>6, <2>7
<1>9. CASE FinishVisit
  <2>1. /\ UNCHANGED tree /\ pc = "visit" /\ pc' = "done" /\ needExplore = <<>>
        /\ irefs' = visited /\ UNCHANGED <<root, visited, needExplore>>
    BY <1>9 DEF FinishVisit
  <2>2. Elems(needExplore) = {}
    BY <2>1 DEF Elems
  <2>3. tool = "dep-graph" /\ Len(roots) = 1 /\ root = 1
    BY <2>1 DEF RootsInv
  <2>4. Elems(roots) = {roots[1]}
    BY <2>3 DEF Elems, TypeOK
  <2>5. TypeOK'
    BY <1>9, <2>1 DEF FinishVisit, TypeOK, tree
  <2>6. WorkListInv'
    BY <2>1 DEF WorkListInv
  <2>7. FoundInv'
    BY <2>1, <2>2, TreeFixed DEF FoundInv, WorkListInv, tree
  <2>8. RootsInv'
    BY <2>1, <2>2, <2>3, <2>4 DEF RootsInv, WorkListInv, tree, Elems
  <2> QED BY <2>5, <2>6, <2>7, <2>8
<1>10. CASE Raise
  <2>1. /\ UNCHANGED tree /\ pc \in {"explore", "visit"} /\ pc' = "raised" /\ needExplore # <<>>
        /\ UNCHANGED <<root, irefs>> /\ NextFile \in File /\ needExplore' \in Seq(File)
    BY <1>10, ElemsPop, ElemsTail DEF Raise, TypeOK, NextFile, Top, Popped
  <2>2. error' \in Errors
    BY <1>10 DEF Raise, Refusals, Errors
  <2>3. TypeOK'
    BY <1>10, <2>1, <2>2 DEF Raise, TypeOK, tree
  <2>4. WorkListInv' /\ FoundInv' /\ RootsInv'
    BY <2>1 DEF WorkListInv, FoundInv, RootsInv, tree
  <2> QED BY <2>3, <2>4
<1>11. CASE UNCHANGED vars
  <2>1. UNCHANGED tree
    BY <1>11 DEF vars
  <2>2. TypeOK'
    BY <1>11 DEF vars, tree, TypeOK
  <2>3. WorkListInv' /\ FoundInv' /\ RootsInv'
    BY <1>11, <2>1, TreeFixed DEF vars, tree, WorkListInv, FoundInv, RootsInv, Elems
  <2> QED BY <2>2, <2>3
<1> QED
  BY <1>1, <1>2, <1>3, <1>4, <1>5, <1>6, <1>7, <1>8, <1>9, <1>10, <1>11 DEF Next
----------------------------------------------------------------------------
(***************************************************************************)
(* lib_deps.py and dep-graph.py: the inductive invariant of the work lists *)
(* holds throughout a run, whatever the tree and the roots.                *)
(***************************************************************************)
THEOREM WorkListInvariant == Spec => []IInv
BY InitInv, NextInv, PTL DEF Spec

(***************************************************************************)
(* depsFromDfySources and Traverser.visit find exactly the files reachable *)
(* from the roots, for every source tree.                                  *)
(***************************************************************************)
THEOREM ReachableFound == Spec => []FindsReachable
<1>1. IInv => FindsReachable
  <2> SUFFICES ASSUME IInv, pc \in {"sort", "done"} PROVE irefs = Wanted
    BY DEF FindsReachable, Wanted
  <2>1. irefs \subseteq Wanted /\ Elems(roots) \subseteq irefs /\ Closed(irefs)
    BY DEF IInv, FoundInv, RootsInv, Closed
  <2>2. irefs \in SUBSET File
    BY DEF IInv, TypeOK
  <2>3. Wanted \subseteq irefs
    BY <2>1, <2>2 DEF Wanted, Reach
  <2> QED BY <2>1, <2>3
<1> QED BY <1>1, WorkListInvariant, PTL

(***************************************************************************)
(* childrenForIref tests one include at a time, but a run that ends        *)
(* without an exception has shown every trusted file to rest, at any       *)
(* depth, on trusted files only.                                           *)
(***************************************************************************)
THEOREM TrustedClosed == Spec => []TrustedRestsOnTrusted
<1>1. IInv => TrustedRestsOnTrusted
  <2> SUFFICES ASSUME IInv, pc \in {"sort", "done"}, NEW f \in irefs, IsTrusted(f),
                      NEW g \in Reach({f})
               PROVE  IsTrusted(g)
    BY DEF TrustedRestsOnTrusted
  <2> DEFINE C == {h \in irefs : IsTrusted(h)}
  <2>1. C \in SUBSET File /\ {f} \subseteq C
    BY DEF IInv, TypeOK
  <2>2. Closed(C)
    <3> SUFFICES ASSUME NEW h \in C, NEW k \in DOMAIN includes[h]
                 PROVE  includes[h][k] \in C
      BY DEF Closed, Elems
    <3>1. ChildrenOk(h) /\ Elems(includes[h]) \subseteq irefs
      BY DEF IInv, FoundInv
    <3>2. includes[h][k] \in irefs
      BY <3>1 DEF Elems
    <3>3. IsTrusted(includes[h][k])
      BY <3>1 DEF ChildrenOk, Accepts, CompatiblePath
    <3> QED BY <3>2, <3>3
  <2>3. g \in C
    BY <2>1, <2>2 DEF Reach
  <2> QED BY <2>3
<1> QED BY <1>1, WorkListInvariant, PTL
----------------------------------------------------------------------------
(***************************************************************************)
(* How a run ends: the sorted groups, or an exception.                     *)
(***************************************************************************)

\* A run only ever holds finitely many files.
FiniteInv == IsFiniteSet(visited) /\ IsFiniteSet(irefs) /\ IsFiniteSet(unsorted)

\* The groups emitted so far, and what remains.
GroupsInv ==
    /\ pc = "sort" => tool = "veridepend"
    /\ pc \in {"roots", "explore", "visit"} \/ tool = "dep-graph" => groups = <<>>
    /\ pc = "sort" \/ (pc = "done" /\ tool = "veridepend") =>
          irefs = unsorted \cup UNION Elems(groups)
    /\ pc = "done" /\ tool = "veridepend" => unsorted = {}
    /\ \A k \in DOMAIN groups : groups[k] \cap unsorted = {}
    /\ \A m \in DOMAIN groups : \A f \in groups[m] : \A g \in Elems(includes[f]) \ {f} :
          \E k \in 1 .. m - 1 : g \in groups[k]
    /\ \A k, m \in DOMAIN groups : k # m => groups[k] \cap groups[m] = {}

\* What sorting the files preserves besides.
OutcomeInv == IInv /\ FiniteInv /\ GroupsInv /\ ErrorsAreReal

\* What an include leads to is reachable from the file itself.
LEMMA ReachThrough ==
    ASSUME TypeOK, NEW f \in File, NEW g \in Elems(includes[f])
    PROVE  g \in File /\ f \in Reach({f}) /\ Reach({g}) \subseteq Reach({f})
<1>1. g \in File
  BY ElemsType DEF TypeOK
<1>2. f \in Reach({f})
  BY DEF Reach
<1>3. ASSUME NEW x \in Reach({g}), NEW C \in SUBSET File, {f} \subseteq C, Closed(C)
      PROVE  x \in C
  <2>1. {g} \subseteq C
    BY <1>3 DEF Closed
  <2> QED BY <1>3, <2>1 DEF Reach
<1>4. Reach({g}) \subseteq Reach({f})
  BY <1>3 DEF Reach
<1> QED BY <1>1, <1>2, <1>4

\* Files that each include another one of them, finitely many, include in a cycle.
LEMMA CycleExists ==
    ASSUME TypeOK, FiniteInv, unsorted # {}, Group = {}
    PROVE  \E f \in unsorted : \E g \in Elems(includes[f]) \ {f} : f \in Reach({g})
<1> DEFINE D(f) == Reach({f}) \cap unsorted
           T == {D(f) : f \in unsorted}
<1>1. T \subseteq FiniteSubsetsOf(unsorted) /\ T # {}
  <2>1. \A f \in unsorted : IsFiniteSet(D(f))
    BY FS_Subset DEF FiniteInv
  <2> QED BY <2>1 DEF FiniteSubsetsOf
<1>2. IsWellFoundedOn(StrictSubsetOrdering(unsorted), FiniteSubsetsOf(unsorted))
  BY FS_StrictSubsetOrderingWellFounded
<1> HIDE DEF T
<1>3. PICK m \in T : \A y \in T : ~ (<<y, m>> \in StrictSubsetOrdering(unsorted))
  BY <1>1, <1>2, WFMin
<1>4. PICK f \in unsorted : m = D(f)
  BY <1>3 DEF T
<1>5. PICK g \in Elems(includes[f]) \ {f} : g \in unsorted
  BY DEF Group
<1>6. f \in File /\ f \in Reach({f}) /\ Reach({g}) \subseteq Reach({f})
  BY <1>5, ReachThrough DEF TypeOK
<1>7. D(g) \in T /\ D(g) \subseteq m /\ m \subseteq unsorted
  BY <1>4, <1>5, <1>6 DEF T
<1>8. D(g) = m
  <2>1. ~ (<<D(g), m>> \in StrictSubsetOrdering(unsorted))
    BY <1>3, <1>7
  <2> HIDE DEF D
  <2>2. D(g) \in SUBSET unsorted /\ m \in SUBSET unsorted
    BY <1>7
  <2> QED BY <1>7, <2>1, <2>2 DEF StrictSubsetOrdering
<1>9. f \in Reach({g})
  BY <1>4, <1>6, <1>8
<1> QED BY <1>5, <1>9

\* A run starts with no groups and no error.
LEMMA OutcomeInit == Init => OutcomeInv
<1> SUFFICES ASSUME Init PROVE OutcomeInv
  OBVIOUS
<1>1. FiniteInv
  BY FS_EmptySet DEF Init, FiniteInv
<1>2. GroupsInv /\ ErrorsAreReal
  BY DEF Init, GroupsInv, ErrorsAreReal
<1> QED BY <1>1, <1>2, InitInv DEF OutcomeInv

\* Steps add one file at a time, or unite what was found.
LEMMA FiniteStep ==
    ASSUME FiniteInv, [Next]_vars
    PROVE  FiniteInv'
<1> USE DEF FiniteInv
<1>1. \A x : IsFiniteSet(visited \cup {x}) /\ IsFiniteSet(irefs \cup {x})
  BY FS_AddElement
<1>2. IsFiniteSet(irefs \cup (visited \ {roots[root]}))
  <2>1. IsFiniteSet(visited \ {roots[root]})
    BY FS_RemoveElement
  <2> QED BY <2>1, FS_Union
<1>3. IsFiniteSet(unsorted \ Group)
  BY FS_Difference
<1>4. IsFiniteSet({})
  BY FS_EmptySet
<1>5. CASE StartRoot
  BY <1>1, <1>4, <1>5 DEF StartRoot
<1>6. CASE SkipVisited \/ Explore \/ VisitAgain \/ Visit
  BY <1>1, <1>6 DEF SkipVisited, Explore, VisitAgain, Visit
<1>7. CASE FinishRoot \/ StartSort \/ FinishVisit
  BY <1>2, <1>7 DEF FinishRoot, StartSort, FinishVisit
<1>8. CASE SortGroup \/ FinishSort \/ RaiseCircular
  BY <1>3, <1>8 DEF SortGroup, FinishSort, RaiseCircular
<1>9. CASE Raise
  BY <1>1, <1>9 DEF Raise
<1>10. CASE UNCHANGED vars
  BY <1>10 DEF vars
<1> QED BY <1>5, <1>6, <1>7, <1>8, <1>9, <1>10 DEF Next

\* A group is emitted when the other includes of its files have been.
LEMMA GroupsStep ==
    ASSUME IInv, GroupsInv, [Next]_vars
    PROVE  GroupsInv'
<1>1. CASE SortGroup
  <2>1. /\ groups' = Append(groups, Group) /\ unsorted' = unsorted \ Group /\ pc = "sort"
        /\ UNCHANGED <<tree, pc, irefs>>
    BY <1>1 DEF SortGroup
  <2>2. groups \in Seq(SUBSET File) /\ Group \subseteq unsorted /\ Group \subseteq File
    BY DEF IInv, TypeOK, Group
  <2> DEFINE n == Len(groups)
  <2>3. /\ n \in Nat /\ DOMAIN groups = 1 .. n /\ DOMAIN groups' = 1 .. n + 1
        /\ groups'[n + 1] = Group /\ \A k \in 1 .. n : groups'[k] = groups[k]
    BY <2>1, <2>2
  <2>4. tool = "veridepend" /\ tool' = tool /\ includes' = includes
    BY <2>1 DEF GroupsInv, tree
  <2>5. UNION Elems(groups') = (UNION Elems(groups)) \cup Group
    BY <2>3 DEF Elems
  <2>6. irefs = unsorted \cup UNION Elems(groups)
    BY <2>1 DEF GroupsInv
  <2> HIDE DEF n
  <2>7. ASSUME NEW f \in Group, NEW g \in Elems(includes[f]) \ {f}
        PROVE  \E k \in 1 .. n : g \in groups[k]
    <3>1. f \in irefs /\ g \notin unsorted
      BY <2>6, <2>7 DEF Group
    <3>2. g \in irefs
      BY <2>1, <2>7, <3>1 DEF IInv, FoundInv
    <3> QED BY <2>3, <2>6, <3>1, <3>2 DEF Elems
  <2>8. ASSUME NEW m \in 1 .. n + 1, NEW f \in groups'[m], NEW g \in Elems(includes[f]) \ {f}
        PROVE  \E k \in 1 .. m - 1 : g \in groups'[k]
    <3>1. CASE m = n + 1
      BY <2>3, <2>7, <2>8, <3>1
    <3>2. CASE m # n + 1
      <4>1. m \in 1 .. n /\ f \in groups[m]
        BY <2>3, <2>8, <3>2
      <4>2. PICK k \in 1 .. m - 1 : g \in groups[k]
        BY <2>3, <2>8, <4>1 DEF GroupsInv
      <4> QED BY <2>3, <4>1, <4>2
    <3> QED BY <3>1, <3>2
  <2>9. \A k \in 1 .. n : groups[k] \cap unsorted = {}
    BY <2>3 DEF GroupsInv
  <2>10. ASSUME NEW k \in 1 .. n + 1, NEW m \in 1 .. n + 1, k # m
         PROVE  groups'[k] \cap groups'[m] = {}
    <3>1. CASE k = n + 1
      BY <2>2, <2>3, <2>9, <2>10, <3>1
    <3>2. CASE m = n + 1
      BY <2>2, <2>3, <2>9, <2>10, <3>2
    <3>3. CASE k # n + 1 /\ m # n + 1
      <4>1. k \in 1 .. n /\ m \in 1 .. n
        BY <2>3, <3>3
      <4> QED BY <2>3, <2>10, <4>1 DEF GroupsInv
    <3> QED BY <3>1, <3>2, <3>3
  <2>11. \A k \in 1 .. n + 1 : groups'[k] \cap unsorted' = {}
    <3> TAKE k \in 1 .. n + 1
    <3>1. CASE k = n + 1
      BY <2>1, <2>3, <3>1
    <3>2. CASE k # n + 1
      <4>1. k \in 1 .. n
        BY <2>3, <3>2
      <4> QED BY <2>1, <2>3, <2>9, <4>1
    <3> QED BY <3>1, <3>2
  <2>12. irefs' = unsorted' \cup UNION Elems(groups')
    BY <2>1, <2>2, <2>5, <2>6
  <2> QED
    BY <2>1, <2>3, <2>4, <2>8, <2>10, <2>11, <2>12 DEF GroupsInv
<1>2. CASE StartSort
  <2>1. /\ unsorted' = irefs /\ pc = "roots" /\ pc' = "sort" /\ UNCHANGED <<tree, irefs, groups>>
        /\ root > Len(roots)
    BY <1>2 DEF StartSort
  <2>2. groups = <<>> /\ tool = "veridepend"
    BY <2>1 DEF GroupsInv, IInv, RootsInv, TypeOK, Tool
  <2> QED BY <2>1, <2>2 DEF GroupsInv, tree, Elems
<1>3. CASE FinishSort
  BY <1>3 DEF FinishSort, GroupsInv, tree, Elems
<1>4. CASE RaiseCircular
  BY <1>4 DEF RaiseCircular, GroupsInv, tree, Elems
<1>5. CASE StartRoot \/ SkipVisited \/ Explore \/ FinishRoot \/ VisitAgain \/ Visit \/ Raise
  <2>1. groups = <<>> /\ UNCHANGED <<tree, groups, unsorted>> /\ pc' \notin {"sort", "done"}
    BY <1>5 DEF StartRoot, SkipVisited, Explore, FinishRoot, VisitAgain, Visit, Raise, GroupsInv
  <2> QED BY <2>1 DEF GroupsInv, tree
<1>6. CASE FinishVisit
  <2>1. groups = <<>> /\ UNCHANGED <<tree, groups, unsorted>> /\ pc' = "done" /\ tool = "dep-graph"
    BY <1>6 DEF FinishVisit, GroupsInv, IInv, RootsInv
  <2> QED BY <2>1 DEF GroupsInv, tree
<1>7. CASE UNCHANGED vars
  BY <1>7 DEF vars, GroupsInv, tree, Elems
<1> QED BY <1>1, <1>2, <1>3, <1>4, <1>5, <1>6, <1>7 DEF Next

\* Reachability and refusals depend on the tree alone.
LEMMA FaultsFixed ==
    ASSUME UNCHANGED tree
    PROVE  /\ Elems(roots)' = Elems(roots)
           /\ \A S : Reach(S)' = Reach(S)
           /\ \A f : Refusals(f)' = Refusals(f) /\ Elems(includes[f])' = Elems(includes[f])
BY DEF tree, Reach, Closed, Elems, Refusals, Accepts, DeclaresTrustedness,
       CompatiblePath, IsTrusted

\* A run raises for what it met on the way, or for a cycle in what is left to sort.
LEMMA ErrorsStep ==
    ASSUME IInv, FiniteInv, GroupsInv, ErrorsAreReal, [Next]_vars
    PROVE  ErrorsAreReal'
<1>1. CASE RaiseCircular
  <2>1. /\ pc = "sort" /\ Group = {} /\ unsorted # {} /\ UNCHANGED tree
        /\ error' = "CircularDependency"
    BY <1>1 DEF RaiseCircular
  <2>2. unsorted \subseteq Reach(Elems(roots))
    BY <2>1 DEF GroupsInv, IInv, FoundInv, Wanted
  <2>3. \E f \in unsorted : \E g \in Elems(includes[f]) \ {f} : f \in Reach({g})
    BY <2>1, CycleExists DEF IInv
  <2>4. PICK f \in Reach(Elems(roots)) : \E g \in Elems(includes[f]) \ {f} : f \in Reach({g})
    BY <2>2, <2>3
  <2>5. PICK g \in Elems(includes[f]) \ {f} : f \in Reach({g})
    BY <2>4
  <2>6. f \in Reach(Elems(roots))'
    BY <2>1, <2>4, FaultsFixed
  <2>7. g \in Elems(includes[f])' \ {f}
    BY <2>1, <2>5, FaultsFixed
  <2>8. f \in Reach({g})'
    BY <2>1, <2>5, FaultsFixed
  <2> QED BY <2>1, <2>6, <2>7, <2>8 DEF ErrorsAreReal
<1>2. CASE Raise
  <2>1. /\ pc \in {"explore", "visit"} /\ needExplore # <<>> /\ UNCHANGED tree
        /\ error' \in Refusals(NextFile)
    BY <1>2 DEF Raise
  <2>2. NextFile \in Elems(needExplore)
    BY <2>1, ElemsPop, ElemsTail DEF IInv, TypeOK, NextFile, Top
  <2>3. NextFile \in Reach(Elems(roots))
    BY <2>1, <2>2 DEF IInv, WorkListInv, Wanted
  <2>4. error' # "CircularDependency"
    BY <2>1 DEF Refusals
  <2> QED BY <2>1, <2>3, <2>4, FaultsFixed DEF ErrorsAreReal
<1>3. CASE UNCHANGED vars
  <2>1. UNCHANGED <<tree, pc, error>>
    BY <1>3 DEF vars
  <2> SUFFICES ASSUME pc = "raised" PROVE ErrorsAreReal'
    BY <2>1 DEF ErrorsAreReal
  <2>2. Elems(roots)' = Elems(roots) /\ Reach(Elems(roots))' = Reach(Elems(roots))
    BY <2>1, FaultsFixed
  <2>3. CASE error = "CircularDependency"
    <3>1. PICK f \in Reach(Elems(roots)) : \E g \in Elems(includes[f]) \ {f} : f \in Reach({g})
      BY <2>3 DEF ErrorsAreReal
    <3>2. PICK g \in Elems(includes[f]) \ {f} : f \in Reach({g})
      BY <3>1
    <3>3. g \in Elems(includes[f])' \ {f} /\ f \in Reach({g})'
      BY <2>1, <3>2, FaultsFixed
    <3> QED BY <2>1, <2>2, <2>3, <3>1, <3>3 DEF ErrorsAreReal
  <2>4. CASE error # "CircularDependency"
    <3>1. PICK f \in Reach(Elems(roots)) : error \in Refusals(f)
      BY <2>4 DEF ErrorsAreReal
    <3>2. error' \in Refusals(f)'
      BY <2>1, <3>1, FaultsFixed
    <3> QED BY <2>1, <2>2, <2>4, <3>1, <3>2 DEF ErrorsAreReal
  <2> QED BY <2>3, <2>4
<1>4. CASE \/ StartRoot \/ SkipVisited \/ Explore \/ FinishRoot \/ StartSort
           \/ SortGroup \/ FinishSort \/ VisitAgain \/ Visit \/ FinishVisit
  <2>1. pc' # "raised"
    BY <1>4 DEF StartRoot, SkipVisited, Explore, FinishRoot, StartSort, SortGroup, FinishSort,
       VisitAgain, Visit, FinishVisit
  <2> QED BY <2>1 DEF ErrorsAreReal
<1> QED BY <1>1, <1>2, <1>3, <1>4 DEF Next

(***************************************************************************)
(* toposortGroup lists every found file exactly once and after the files   *)
(* it includes, and an exception is raised only for a refused include of a *)
(* reachable file or a cycle among the reachable files: on every source    *)
(* tree, however many files it has.                                        *)
(***************************************************************************)
THEOREM OutcomeAlwaysRight == Spec => []RightOutcome
<1>1. OutcomeInv /\ [Next]_vars => OutcomeInv'
  BY NextInv, FiniteStep, GroupsStep, ErrorsStep DEF OutcomeInv
<1>2. ASSUME OutcomeInv PROVE RightOutcome
  <2>1. pc = "done" /\ tool = "veridepend" => UNION Elems(groups) = irefs
    BY <1>2 DEF OutcomeInv, GroupsInv
  <2> QED BY <1>2, <2>1 DEF OutcomeInv, GroupsInv, RightOutcome, IncludesComeFirst
<1> QED BY <1>1, <1>2, OutcomeInit, PTL DEF Spec

----------------------------------------------------------------------------
(* The experiment script *)

USE DEF Fault, lost, tracing, built, machine, died

\* Where a call is before it starts its benchmark.
BeforeStart ==
    {"parse", "check", "cgroup", "clean", "bundle", "splice", "exe", "data", "cache", "blktrace",
     "trace", "start"}

\* The values of the constants this call asks for, and what it is to run.
AskedValues == Spliced([c \in Constant |-> Default])
\* The data file that this call is to start with.
AskedData == IF Has("fromArchive") THEN "archive" ELSE IF Has("veri") THEN "zeros" ELSE "empty"
\* The executable is built from this branch, with this call's constants and options.
RightExe(e) ==
    /\ e.source = [branch |-> checkout, values |-> AskedValues]
    /\ e.options = MakeOptions
    /\ DOMAIN call.updates \subseteq Constant

\* The types.
ExperimentTypes ==
    /\ at \in BeforeStart \cup {"wait", "stop", "done", "raised"}
    /\ run \in Nat \ {0} /\ call \in Calls /\ checkout \in Branch
    /\ faults \in Nat /\ lostCheckouts \in Nat /\ lostKills \in Nat
    /\ ret \in {0, 1}
    /\ procs \subseteq 1 .. run /\ blktraces \subseteq 1 .. run /\ ending \subseteq blktraces
    /\ results \in [Outs -> Seq(Nat)]

\* The build, step by step: nothing of an earlier call is left in build/, and a
\* checkout that was not lost is of this call's branch.
BuildInv ==
    /\ at \in {"bundle", "splice", "exe", "data", "cache", "blktrace", "trace", "start"} /\ lostCheckouts = 0
          => checkout = call.branch
    /\ at \in {"bundle", "splice", "exe"} => exe = None
    /\ at = "bundle" => bundle = None
    /\ at = "splice" /\ Has("veri")
          => bundle = [branch |-> checkout, values |-> [c \in Constant |-> Default]]
    /\ at = "exe" /\ Has("veri") => bundle = [branch |-> checkout, values |-> AskedValues]
    /\ at = "exe" => /\ DOMAIN call.updates \subseteq Constant
                     /\ DOMAIN call.updates # {} => Has("veri")
    /\ at \in {"data", "cache", "blktrace", "trace", "start"} => RightExe(exe)
    /\ at \in {"cache", "blktrace", "trace", "start"} /\ faults = 0 => data = AskedData

\* A benchmark that runs has not failed; before the start there is none of this call, and one
\* without a script that waits for it is of a call that died.
ProcsInv ==
    /\ run \in procs => ret = 0
    /\ at \in BeforeStart => run \notin procs /\ ret = 0
    /\ OrphanOnlyIfDied

\* Each blktrace that goes on, but for the last, outlived a killall: before the next one starts
\* there is none more than killalls that failed.
TracesInv ==
    /\ Cardinality(blktraces \ ending) <= 1 + lostKills
    /\ at = "trace" => Cardinality(blktraces \ ending) <= lostKills
    /\ at \in {"stop", "done"} /\ lostKills = 0 => blktraces \subseteq ending
    /\ at = "done" => run \notin blktraces

\* What every step of every call preserves.
ExperimentInv ==
    ExperimentTypes /\ BuildInv /\ ProcsInv /\ OutputsKept /\ MeasuresWhatWasAsked

\* The first call starts with nothing built and nothing running.
LEMMA ExperimentInitInv == ExperimentInit => ExperimentInv
  BY DEF ExperimentInit, ExperimentInv, ExperimentTypes, BeforeStart, BuildInv, ProcsInv, OrphanOnlyIfDied,
     OutputsKept, MeasuresWhatWasAsked

\* An output file is opened only while it is free.
LEMMA OpenedOnce ==
    ASSUME ExperimentTypes, OutputsKept, Has("output"), OutputFree, call.out \in Outs
    PROVE  /\ Opened \in [Outs -> Seq(Nat)]
           /\ \A o \in Outs : Len(Opened[o]) <= 1
<1>1. Append(results[call.out], run) \in Seq(Nat) /\ Len(Append(results[call.out], run)) = 1
  BY DEF ExperimentTypes, OutputFree
<1> QED
  BY <1>1 DEF Opened, ExperimentTypes, OutputsKept

\* Reading and checking the arguments touches nothing but the output file.
LEMMA ArgumentsStep ==
    ASSUME ExperimentInv, ParseArgs \/ CheckArgs \/ SetCgroup
    PROVE  ExperimentInv'
<1>0. call.out \in Outs
  BY DEF ExperimentInv, ExperimentTypes, Outs
<1>1. CASE ParseArgs
  <2>1. results' = results \/ (Has("output") /\ OutputFree /\ results' = Opened)
    BY <1>1 DEF ParseArgs
  <2>2. results' \in [Outs -> Seq(Nat)] /\ OutputsKept'
    BY <1>0, <2>1, OpenedOnce DEF ExperimentInv, ExperimentTypes, OutputsKept, Outs
  <2>3. /\ at = "parse" /\ at' \in {"raised", "check"}
        /\ UNCHANGED <<run, call, died, faults, lost, built, tracing, procs, started, ret>>
    BY <1>1 DEF ParseArgs, Goto, Throw
  <2> QED
    BY <2>2, <2>3 DEF ExperimentInv, ExperimentTypes, BeforeStart, BuildInv, ProcsInv, OrphanOnlyIfDied,
       MeasuresWhatWasAsked
<1>2. CASE CheckArgs \/ SetCgroup
  <2>1. /\ at \in {"check", "cgroup"} /\ at' \in {"raised", "cgroup", "clean"}
        /\ UNCHANGED <<run, call, died, faults, lost, machine, ret>>
    BY <1>2 DEF CheckArgs, SetCgroup, Goto, Throw
  <2> QED
    BY <2>1 DEF ExperimentInv, ExperimentTypes, BeforeStart, BuildInv, ProcsInv, OrphanOnlyIfDied,
       OutputsKept, MeasuresWhatWasAsked, machine
<1> QED
  BY <1>1, <1>2

\* A command that fails ends the call and leaves everything else.
LEMMA FailStep ==
    ASSUME ExperimentInv, NEW l \in {"cgroup", "clean", "bundle", "exe", "data", "cache"}, CommandFails(l)
    PROVE  ExperimentInv'
<1>1. /\ at \in BeforeStart /\ at' = "raised" /\ faults' = faults + 1
      /\ UNCHANGED <<run, call, died, lost, machine, ret>>
  BY DEF CommandFails, Throw, BeforeStart
<1> QED
  BY <1>1 DEF ExperimentInv, ExperimentTypes, BeforeStart, BuildInv, ProcsInv, OrphanOnlyIfDied,
     OutputsKept, MeasuresWhatWasAsked, machine

\* rm -rf build/ and the checkout.
LEMMA CleanStep ==
    ASSUME ExperimentInv, CleanForBuild
    PROVE  ExperimentInv'
<1>1. /\ at = "clean" /\ at' = "bundle" /\ lostKills' = lostKills /\ bundle' = None /\ exe' = None
      /\ checkout' \in Branch /\ faults' \in Nat /\ lostCheckouts' \in Nat
      /\ lostCheckouts' = 0 => checkout' = call.branch
      /\ UNCHANGED <<run, call, died, data, tracing, procs, started, ret, results>>
  BY ExperimentConstants DEF CleanForBuild, Goto, AfterClean, ExperimentInv, ExperimentTypes
<1> QED
  BY <1>1 DEF ExperimentInv, ExperimentTypes, BeforeStart, BuildInv, ProcsInv, OrphanOnlyIfDied,
     OutputsKept, MeasuresWhatWasAsked

\* Bundle.cpp is made from the branch that is checked out.
LEMMA BundleStep ==
    ASSUME ExperimentInv, MakeBundle
    PROVE  ExperimentInv'
<1>1. /\ at = "bundle" /\ at' = "splice"
      /\ Has("veri") => bundle' = [branch |-> checkout, values |-> [c \in Constant |-> Default]]
      /\ UNCHANGED <<run, call, died, faults, lost, checkout, exe, data, tracing, procs, started,
                     ret, results>>
  BY DEF MakeBundle, Goto, ExperimentInv, BuildInv
<1> QED
  BY <1>1 DEF ExperimentInv, ExperimentTypes, BeforeStart, BuildInv, ProcsInv, OrphanOnlyIfDied,
     OutputsKept, MeasuresWhatWasAsked, Has

\* A fresh Bundle.cpp is a file.
LEMMA FreshBundle ==
    ASSUME ExperimentTypes
    PROVE  [branch |-> checkout, values |-> [c \in Constant |-> Default]] # None
  BY ExperimentConstants DEF ExperimentTypes, Bundles

\* Splicing gives the constants the values that were asked for.
LEMMA SpliceStep ==
    ASSUME ExperimentInv, SpliceValues
    PROVE  ExperimentInv'
<1>1. /\ at = "splice" /\ at' \in {"raised", "exe"}
      /\ at' = "exe" => /\ DOMAIN call.updates = {} \/ (Has("veri") /\ DOMAIN call.updates \subseteq Constant)
                        /\ bundle' = IF bundle = None THEN None ELSE [bundle EXCEPT !.values = Spliced(@)]
      /\ UNCHANGED <<run, call, died, faults, lost, checkout, exe, data, tracing, procs, started,
                     ret, results>>
  BY DEF SpliceValues, Goto, Throw
<1>2. ASSUME at' = "exe", Has("veri")
      PROVE  bundle' = [branch |-> checkout, values |-> AskedValues]
  <2>1. bundle = [branch |-> checkout, values |-> [c \in Constant |-> Default]] /\ bundle # None
    BY <1>1, <1>2, FreshBundle DEF ExperimentInv, BuildInv
  <2>2. bundle' = [bundle EXCEPT !.values = Spliced(bundle.values)]
    BY <1>1, <1>2, <2>1
  <2> QED
    BY <2>1, <2>2 DEF AskedValues
<1>3. BuildInv'
  BY <1>1, <1>2 DEF ExperimentInv, BuildInv, Has, AskedValues, Spliced, RightExe, MakeOptions, AskedOptions
<1> QED
  BY <1>1, <1>3 DEF ExperimentInv, ExperimentTypes, BeforeStart, ProcsInv, OrphanOnlyIfDied,
     OutputsKept, MeasuresWhatWasAsked

\* The executable is made from that source with the options of this call.
LEMMA ExeStep ==
    ASSUME ExperimentInv, MakeExe
    PROVE  ExperimentInv'
<1>1. /\ at = "exe" /\ at' = "data"
      /\ exe' = [source |-> Source, options |-> MakeOptions]
      /\ UNCHANGED <<run, call, died, faults, lost, checkout, bundle, data, tracing, procs, started,
                     ret, results>>
  BY DEF MakeExe, Goto, ExperimentInv, BuildInv
<1>2. Source = [branch |-> checkout, values |-> AskedValues]
  <2>1. CASE Has("veri")
    BY <1>1, <2>1 DEF ExperimentInv, BuildInv, Source
  <2>2. CASE ~Has("veri")
    <3>1. DOMAIN call.updates = {}
      BY <1>1, <2>2 DEF ExperimentInv, BuildInv
    <3>2. AskedValues = [c \in Constant |-> Default]
      BY <3>1 DEF AskedValues, Spliced
    <3> QED
      BY <2>2, <3>2 DEF Source
  <2> QED
    BY <2>1, <2>2
<1>3. RightExe(exe')
  BY <1>1, <1>2 DEF RightExe, ExperimentInv, BuildInv
<1>4. RightExe(exe)'
  BY <1>1, <1>3 DEF RightExe, AskedValues, Spliced, MakeOptions, AskedOptions, Has
<1>5. BuildInv'
  BY <1>1, <1>4 DEF ExperimentInv, BuildInv, Has
<1> QED
  BY <1>1, <1>5 DEF ExperimentInv, ExperimentTypes, BeforeStart, ProcsInv, OrphanOnlyIfDied,
     OutputsKept, MeasuresWhatWasAsked

\* killall signals every blktrace or none.
LEMMA KillTypes ==
    ASSUME ExperimentTypes, KillAll
    PROVE  /\ faults' \in Nat /\ (faults' = 0 => faults = 0)
           /\ lostKills' \in Nat /\ ending' \subseteq blktraces
<1>0. faults \in Nat /\ lostKills \in Nat /\ ending \subseteq blktraces
  BY DEF ExperimentTypes
<1>1. CASE Signals
  BY <1>0, <1>1 DEF Signals
<1>2. CASE KillFails
  <2>1. faults' = faults + 1 /\ lostKills' = lostKills + 1 /\ ending' = ending
    BY <1>2 DEF KillFails
  <2> QED
    BY <1>0, <2>1
<1> QED
  BY <1>1, <1>2 DEF KillAll

\* The data directory, the page cache and blktrace.
LEMMA PrepareStep ==
    ASSUME ExperimentInv, PrepareData \/ ClearPageCache \/ MakeBlktrace \/ StartBlktrace
    PROVE  ExperimentInv'
<1>0. ExperimentTypes /\ BuildInv
  BY DEF ExperimentInv
<1>1. /\ at \in {"data", "cache", "blktrace", "trace"} /\ at' \in {"cache", "blktrace", "trace", "start"}
      /\ UNCHANGED <<run, call, died, lostCheckouts, checkout, bundle, exe, procs, started, ret, results>>
  BY DEF PrepareData, ClearPageCache, MakeBlktrace, StartBlktrace, KillAll, Signals, KillFails, Goto
<1>2. faults' \in Nat /\ (faults' = 0 => data' = AskedData)
  <2>1. CASE PrepareData
    BY <1>0, <2>1 DEF PrepareData, Fault, ExperimentTypes, AskedData
  <2>2. CASE ClearPageCache \/ StartBlktrace
    BY <1>0, <2>2 DEF ClearPageCache, StartBlktrace, ExperimentTypes, BuildInv
  <2>3. CASE MakeBlktrace
    <3>1. data' = data /\ (faults = 0 => data = AskedData) /\ KillAll
      BY <1>0, <2>3 DEF MakeBlktrace, BuildInv
    <3> QED
      BY <1>0, <3>1, KillTypes
  <2> QED
    BY <2>1, <2>2, <2>3
<1>3. lostKills' \in Nat /\ blktraces' \subseteq 1 .. run /\ ending' \subseteq blktraces'
  <2>1. CASE PrepareData \/ ClearPageCache
    BY <1>0, <2>1 DEF PrepareData, ClearPageCache, ExperimentTypes
  <2>2. CASE MakeBlktrace
    BY <1>0, <2>2, KillTypes DEF MakeBlktrace, ExperimentTypes
  <2>3. CASE StartBlktrace
    BY <1>0, <2>3 DEF StartBlktrace, ExperimentTypes
  <2> QED
    BY <2>1, <2>2, <2>3
<1>4. RightExe(exe)'
  BY <1>1 DEF ExperimentInv, BuildInv, RightExe, AskedValues, Spliced, MakeOptions, AskedOptions, Has
<1>5. BuildInv'
  BY <1>1, <1>2, <1>4 DEF ExperimentInv, BuildInv, AskedData, Has
<1> QED
  BY <1>1, <1>2, <1>3, <1>5 DEF ExperimentInv, ExperimentTypes, BeforeStart, ProcsInv, OrphanOnlyIfDied,
     OutputsKept, MeasuresWhatWasAsked

\* The benchmark starts with what was built and prepared.
LEMMA StartStep ==
    ASSUME ExperimentInv, StartBenchmark
    PROVE  ExperimentInv'
<1>1. /\ at = "start" /\ at' = "wait" /\ procs' = procs \cup {run}
      /\ started' = [exe |-> exe, data |-> data]
      /\ UNCHANGED <<run, call, died, faults, lost, built, tracing, ret, results>>
  BY DEF StartBenchmark, Goto
<1>2. /\ RightExe(exe) /\ (faults = 0 => data = AskedData)
      /\ lostCheckouts = 0 => checkout = call.branch
  BY <1>1 DEF ExperimentInv, BuildInv
<1>3. exe.source.branch = checkout /\ exe.source.values = AskedValues /\ exe.options = MakeOptions
  BY <1>2 DEF RightExe
<1>4. \A c \in Constant : AskedValues[c] = IF c \in DOMAIN call.updates THEN call.updates[c] ELSE Default
  BY DEF AskedValues, Spliced
<1>5. ("WANT_O_DIRECT" \in MakeOptions) = Has("veriUseODirect")
  <2>1. "WANT_O_DIRECT" \in MakeOptions <=> Has("veriUseODirect")
    BY DEF MakeOptions, AskedOptions
  <2>2. Has("veriUseODirect") \in BOOLEAN /\ ("WANT_O_DIRECT" \in MakeOptions) \in BOOLEAN
    BY DEF Has
  <2> QED
    BY <2>1, <2>2
<1>6. MeasuresWhatWasAsked'
  BY <1>1, <1>2, <1>3, <1>4, <1>5 DEF MeasuresWhatWasAsked, RightExe, AskedData, Has
<1>7. procs' \subseteq 1 .. run
  BY <1>1 DEF ExperimentInv, ExperimentTypes
<1> QED
  BY <1>1, <1>6, <1>7 DEF ExperimentInv, ExperimentTypes, BeforeStart, BuildInv, ProcsInv, OrphanOnlyIfDied,
     OutputsKept

\* A benchmark of this or of an earlier call ends, well or not.
LEMMA EndStep ==
    ASSUME ExperimentInv, NEW r \in procs, BenchmarkEnds(r)
    PROVE  ExperimentInv'
<1>1. /\ procs' = procs \ {r} /\ faults' = faults + ret' - ret
      /\ ret' \in {0, 1} /\ (r # run => ret' = ret)
      /\ UNCHANGED <<run, call, at, died, lost, built, tracing, started, results>>
  BY DEF BenchmarkEnds, ExperimentInv, ExperimentTypes
<1>2. r = run => ret = 0 /\ at \notin BeforeStart
  BY DEF ExperimentInv, ProcsInv
<1>3. faults' \in Nat /\ faults' >= faults /\ (r # run => faults' = faults)
  <2>1. faults \in Nat /\ ret \in {0, 1}
    BY DEF ExperimentInv, ExperimentTypes
  <2>2. CASE r = run
    <3>1. ret = 0 /\ faults' = faults + ret' - ret
      BY <1>1, <1>2, <2>2
    <3>2. CASE ret' = 0
      BY <2>1, <2>2, <3>1, <3>2
    <3>3. CASE ret' = 1
      BY <2>1, <2>2, <3>1, <3>3
    <3> QED
      BY <1>1, <3>2, <3>3
  <2>3. CASE r # run
    BY <1>1, <2>1, <2>3
  <2> QED
    BY <2>2, <2>3
<1>4. BuildInv'
  BY <1>1, <1>2, <1>3 DEF ExperimentInv, ExperimentTypes, BuildInv, BeforeStart, RightExe, AskedValues,
     Spliced, MakeOptions, AskedOptions, AskedData, Has
<1>5. MeasuresWhatWasAsked'
  <2>1. faults' = 0 => faults = 0
    BY <1>3 DEF ExperimentInv, ExperimentTypes
  <2>2. MeasuresWhatWasAsked
    BY DEF ExperimentInv
  <2> QED
    BY <1>1, <2>1, <2>2, Zenon DEF MeasuresWhatWasAsked, Has
<1> QED
  BY <1>1, <1>2, <1>3, <1>4, <1>5 DEF ExperimentInv, ExperimentTypes, ProcsInv, OrphanOnlyIfDied, OutputsKept

\* The call ends, dies, or the next one begins; a blktrace ends.
LEMMA LeaveStep ==
    ASSUME ExperimentInv,
           StopBlktrace \/ WaitBlktrace \/ BudgetExpires \/ Interrupt \/ CallAgain
             \/ \E r \in blktraces : BlktraceEnds(r)
    PROVE  ExperimentInv'
<1>1. CASE StopBlktrace
  <2>1. /\ at = "wait" /\ run \notin procs /\ at' = "stop"
        /\ UNCHANGED <<run, call, died, lostCheckouts, checkout, blktraces, procs, ret, results>>
    BY <1>1 DEF StopBlktrace, Exited, Goto, KillAll, Signals, KillFails
  <2>2. faults' \in Nat /\ lostKills' \in Nat /\ ending' \subseteq blktraces
    BY <1>1, KillTypes DEF StopBlktrace, ExperimentInv
  <2> QED
    BY <2>1, <2>2 DEF ExperimentInv, ExperimentTypes, BeforeStart, BuildInv, ProcsInv, OrphanOnlyIfDied,
       OutputsKept, MeasuresWhatWasAsked
<1>2. CASE WaitBlktrace
  <2>1. /\ at = "stop" /\ at' \in {"done", "raised"}
        /\ UNCHANGED <<run, call, died, faults, lost, machine, ret>>
    BY <1>2 DEF WaitBlktrace, Goto, Throw
  <2> QED
    BY <2>1 DEF ExperimentInv, ExperimentTypes, BeforeStart, BuildInv, ProcsInv, OrphanOnlyIfDied,
       OutputsKept, MeasuresWhatWasAsked
<1>3. CASE BudgetExpires \/ Interrupt
  <2>1. /\ at' = "raised" /\ expired' \cup interrupted' = expired \cup interrupted \cup {run}
        /\ UNCHANGED <<run, call, faults, lost, machine, ret>>
    BY <1>3 DEF BudgetExpires, Interrupt
  <2> QED
    BY <2>1 DEF ExperimentInv, ExperimentTypes, BeforeStart, BuildInv, ProcsInv, OrphanOnlyIfDied,
       OutputsKept, MeasuresWhatWasAsked
<1>4. CASE CallAgain
  <2>1. /\ at \in {"done", "raised"} /\ run' = run + 1 /\ call' \in Calls /\ at' = "parse" /\ ret' = 0
        /\ UNCHANGED <<died, faults, lost, checkout, tracing, procs, results>>
    BY <1>4 DEF CallAgain
  <2>2. run \in Nat \ {0} /\ procs \subseteq 1 .. run /\ blktraces \subseteq 1 .. run
    BY DEF ExperimentInv, ExperimentTypes
  <2>3. run' \in Nat \ {0} /\ procs' \subseteq 1 .. run' /\ blktraces' \subseteq 1 .. run' /\ run' \notin procs'
    BY <2>1, <2>2
  <2> QED
    BY <2>1, <2>3 DEF ExperimentInv, ExperimentTypes, BeforeStart, BuildInv, ProcsInv, OrphanOnlyIfDied,
       OutputsKept, MeasuresWhatWasAsked
<1>5. ASSUME NEW r \in blktraces, BlktraceEnds(r) PROVE ExperimentInv'
  <2>1. /\ blktraces' = blktraces \ {r} /\ ending' = ending \ {r}
        /\ UNCHANGED <<run, call, at, died, faults, lost, built, procs, started, ret, results>>
    BY <1>5 DEF BlktraceEnds
  <2>2. BuildInv'
    BY <2>1 DEF ExperimentInv, BuildInv, RightExe, AskedValues, Spliced, MakeOptions, AskedOptions, AskedData, Has
  <2>3. MeasuresWhatWasAsked'
    BY <2>1 DEF ExperimentInv, MeasuresWhatWasAsked, Has
  <2> QED
    BY <2>1, <2>2, <2>3 DEF ExperimentInv, ExperimentTypes, ProcsInv, OrphanOnlyIfDied, OutputsKept
<1> QED
  BY <1>1, <1>2, <1>3, <1>4, <1>5

\* The two steps of MakeBlktrace and StopBlktrace that may leave a blktrace.
LEMMA KillStep ==
    ASSUME ExperimentTypes, TracesInv, KillAll, blktraces' = blktraces, IsFiniteSet(blktraces \ ending)
    PROVE  /\ Cardinality(blktraces' \ ending') <= lostKills'
           /\ lostKills' = 0 => blktraces' \subseteq ending'
           /\ lostKills' \in Nat
<1>1. CASE Signals
  <2>1. blktraces' \ ending' = {} /\ blktraces' \subseteq ending' /\ lostKills' = lostKills
    BY <1>1 DEF Signals
  <2> QED
    <3>1. Cardinality(blktraces' \ ending') = 0 /\ lostKills \in Nat
      BY <2>1, FS_EmptySet DEF ExperimentTypes
    <3> QED
      BY <2>1, <3>1
<1>2. CASE KillFails
  <2>1. lostKills' = lostKills + 1 /\ ending' = ending /\ blktraces' = blktraces /\ lostKills \in Nat
    BY <1>2 DEF KillFails, ExperimentTypes
  <2>2. Cardinality(blktraces \ ending) \in Nat /\ Cardinality(blktraces \ ending) <= 1 + lostKills
    <3>1. Cardinality(blktraces \ ending) \in Nat
      BY FS_CardinalityType
    <3> QED
      BY <3>1 DEF TracesInv
  <2>3. blktraces' \ ending' = blktraces \ ending
    BY <2>1
  <2> QED
    BY <2>1, <2>2, <2>3
<1> QED
  BY <1>1, <1>2 DEF KillAll

\* Only a killall that failed leaves more than one blktrace.
LEMMA TracesStep ==
    ASSUME ExperimentTypes, TracesInv, [ExperimentNext]_experimentVars
    PROVE  TracesInv'
<1>0. /\ lostKills \in Nat /\ IsFiniteSet(blktraces) /\ IsFiniteSet(blktraces \ ending)
      /\ Cardinality(blktraces \ ending) \in Nat
  <2>1. IsFiniteSet(1 .. run)
    BY FS_Interval DEF ExperimentTypes
  <2>2. blktraces \subseteq 1 .. run /\ blktraces \ ending \subseteq 1 .. run /\ lostKills \in Nat
    BY DEF ExperimentTypes
  <2>3. IsFiniteSet(blktraces) /\ IsFiniteSet(blktraces \ ending)
    BY <2>1, <2>2, FS_Subset
  <2> QED
    BY <2>2, <2>3, FS_CardinalityType
<1>1. CASE StartBlktrace
  <2>1. at = "trace" /\ at' = "start" /\ lostKills' = lostKills
    BY <1>1 DEF StartBlktrace, Goto, lost
  <2>2. blktraces' \ ending' \subseteq (blktraces \ ending) \cup {run}
    BY <1>1 DEF StartBlktrace
  <2>3. /\ IsFiniteSet((blktraces \ ending) \cup {run})
        /\ Cardinality((blktraces \ ending) \cup {run}) <= Cardinality(blktraces \ ending) + 1
        /\ Cardinality((blktraces \ ending) \cup {run}) \in Nat
    <3>1. /\ IsFiniteSet((blktraces \ ending) \cup {run})
          /\ Cardinality((blktraces \ ending) \cup {run})
               = IF run \in blktraces \ ending THEN Cardinality(blktraces \ ending)
                 ELSE Cardinality(blktraces \ ending) + 1
      BY <1>0, FS_AddElement
    <3> QED
      BY <1>0, <3>1
  <2>4. Cardinality(blktraces' \ ending') <= Cardinality((blktraces \ ending) \cup {run})
        /\ Cardinality(blktraces' \ ending') \in Nat
    <3>1. IsFiniteSet(blktraces' \ ending')
      BY <2>2, <2>3, FS_Subset
    <3> QED
      BY <2>2, <2>3, <3>1, FS_Subset, FS_CardinalityType
  <2> QED
    BY <1>0, <2>1, <2>3, <2>4 DEF TracesInv
<1>2. CASE MakeBlktrace \/ StopBlktrace
  <2>1. at' \in {"trace", "stop"} /\ KillAll /\ blktraces' = blktraces
    BY <1>2 DEF MakeBlktrace, StopBlktrace, Goto
  <2>2. ending' \subseteq blktraces'
    BY <2>1 DEF KillAll, Signals, KillFails, ExperimentTypes
  <2>3. /\ Cardinality(blktraces' \ ending') <= lostKills' /\ lostKills' \in Nat
        /\ lostKills' = 0 => blktraces' \subseteq ending'
    BY <1>0, <2>1, KillStep
  <2>4. Cardinality(blktraces' \ ending') \in Nat
    <3>1. IsFiniteSet(blktraces' \ ending')
      BY <1>0, <2>1, FS_Subset
    <3> QED
      BY <3>1, FS_CardinalityType
  <2> QED
    BY <2>1, <2>3, <2>4 DEF TracesInv
<1>3. ASSUME NEW r \in blktraces, BlktraceEnds(r) PROVE TracesInv'
  <2>1. blktraces' = blktraces \ {r} /\ ending' = ending \ {r} /\ UNCHANGED <<run, at, lostKills>>
    BY <1>3 DEF BlktraceEnds, lost
  <2>2. blktraces' \ ending' \subseteq blktraces \ ending /\ (blktraces \subseteq ending => blktraces' \subseteq ending')
    BY <2>1
  <2>3. Cardinality(blktraces' \ ending') <= Cardinality(blktraces \ ending) /\ Cardinality(blktraces' \ ending') \in Nat
    BY <1>0, <2>2, FS_Subset, FS_CardinalityType
  <2> QED
    BY <1>0, <2>1, <2>2, <2>3 DEF TracesInv
<1>4. CASE WaitBlktrace
  <2>1. /\ at = "stop" /\ at' \in {"done", "raised"} /\ run \notin blktraces
        /\ UNCHANGED <<run, lostKills, blktraces, ending>>
    BY <1>4 DEF WaitBlktrace, Goto, Throw, machine, tracing, lost
  <2> QED
    BY <2>1 DEF TracesInv
<1>5. CASE UNCHANGED <<blktraces, ending, lostKills>> /\ at' \notin {"trace", "stop", "done"}
  BY <1>5 DEF TracesInv
<1>6. CASE UNCHANGED <<blktraces, ending, lostKills, at, run>>
  BY <1>6 DEF TracesInv
<1>7. ASSUME ParseArgs \/ CheckArgs \/ SetCgroup \/ CleanForBuild \/ MakeBundle \/ SpliceValues \/ MakeExe
               \/ PrepareData \/ ClearPageCache \/ StartBenchmark \/ BudgetExpires \/ Interrupt \/ CallAgain
               \/ \E l \in {"cgroup", "clean", "bundle", "exe", "data", "cache"} : CommandFails(l)
      PROVE  UNCHANGED <<blktraces, ending, lostKills>> /\ at' \notin {"trace", "stop", "done"}
  BY <1>7 DEF ParseArgs, CheckArgs, SetCgroup, CleanForBuild, MakeBundle, SpliceValues, MakeExe, PrepareData,
     ClearPageCache, StartBenchmark, BudgetExpires, Interrupt, CallAgain, CommandFails, Goto, Throw,
     machine, tracing, lost
<1>8. CASE (\E r \in procs : BenchmarkEnds(r)) \/ UNCHANGED experimentVars
  BY <1>6, <1>8 DEF BenchmarkEnds, experimentVars, tracing, lost
<1> QED
  BY <1>1, <1>2, <1>3, <1>4, <1>5, <1>7, <1>8 DEF ExperimentNext, Script

\* The inductive invariant of the script, from call to call.
LEMMA ExperimentNextInv == ExperimentInv /\ [ExperimentNext]_experimentVars => ExperimentInv'
<1> SUFFICES ASSUME ExperimentInv, [ExperimentNext]_experimentVars PROVE ExperimentInv'
  OBVIOUS
<1>1. CASE UNCHANGED experimentVars
  BY <1>1 DEF experimentVars, ExperimentInv, ExperimentTypes, BuildInv, ProcsInv, OrphanOnlyIfDied, OutputsKept,
     MeasuresWhatWasAsked, RightExe, AskedValues, Spliced, MakeOptions, AskedOptions, AskedData, Has
<1> QED
  BY <1>1, ArgumentsStep, FailStep, CleanStep, BundleStep, SpliceStep, ExeStep, PrepareStep, StartStep,
     EndStep, LeaveStep DEF ExperimentNext, Script

\* What a benchmark measures is what its call asked for, in any sequence of calls and of failed
\* commands: run-veri-config-experiment.py leaves nothing of an earlier call in the build.
THEOREM AlwaysMeasuresWhatWasAsked == ExperimentSpec => []MeasuresWhatWasAsked
<1>1. ExperimentInv => MeasuresWhatWasAsked
  BY DEF ExperimentInv
<1> QED
  BY <1>1, ExperimentInitInv, ExperimentNextInv, PTL DEF ExperimentSpec

\* Calls of run-veri-config-experiment.py on one machine do not overwrite each other's output,
\* leave a blktrace running but after a failed killall, or a benchmark but after an expired budget
\* or an interrupt, however many calls there are.
THEOREM CallsNeverInterfere == ExperimentSpec => []CallsDoNotInterfere
<1>1. ExperimentInit => TracesInv
  BY FS_EmptySet DEF ExperimentInit, TracesInv
<1>2. ExperimentInv /\ TracesInv /\ [ExperimentNext]_experimentVars => TracesInv'
  BY TracesStep DEF ExperimentInv
<1>3. ExperimentInv /\ TracesInv => CallsDoNotInterfere
  BY DEF ExperimentInv, ProcsInv, TracesInv, OneBlktrace, CallsDoNotInterfere
<1> QED
  BY <1>1, <1>2, <1>3, ExperimentInitInv, ExperimentNextInv, PTL DEF ExperimentSpec

HIDE DEF Fault, lost, tracing, built, machine, died

----------------------------------------------------------------------------
(* The line counts *)

\* Where a count is while it uses its temporary directory.
Active == {"run_dafny", "clean", "sloccount"}

\* The types of the counts under way.
CountTypes ==
    /\ text \in Texts
    /\ step \in [SourceFile -> {"tmp_dir", "run_dafny", "clean", "sloccount", "done", "raised"}]
    /\ pass \in [SourceFile -> {"ghost", "real"}]
    /\ DOMAIN dir = SourceFile /\ \A f \in SourceFile : step[f] \in Active => dir[f] \in Dir
    /\ DOMAIN tmp = Dir /\ dataDirs \subseteq Dir
    /\ DOMAIN ghostSloc = SourceFile /\ DOMAIN lc = SourceFile

\* Some count is at work in a directory where sloccount has run already: it will raise.
Doomed == \E f \in SourceFile : step[f] \in Active /\ dir[f] \in dataDirs

\* The printed file of f, before and after it is cleaned.
PrintedBy(f, noise) ==
    [file |-> f, pass |-> pass[f],
     code |-> text[f].real + IF pass[f] = "ghost" THEN text[f].ghost ELSE 0, noise |-> noise]

\* A directory that sloccount has not seen holds what the counts at work there printed.
TmpOwned ==
    \A d \in Dir \ dataDirs : \A t \in tmp[d] :
        /\ t.file \in SourceFile /\ dir[t.file] = d
        /\ \/ step[t.file] = "clean" /\ t = PrintedBy(t.file, text[t.file].noise)
           \/ step[t.file] = "sloccount" /\ t = PrintedBy(t.file, 0)

\* Every count so far is right.
CountsRight ==
    \A f \in SourceFile :
        /\ step[f] = "done" => lc[f] = RightCount(f)
        /\ step[f] # "done" /\ pass[f] = "real"
              => f \notin Trusted /\ ghostSloc[f] = text[f].real + text[f].ghost

\* Until make fails or is bound to, the directories and the counts are right.
CountInv ==
    /\ CountTypes
    /\ (\E f \in SourceFile : step[f] = "raised") => failed
    /\ failed \/ Doomed \/ (TmpOwned /\ CountsRight)

\* Nothing has been printed or counted at first.
LEMMA CountInitInv == CountInit => CountInv
  BY DEF CountInit, CountInv, CountTypes, Active, TmpOwned, CountsRight

\* What was doomed is still doomed, or has failed.
LEMMA DoomedStays ==
    ASSUME CountInv, Doomed, ~failed,
           NEW f \in SourceFile,
           MakeTmpDir(f) \/ RunDafny(f) \/ CleanDafnyOutput(f) \/ RunSloccount(f) \/ SloccountRaises(f)
    PROVE  failed' \/ Doomed'
<1>1. PICK g \in SourceFile : step[g] \in Active /\ dir[g] \in dataDirs
  BY DEF Doomed
<1>2. g # f => step'[g] = step[g] /\ dir'[g] = dir[g]
  BY DEF MakeTmpDir, RunDafny, CleanDafnyOutput, RunSloccount, FirstPass, LastPass, SloccountRaises,
     CountInv, CountTypes
<1>3. dataDirs \subseteq dataDirs'
  BY DEF MakeTmpDir, RunDafny, CleanDafnyOutput, RunSloccount, SloccountRaises
<1>4. CASE g # f
  BY <1>1, <1>2, <1>3, <1>4 DEF Doomed
<1>5. CASE g = f
  <2>1. CASE RunDafny(f) \/ CleanDafnyOutput(f)
    <3>1. step'[f] \in Active /\ dir' = dir
      BY <2>1 DEF RunDafny, CleanDafnyOutput, Active, CountInv, CountTypes
    <3> QED
      BY <1>1, <1>3, <1>5, <3>1 DEF Doomed
  <2>2. CASE SloccountRaises(f)
    BY <2>2 DEF SloccountRaises
  <2>3. ~MakeTmpDir(f) /\ ~RunSloccount(f)
    BY <1>1, <1>5 DEF MakeTmpDir, RunSloccount, DataDirFree, Active
  <2> QED
    BY <2>1, <2>2, <2>3
<1> QED
  BY <1>4, <1>5

\* The steps of one count keep the types.
LEMMA CountTypesStep ==
    ASSUME CountInv, NEW f \in SourceFile,
           MakeTmpDir(f) \/ RunDafny(f) \/ CleanDafnyOutput(f) \/ RunSloccount(f) \/ SloccountRaises(f)
    PROVE  /\ CountTypes'
           /\ (\E g \in SourceFile : step'[g] = "raised") => failed'
<1> USE DEF CountInv, CountTypes, Active
<1>1. CASE MakeTmpDir(f)
  BY <1>1 DEF MakeTmpDir, input
<1>2. CASE RunDafny(f)
  BY <1>2 DEF RunDafny, input
<1>3. CASE CleanDafnyOutput(f)
  BY <1>3 DEF CleanDafnyOutput, input
<1>4. CASE RunSloccount(f)
  <2>1. step[f] = "sloccount" /\ dataDirs' = dataDirs \cup {dir[f]} /\ UNCHANGED <<input, dir, tmp, failed>>
    BY <1>4 DEF RunSloccount
  <2>2. \E sloc \in SlocCounts(f) : FirstPass(f, sloc) \/ LastPass(f, sloc)
    BY <1>4 DEF RunSloccount
  <2> QED
    BY <2>1, <2>2 DEF FirstPass, LastPass, input
<1>5. CASE SloccountRaises(f)
  BY <1>5 DEF SloccountRaises, input
<1> QED
  BY <1>1, <1>2, <1>3, <1>4, <1>5

\* A new directory: the count starts over there.
LEMMA TmpDirStep ==
    ASSUME CountInv, TmpOwned, CountsRight, NEW f \in SourceFile, MakeTmpDir(f)
    PROVE  TmpOwned' /\ CountsRight'
<1>1. /\ step[f] = "tmp_dir" /\ step' = [step EXCEPT ![f] = "run_dafny"]
      /\ \A g \in SourceFile : g # f => dir'[g] = dir[g]
      /\ UNCHANGED <<input, pass, tmp, dataDirs, ghostSloc, lc>>
  BY DEF MakeTmpDir, CountInv, CountTypes
<1>2. \A g \in SourceFile : g # f => step'[g] = step[g]
  BY <1>1 DEF CountInv, CountTypes
<1>3. step'[f] = "run_dafny"
  BY <1>1 DEF CountInv, CountTypes
<1>4. CountsRight'
  BY <1>1, <1>2, <1>3 DEF CountsRight, RightCount, input
<1>5. TmpOwned'
  BY <1>1, <1>2 DEF TmpOwned, PrintedBy, input
<1> QED
  BY <1>4, <1>5

\* Dafny prints into the directory; nobody is doomed, so it is a fresh one.
LEMMA DafnyStep ==
    ASSUME CountInv, TmpOwned, CountsRight, NEW f \in SourceFile, RunDafny(f)
    PROVE  TmpOwned' /\ CountsRight'
<1>1. /\ step[f] = "run_dafny" /\ step' = [step EXCEPT ![f] = "clean"] /\ dir[f] \in Dir
      /\ tmp' = [tmp EXCEPT ![dir[f]] = {t \in tmp[dir[f]] : t.file # f \/ t.pass # pass[f]} \cup {Printed(f)}]
      /\ UNCHANGED <<input, pass, dir, dataDirs, ghostSloc, lc>>
  BY DEF RunDafny, CountInv, CountTypes, Active
<1>2. step'[f] = "clean" /\ \A g \in SourceFile : g # f => step'[g] = step[g]
  BY <1>1 DEF CountInv, CountTypes
<1>3. CountsRight'
  BY <1>1, <1>2 DEF CountsRight, RightCount, input
<1>4. ASSUME NEW d \in Dir \ dataDirs, NEW t \in tmp'[d]
      PROVE  /\ t.file \in SourceFile /\ dir[t.file] = d
             /\ \/ step'[t.file] = "clean" /\ t = PrintedBy(t.file, text[t.file].noise)
                \/ step'[t.file] = "sloccount" /\ t = PrintedBy(t.file, 0)
  <2>1. CASE t \in tmp[d]
    BY <1>1, <1>2, <1>4, <2>1 DEF TmpOwned
  <2>2. CASE t \notin tmp[d]
    <3>1. d = dir[f] /\ t = Printed(f)
      BY <1>1, <1>4, <2>2 DEF CountInv, CountTypes
    <3> QED
      BY <1>2, <3>1 DEF Printed, PrintedBy
  <2> QED
    BY <2>1, <2>2
<1>5. TmpOwned'
  BY <1>1, <1>4 DEF TmpOwned, PrintedBy, input
<1> QED
  BY <1>3, <1>5

\* Cleaning strips the noise of this count's file.
LEMMA CleanedStep ==
    ASSUME CountInv, TmpOwned, CountsRight, NEW f \in SourceFile, CleanDafnyOutput(f)
    PROVE  TmpOwned' /\ CountsRight'
<1>1. /\ step[f] = "clean" /\ step' = [step EXCEPT ![f] = "sloccount"] /\ dir[f] \in Dir
      /\ tmp' = [tmp EXCEPT ![dir[f]] = {IF t.file = f /\ t.pass = pass[f] THEN [t EXCEPT !.noise = 0] ELSE t
                                            : t \in tmp[dir[f]]}]
      /\ UNCHANGED <<input, pass, dir, dataDirs, ghostSloc, lc>>
  BY DEF CleanDafnyOutput, CountInv, CountTypes, Active
<1>2. step'[f] = "sloccount" /\ \A g \in SourceFile : g # f => step'[g] = step[g]
  BY <1>1 DEF CountInv, CountTypes
<1>3. CountsRight'
  BY <1>1, <1>2 DEF CountsRight, RightCount, input
<1>4. ASSUME NEW d \in Dir \ dataDirs, NEW t \in tmp'[d]
      PROVE  /\ t.file \in SourceFile /\ dir[t.file] = d
             /\ \/ step'[t.file] = "clean" /\ t = PrintedBy(t.file, text[t.file].noise)
                \/ step'[t.file] = "sloccount" /\ t = PrintedBy(t.file, 0)
  <2>1. CASE d # dir[f]
    <3>1. t \in tmp[d]
      BY <1>1, <1>4, <2>1 DEF CountInv, CountTypes
    <3> QED
      BY <1>2, <2>1, <3>1 DEF TmpOwned
  <2>2. CASE d = dir[f]
    <3>1. PICK u \in tmp[d] : t = IF u.file = f /\ u.pass = pass[f] THEN [u EXCEPT !.noise = 0] ELSE u
      BY <1>1, <1>4, <2>2 DEF CountInv, CountTypes
    <3>2. /\ u.file \in SourceFile /\ dir[u.file] = d
          /\ \/ step[u.file] = "clean" /\ u = PrintedBy(u.file, text[u.file].noise)
             \/ step[u.file] = "sloccount" /\ u = PrintedBy(u.file, 0)
      BY DEF TmpOwned
    <3>3. CASE u.file = f
      <4>1. u = PrintedBy(f, text[f].noise) /\ u.pass = pass[f]
        BY <1>1, <3>2, <3>3 DEF PrintedBy
      <4>2. t = PrintedBy(f, 0)
        BY <3>1, <3>3, <4>1 DEF PrintedBy
      <4> QED
        BY <1>2, <2>2, <4>2 DEF PrintedBy
    <3>4. CASE u.file # f
      BY <1>2, <3>1, <3>2, <3>4
    <3> QED
      BY <3>3, <3>4
  <2> QED
    BY <2>1, <2>2
<1>5. TmpOwned'
  BY <1>1, <1>4 DEF TmpOwned, PrintedBy, input
<1> QED
  BY <1>3, <1>5

\* sloccount runs once in a directory: the count is right, or another count is at work there
\* and will raise.
LEMMA SloccountStep ==
    ASSUME CountInv, TmpOwned, CountsRight, ~Doomed, NEW f \in SourceFile, RunSloccount(f)
    PROVE  Doomed' \/ (TmpOwned' /\ CountsRight')
<1>1. /\ step[f] = "sloccount" /\ dir[f] \in Dir /\ dir[f] \notin dataDirs
      /\ dataDirs' = dataDirs \cup {dir[f]} /\ UNCHANGED <<input, dir, tmp>>
  BY DEF RunSloccount, DataDirFree, CountInv, CountTypes, Active
<1>2. PICK sloc \in SlocCounts(f) : FirstPass(f, sloc) \/ LastPass(f, sloc)
  BY DEF RunSloccount
<1>3. \A g \in SourceFile : g # f => /\ step'[g] = step[g] /\ pass'[g] = pass[g]
                                     /\ ghostSloc'[g] = ghostSloc[g] /\ lc'[g] = lc[g]
  BY <1>2 DEF FirstPass, LastPass, CountInv, CountTypes
<1>4. CASE \E g \in SourceFile : g # f /\ step[g] \in Active /\ dir[g] = dir[f]
  BY <1>1, <1>3, <1>4 DEF Doomed
<1>5. CASE ~\E g \in SourceFile : g # f /\ step[g] \in Active /\ dir[g] = dir[f]
  <2>1. \A t \in tmp[dir[f]] : t = PrintedBy(f, 0)
    BY <1>1, <1>5 DEF TmpOwned, Active
  <2>2. text[f].real \in Nat /\ text[f].ghost \in Nat
    BY LineCountConstants DEF CountInv, CountTypes
  <2>3. sloc = text[f].real + IF pass[f] = "ghost" THEN text[f].ghost ELSE 0
    <3>1. PICK t \in tmp[dir[f]] : sloc = t.code + t.noise
      BY <1>2 DEF SlocCounts
    <3>2. /\ t.code = text[f].real + IF pass[f] = "ghost" THEN text[f].ghost ELSE 0
          /\ t.noise = 0
      BY <2>1 DEF PrintedBy
    <3> QED
      BY <2>2, <3>1, <3>2
  <2>4. /\ step'[f] = "done" => lc'[f] = RightCount(f)
        /\ step'[f] # "done" /\ pass'[f] = "real"
              => f \notin Trusted /\ ghostSloc'[f] = text[f].real + text[f].ghost
    <3>1. CASE FirstPass(f, sloc)
      BY <2>3, <3>1 DEF FirstPass, CountInv, CountTypes
    <3>2. CASE LastPass(f, sloc)
      <4>1. step'[f] = "done"
        BY <3>2 DEF LastPass, CountInv, CountTypes
      <4>2. lc'[f] = IF f \in Trusted THEN Count(sloc, 0, 0, text[f].time)
                     ELSE Count(0, sloc, ghostSloc[f] - sloc, text[f].time)
        BY <3>2 DEF LastPass, CountInv, CountTypes
      <4>3. CASE f \in Trusted
        <5>1. pass[f] = "ghost"
          BY <1>1, <4>3 DEF CountsRight, CountInv, CountTypes
        <5> QED
          BY <2>3, <4>1, <4>2, <4>3, <5>1 DEF RightCount
      <4>4. CASE f \notin Trusted
        <5>1. pass[f] = "real" /\ ghostSloc[f] = text[f].real + text[f].ghost
          BY <1>1, <3>2, <4>4 DEF LastPass, CountsRight
        <5>2. sloc = text[f].real /\ ghostSloc[f] - sloc = text[f].ghost
          BY <2>2, <2>3, <5>1
        <5> QED
          BY <4>1, <4>2, <4>4, <5>2 DEF RightCount
      <4> QED
        BY <4>3, <4>4
    <3> QED
      BY <1>2, <3>1, <3>2
  <2>5. CountsRight'
    BY <1>1, <1>3, <2>4 DEF CountsRight, RightCount, input
  <2>6. ASSUME NEW d \in Dir \ dataDirs', NEW t \in tmp[d]
        PROVE  /\ t.file \in SourceFile /\ t.file # f /\ dir[t.file] = d
               /\ \/ step[t.file] = "clean" /\ t = PrintedBy(t.file, text[t.file].noise)
                  \/ step[t.file] = "sloccount" /\ t = PrintedBy(t.file, 0)
    BY <1>1, <2>6 DEF TmpOwned
  <2>7. TmpOwned'
    BY <1>1, <1>3, <2>6 DEF TmpOwned, PrintedBy, input
  <2> QED
    BY <2>5, <2>7
<1> QED
  BY <1>4, <1>5

\* The inductive invariant of the counts.
LEMMA CountNextInv == CountInv /\ [CountNext]_countVars => CountInv'
<1> SUFFICES ASSUME CountInv, [CountNext]_countVars PROVE CountInv'
  OBVIOUS
<1>1. ASSUME NEW f \in SourceFile,
             MakeTmpDir(f) \/ RunDafny(f) \/ CleanDafnyOutput(f) \/ RunSloccount(f) \/ SloccountRaises(f)
      PROVE  CountInv'
  <2>1. /\ CountTypes'
        /\ (\E g \in SourceFile : step'[g] = "raised") => failed'
    BY <1>1, CountTypesStep
  <2>2. failed => failed'
    BY <1>1 DEF MakeTmpDir, RunDafny, CleanDafnyOutput, RunSloccount, SloccountRaises
  <2>3. SloccountRaises(f) => failed'
    BY DEF SloccountRaises
  <2>4. failed' \/ Doomed' \/ (TmpOwned' /\ CountsRight')
    BY <1>1, <2>2, <2>3, DoomedStays, TmpDirStep, DafnyStep, CleanedStep, SloccountStep DEF CountInv
  <2> QED
    BY <2>1, <2>4 DEF CountInv
<1>2. CASE MakeAgain
  <2>1. failed /\ failed' = failed
    BY <1>2 DEF MakeAgain, CountInv
  <2>2. CountTypes'
    BY <1>2 DEF MakeAgain, CountInv, CountTypes, Active, input
  <2> QED
    BY <2>1, <2>2 DEF CountInv
<1>3. CASE UNCHANGED counting
  BY <1>3 DEF counting, input, CountInv, CountTypes, Doomed, TmpOwned, CountsRight, PrintedBy, RightCount
<1> QED
  BY <1>1, <1>2, <1>3 DEF CountNext, countVars, StartReport, SkipIgnored, Accumulate, AssertFails, AddFails,
     ReportRaises, FinishAccumulate, Highlights

\* When make has counted every file without a failure, all counts are right, however many
\* counts drew the same temporary directory (line_count_lib.py).
THEOREM WrongCountsAlwaysFail == CountSpec => []WrongCountMeansFailure
<1>1. CountInv => WrongCountMeansFailure
  BY DEF CountInv, WrongCountMeansFailure, Doomed, Active, CountsRight
<1> QED
  BY <1>1, CountInitInv, CountNextInv, PTL DEF CountSpec

----------------------------------------------------------------------------
(* Sums over finite sets *)

\* Induction over the natural numbers, for the set of numbers with a property.
LEMMA NumberInduction ==
    ASSUME NEW S, 0 \in S, \A n \in Nat : n \in S => n + 1 \in S
    PROVE  Nat \subseteq S
<1> SUFFICES ASSUME Nat \ S # {} PROVE FALSE
  OBVIOUS
<1>1. PICK x \in Nat \ S : \A y \in Nat \ S : ~ (<<y, x>> \in OpToRel(<, Nat))
  BY NatLessThanWellFounded, WFMin
<1>2. \A y \in Nat \ S : ~ (y < x)
  BY <1>1 DEF OpToRel
<1>3. x # 0 /\ x - 1 \in Nat /\ x - 1 < x
  OBVIOUS
<1>4. x - 1 \in S
  BY <1>2, <1>3
<1>5. (x - 1) + 1 \in S
  BY <1>3, <1>4
<1> QED
  BY <1>5

\* The element that the sum over s takes first, and the recursion of MapThenSumSet.
Pick(s) == CHOOSE x \in s : TRUE
\* g gives the sums of F over the subsets of S, element by element.
IsSetSum(g, F, S) ==
    g = [s \in SUBSET S |-> IF s = {} THEN 0 ELSE F[Pick(s)] + g[s \ {Pick(s)}]]

\* v is the sum of F over S.
SumIs(F, S, v) == \E g : IsSetSum(g, F, S) /\ v = g[S]

\* Taking an element out of a finite set.
LEMMA PickOut ==
    ASSUME NEW S, IsFiniteSet(S), S # {}
    PROVE  /\ Pick(S) \in S
           /\ IsFiniteSet(S \ {Pick(S)})
           /\ Cardinality(S) \in Nat \ {0}
           /\ Cardinality(S \ {Pick(S)}) = Cardinality(S) - 1
<1>1. Pick(S) \in S
  BY DEF Pick
<1>2. Cardinality(S) \in Nat /\ Cardinality(S) # 0
  BY FS_CardinalityType, FS_EmptySet
<1> QED
  BY <1>1, <1>2, FS_RemoveElement

\* Induction over the subsets of a finite set, by taking elements out.
LEMMA SubsetInduction ==
    ASSUME NEW S, IsFiniteSet(S), NEW P, {} \in P,
           \A s \in SUBSET S : s # {} /\ s \ {Pick(s)} \in P => s \in P
    PROVE  SUBSET S \subseteq P
<1> DEFINE N == {n \in Nat : \A s \in SUBSET S : Cardinality(s) = n => s \in P}
<1>1. \A s \in SUBSET S : IsFiniteSet(s) /\ Cardinality(s) \in Nat
  BY FS_Subset, FS_CardinalityType
<1>2. 0 \in N
  BY <1>1, FS_EmptySet
<1>3. ASSUME NEW n \in Nat, n \in N PROVE n + 1 \in N
  <2> SUFFICES ASSUME NEW s \in SUBSET S, Cardinality(s) = n + 1 PROVE s \in P
    OBVIOUS
  <2>1. s # {}
    BY FS_EmptySet
  <2>2. Cardinality(s \ {Pick(s)}) = n /\ s \ {Pick(s)} \in SUBSET S
    BY <1>1, <2>1, PickOut
  <2> QED
    BY <1>3, <2>1, <2>2
<1> HIDE DEF N
<1>4. Nat \subseteq N
  BY <1>2, <1>3, NumberInduction
<1> QED
  BY <1>1, <1>4 DEF N

\* A sum over a set takes its elements one by one.
LEMMA SetSumValue ==
    ASSUME NEW g, NEW F, NEW S, IsSetSum(g, F, S), IsFiniteSet(S)
    PROVE  /\ g[{}] = 0
           /\ \A s \in SUBSET S : s # {} => /\ g[s] = F[Pick(s)] + g[s \ {Pick(s)}]
                                            /\ Pick(s) \in s /\ s \ {Pick(s)} \in SUBSET S
<1>1. \A s \in SUBSET S : g[s] = IF s = {} THEN 0 ELSE F[Pick(s)] + g[s \ {Pick(s)}]
  BY DEF IsSetSum
<1>2. \A s \in SUBSET S : s # {} => Pick(s) \in s
  BY DEF Pick
<1> QED
  BY <1>1, <1>2

\* There is a sum over every finite set.
LEMMA SetSumExists ==
    ASSUME NEW F, NEW S, IsFiniteSet(S)
    PROVE  \E g : IsSetSum(g, F, S)
<1> DEFINE Upto(n) == {s \in SUBSET S : Cardinality(s) <= n}
           Good(g, n) == \A s \in Upto(n) : g[s] = IF s = {} THEN 0 ELSE F[Pick(s)] + g[s \ {Pick(s)}]
           N == {n \in Nat : \E g : Good(g, n)}
<1>1. \A s \in SUBSET S : IsFiniteSet(s) /\ Cardinality(s) \in Nat /\ Cardinality(s) <= Cardinality(S)
  BY FS_Subset, FS_CardinalityType
<1>2. 0 \in N
  <2> DEFINE g == [s \in SUBSET S |-> 0]
  <2>1. \A s \in Upto(0) : s = {}
    BY <1>1, FS_EmptySet
  <2>2. Good(g, 0)
    BY <2>1
  <2> QED
    BY <2>2
<1>3. ASSUME NEW n \in Nat, n \in N PROVE n + 1 \in N
  <2>1. PICK g : Good(g, n)
    BY <1>3
  <2> DEFINE h == [s \in SUBSET S |-> IF Cardinality(s) <= n THEN g[s] ELSE F[Pick(s)] + g[s \ {Pick(s)}]]
  <2>2. ASSUME NEW s \in Upto(n + 1)
        PROVE  h[s] = IF s = {} THEN 0 ELSE F[Pick(s)] + h[s \ {Pick(s)}]
    <3>1. s \in SUBSET S /\ Cardinality(s) \in Nat /\ Cardinality(s) <= n + 1
      BY <1>1, <2>2
    <3>2. CASE s = {}
      <4>1. Cardinality(s) = 0 /\ s \in Upto(n)
        BY <3>1, <3>2, FS_EmptySet
      <4>2. g[s] = 0
        BY <2>1, <3>2, <4>1
      <4>3. Cardinality(s) <= n
        BY <4>1
      <4> QED
        BY <3>1, <3>2, <4>2, <4>3
    <3>3. CASE s # {}
      <4>1. s \ {Pick(s)} \in SUBSET S /\ Cardinality(s \ {Pick(s)}) <= n
        BY <1>1, <3>1, <3>3, PickOut
      <4>2. h[s \ {Pick(s)}] = g[s \ {Pick(s)}]
        BY <4>1
      <4>3. CASE Cardinality(s) <= n
        BY <2>1, <3>1, <3>3, <4>2, <4>3
      <4>4. CASE ~(Cardinality(s) <= n)
        BY <3>1, <3>3, <4>2, <4>4
      <4> QED
        BY <4>3, <4>4
    <3> QED
      BY <3>2, <3>3
  <2> HIDE DEF h, Upto
  <2>3. Good(h, n + 1)
    BY <2>2
  <2>4. n + 1 \in Nat
    OBVIOUS
  <2> QED
    BY <2>3, <2>4
<1>4. Nat \subseteq N
  <2> HIDE DEF N
  <2> QED
    BY <1>2, <1>3, NumberInduction
<1>5. Cardinality(S) \in N
  BY <1>4, FS_CardinalityType
<1>6. PICK g : Good(g, Cardinality(S))
  BY <1>5
<1> DEFINE h == [s \in SUBSET S |-> g[s]]
<1>7. \A s \in SUBSET S : h[s] = IF s = {} THEN 0 ELSE F[Pick(s)] + h[s \ {Pick(s)}]
  BY <1>1, <1>6
<1>8. IsSetSum(h, F, S)
  BY <1>7 DEF IsSetSum
<1> QED
  BY <1>8

\* There is only one.
LEMMA SumUniqueness ==
    ASSUME NEW F, NEW S, IsFiniteSet(S), NEW v, NEW w, SumIs(F, S, v), SumIs(F, S, w)
    PROVE  v = w
<1>1. PICK g : IsSetSum(g, F, S) /\ v = g[S]
  BY DEF SumIs
<1>2. PICK h : IsSetSum(h, F, S) /\ w = h[S]
  BY DEF SumIs
<1> DEFINE P == {s \in SUBSET S : g[s] = h[s]}
<1>3. {} \in P
  BY <1>1, <1>2, SetSumValue
<1>4. \A s \in SUBSET S : s # {} /\ s \ {Pick(s)} \in P => s \in P
  BY <1>1, <1>2, SetSumValue
<1> HIDE DEF P
<1>5. SUBSET S \subseteq P
  BY <1>3, <1>4, SubsetInduction
<1> QED
  BY <1>1, <1>2, <1>5 DEF P

\* Sums of integers are integers, and a sum of zeros is zero.
LEMMA SumInt ==
    ASSUME NEW S, IsFiniteSet(S), NEW F \in [S -> Int], NEW g, IsSetSum(g, F, S)
    PROVE  \A s \in SUBSET S : g[s] \in Int
<1> DEFINE P == {s \in SUBSET S : g[s] \in Int}
<1>1. {} \in P
  BY SetSumValue
<1>2. \A s \in SUBSET S : s # {} /\ s \ {Pick(s)} \in P => s \in P
  BY SetSumValue
<1> HIDE DEF P
<1>3. SUBSET S \subseteq P
  BY <1>1, <1>2, SubsetInduction
<1> QED
  BY <1>3 DEF P

\* A sum of zeros is zero.
LEMMA SumOfZeros ==
    ASSUME NEW S, IsFiniteSet(S), NEW F, \A x \in S : F[x] = 0
    PROVE  SumIs(F, S, 0)
<1>1. PICK g : IsSetSum(g, F, S)
  BY SetSumExists
<1> DEFINE P == {s \in SUBSET S : g[s] = 0}
<1>2. {} \in P
  BY <1>1, SetSumValue
<1>3. \A s \in SUBSET S : s # {} /\ s \ {Pick(s)} \in P => s \in P
  BY <1>1, SetSumValue
<1> HIDE DEF P
<1>4. SUBSET S \subseteq P
  BY <1>2, <1>3, SubsetInduction
<1> QED
  BY <1>1, <1>4 DEF P, SumIs

\* Adding d to one number adds d to the sum.
LEMMA SumAdd ==
    ASSUME NEW S, IsFiniteSet(S), NEW F \in [S -> Int], NEW G \in [S -> Int], NEW x \in S, NEW d \in Int,
           \A y \in S : G[y] = IF y = x THEN F[x] + d ELSE F[y],
           NEW v, SumIs(F, S, v)
    PROVE  v \in Int /\ SumIs(G, S, v + d)
<1>1. PICK g : IsSetSum(g, F, S) /\ v = g[S]
  BY DEF SumIs
<1>2. PICK h : IsSetSum(h, G, S)
  BY SetSumExists
<1>3. \A s \in SUBSET S : g[s] \in Int /\ h[s] \in Int
  BY <1>1, <1>2, SumInt
<1> DEFINE P == {s \in SUBSET S : h[s] = IF x \in s THEN g[s] + d ELSE g[s]}
<1>4. {} \in P
  BY <1>1, <1>2, SetSumValue
<1>5. ASSUME NEW s \in SUBSET S, s # {}, s \ {Pick(s)} \in P
      PROVE  s \in P
  <2> DEFINE p == Pick(s)
             q == s \ {Pick(s)}
  <2>1. /\ g[s] = F[p] + g[q] /\ h[s] = G[p] + h[q] /\ p \in s /\ q \in SUBSET S /\ p \in S
    BY <1>1, <1>2, <1>5, SetSumValue
  <2>2. h[q] = IF x \in q THEN g[q] + d ELSE g[q]
    BY <1>5
  <2>3. x \in q <=> x \in s /\ x # p
    OBVIOUS
  <2>4. G[p] = IF p = x THEN F[x] + d ELSE F[p]
    BY <2>1
  <2>5. g[q] \in Int /\ h[q] \in Int /\ F[p] \in Int /\ F[x] \in Int /\ G[p] \in Int
    BY <1>3, <2>1
  <2> HIDE DEF p, q
  <2>6. h[s] = IF x \in s THEN g[s] + d ELSE g[s]
    <3>1. CASE x = p
      BY <2>1, <2>2, <2>3, <2>4, <2>5, <3>1
    <3>2. CASE x # p /\ x \in s
      BY <2>1, <2>2, <2>3, <2>4, <2>5, <3>2
    <3>3. CASE x # p /\ x \notin s
      BY <2>1, <2>2, <2>3, <2>4, <2>5, <3>3
    <3> QED
      BY <3>1, <3>2, <3>3
  <2> QED
    BY <2>6
<1> HIDE DEF P
<1>6. SUBSET S \subseteq P
  BY <1>4, <1>5, SubsetInduction
<1>7. h[S] = g[S] + d
  BY <1>6 DEF P
<1> QED
  BY <1>1, <1>2, <1>3, <1>7 DEF SumIs

----------------------------------------------------------------------------
(* The report *)

\* A verification time, or none when the file was not verified.
Times == Nat \cup {NoTime}
\* The lines of the report.
CounterKeys == Row \cup {"total", "unmapped"}
\* What a line of the report holds.
Counters == [spec : Int, impl : Int, proof : Int, time : Times, has : {"nothing", "report", "impl"}]

\* The counts are numbers.
NumbersOK ==
    /\ \A d \in Dir : \A t \in tmp[d] : t.code \in Nat /\ t.noise \in Nat
    /\ \A f \in SourceFile : ghostSloc[f] \in Nat
    /\ \A f \in SourceFile : step[f] = "done" => /\ lc[f] \in [spec : Nat, impl : Nat, proof : Int, time : Times]
                                                 /\ lc[f].time = text[f].time

\* The types of the report.
ReportTypes ==
    /\ attempts \in 1 .. MaxAttempts
    /\ rpc \in {"waiting", "accumulate", "highlights", "done", "raised"}
    /\ reportError \in {"none", "AssertionError", "TypeError"} /\ (rpc = "raised" <=> reportError # "none")
    /\ counters \in [CounterKeys -> Counters]

\* How far the traversal of the reports is.
Traversal ==
    /\ rpc = "waiting" => order = <<>> /\ position = 1
    /\ rpc # "waiting" => /\ \A f \in SourceFile : step[f] = "done"
                          /\ order \in Orders /\ position \in 1 .. Cardinality(SourceFile) + 1
    /\ rpc \in {"highlights", "done"} => position = Cardinality(SourceFile) + 1

\* The files that accumulate has added, and the ones that some line counts.
Seen(f) == \E n \in 1 .. position - 1 : order[n] = f
Counted == {f \in SourceFile : Keys(f) # {}}

\* One field of every row, and of every file added so far.
RowValues(field) == [r \in Row |-> counters[r][field]]
FileValues(field) == [f \in Counted |-> IF Seen(f) THEN lc[f][field] ELSE 0]

\* The total line is the sum of the rows, and of the files seen so far.
RunningSums ==
    \A field \in Fields :
        /\ SumIs(RowValues(field), Row, counters["total"][field])
        /\ SumIs(FileValues(field), Counted, counters["total"][field])

\* A file whose impl lines go to the row has been seen, and a file of the row itself.
Billed(key) ==
    \E a \in 1 .. position - 1 : \E from \in DOMAIN ImplMap : Keys(order[a]) = {from} /\ ImplMap[from] = key
OwnSeen(key) == \E c \in 1 .. position - 1 : Keys(order[c]) = {key}

\* Why a counter has no time, or holds impl lines alone.
CountersExplained ==
    /\ counters["total"].has # "impl" /\ counters["unmapped"].has = "nothing"
    /\ \A key \in Row : /\ counters[key].has = "impl" => Billed(key)
                        /\ counters[key].has # "report" => ~OwnSeen(key)
    /\ (\A f \in SourceFile : text[f].time # NoTime) => \A key \in CounterKeys : counters[key].time # NoTime

\* What the report preserves besides the counts.
ReportInv ==
    /\ NumbersOK /\ ReportTypes /\ Traversal /\ RunningSums /\ CountersExplained /\ FailuresExplained

\* A field of a counter is a number.
LEMMA FieldOfCount ==
    ASSUME NEW field \in Fields, NEW c \in Counters
    PROVE  c[field] \in Int
  BY DEF Fields, Counters

\* At first every sum is zero.
LEMMA ReportInitInv == CountInit => ReportInv
<1> SUFFICES ASSUME CountInit PROVE ReportInv
  OBVIOUS
<1>1. NumbersOK
  BY DEF CountInit, NumbersOK
<1>2. EmptyCounter \in Counters /\ EmptyCounter.has = "nothing" /\ EmptyCounter.time = 0
  BY DEF EmptyCounter, Counters, Times
<1>3. counters = [r \in CounterKeys |-> EmptyCounter]
  BY DEF CountInit, CounterKeys
<1>4. ReportTypes
  BY <1>2, <1>3, LineCountConstants DEF CountInit, ReportTypes
<1>5. Traversal
  BY DEF CountInit, Traversal
<1>6. CountersExplained
  <2>1. ASSUME NEW key PROVE ~OwnSeen(key)
    BY DEF OwnSeen, CountInit
  <2> QED
    BY <1>2, <1>3, <2>1, LineCountConstants DEF CountersExplained, CounterKeys
<1>7. FailuresExplained
  BY DEF CountInit, FailuresExplained
<1>8. RunningSums
  <2> SUFFICES ASSUME NEW field \in Fields
               PROVE  /\ SumIs(RowValues(field), Row, counters["total"][field])
                      /\ SumIs(FileValues(field), Counted, counters["total"][field])
    BY DEF RunningSums
  <2>1. EmptyCounter[field] = 0
    BY DEF Fields, EmptyCounter
  <2>2. counters["total"][field] = 0
    BY <1>3, <2>1 DEF CounterKeys
  <2>3. \A r \in Row : RowValues(field)[r] = 0
    BY <1>3, <2>1 DEF CounterKeys, RowValues
  <2>4. \A f \in Counted : FileValues(field)[f] = 0
    BY DEF FileValues, Seen, CountInit
  <2>5. IsFiniteSet(Row) /\ IsFiniteSet(Counted)
    BY LineCountConstants, FS_Subset DEF Counted
  <2>6. SumIs(RowValues(field), Row, 0)
    BY <2>3, <2>5, SumOfZeros
  <2>7. SumIs(FileValues(field), Counted, 0)
    BY <2>4, <2>5, SumOfZeros
  <2> QED
    BY <2>2, <2>6, <2>7
<1> QED
  BY <1>1, <1>4, <1>5, <1>6, <1>7, <1>8 DEF ReportInv

\* The parts of the invariant that only look at the report, before it starts.
LEMMA ReportUntouched ==
    ASSUME ReportInv, UNCHANGED <<input, reporting>>, attempts' \in 1 .. MaxAttempts, rpc = "waiting", NumbersOK'
    PROVE  ReportInv'
<1>1. /\ text' = text /\ classes' = classes /\ rpc' = rpc /\ order' = order /\ position' = position
      /\ counters' = counters /\ reportError' = reportError
  BY DEF input, reporting
<1>2. ReportTypes'
  BY <1>1 DEF ReportInv, ReportTypes
<1>3. Traversal'
  BY <1>1 DEF ReportInv, Traversal
<1>4. CountersExplained'
  <2>1. CountersExplained
    BY DEF ReportInv
  <2>2. ASSUME NEW key PROVE (Billed(key)' <=> Billed(key)) /\ (OwnSeen(key)' <=> OwnSeen(key))
    BY <1>1 DEF Billed, OwnSeen, Keys
  <2> QED
    BY <1>1, <2>1, <2>2 DEF CountersExplained
<1>5. FailuresExplained'
  BY <1>1, SMTT(30) DEF ReportInv, FailuresExplained, BilledTooEarly, Keys
<1>6. position = 1
  BY DEF ReportInv, Traversal
<1>7. Counted' = Counted
  BY <1>1 DEF Counted, Keys
<1>8. ASSUME NEW field \in Fields
      PROVE  RowValues(field)' = RowValues(field) /\ FileValues(field)' = FileValues(field)
  BY <1>1, <1>6, <1>7 DEF RowValues, FileValues, Seen
<1>9. RunningSums'
  BY <1>1, <1>7, <1>8 DEF ReportInv, RunningSums
<1> QED
  BY <1>2, <1>3, <1>4, <1>5, <1>9 DEF ReportInv

\* A count that is not done keeps the report waiting.
LEMMA CountingBeforeReport ==
    ASSUME ReportInv, NEW f \in SourceFile,
           MakeTmpDir(f) \/ RunDafny(f) \/ CleanDafnyOutput(f) \/ RunSloccount(f) \/ SloccountRaises(f)
    PROVE  /\ rpc = "waiting" /\ attempts' \in 1 .. MaxAttempts /\ UNCHANGED <<input, reporting>>
<1>1. step[f] # "done" /\ attempts' = attempts /\ UNCHANGED <<input, reporting>>
  BY DEF MakeTmpDir, RunDafny, CleanDafnyOutput, RunSloccount, SloccountRaises
<1> QED
  BY <1>1 DEF ReportInv, Traversal, ReportTypes

\* The numbers stay numbers.
LEMMA NumbersStep ==
    ASSUME CountInv, ReportInv, NEW f \in SourceFile,
           MakeTmpDir(f) \/ RunDafny(f) \/ CleanDafnyOutput(f) \/ RunSloccount(f) \/ SloccountRaises(f)
    PROVE  NumbersOK'
<1> USE DEF CountInv, CountTypes, Active, input
<1>1. NumbersOK
  BY DEF ReportInv
<1>2. CASE MakeTmpDir(f) \/ SloccountRaises(f)
  BY <1>1, <1>2 DEF MakeTmpDir, SloccountRaises, NumbersOK
<1>3. CASE RunDafny(f) \/ CleanDafnyOutput(f)
  <2>1. /\ UNCHANGED <<text, ghostSloc, lc>> /\ dir[f] \in Dir
        /\ \A g \in SourceFile : step'[g] = "done" => step[g] = "done"
    BY <1>3 DEF RunDafny, CleanDafnyOutput
  <2>2. \A d \in Dir : d # dir[f] => tmp'[d] = tmp[d]
    BY <1>3 DEF RunDafny, CleanDafnyOutput
  <2>3. ASSUME NEW t \in tmp'[dir[f]] PROVE t.code \in Nat /\ t.noise \in Nat
    <3>1. CASE RunDafny(f)
      <4>1. t \in tmp[dir[f]] \/ t = Printed(f)
        BY <2>1, <2>3, <3>1 DEF RunDafny
      <4>2. Printed(f).code \in Nat /\ Printed(f).noise \in Nat
        <5>1. text[f].real \in Nat /\ text[f].ghost \in Nat /\ text[f].noise \in Nat
          BY LineCountConstants
        <5> QED
          BY <5>1 DEF Printed
      <4> QED
        BY <1>1, <2>1, <4>1, <4>2 DEF NumbersOK
    <3>2. CASE CleanDafnyOutput(f)
      <4>1. PICK u \in tmp[dir[f]] : t = IF u.file = f /\ u.pass = pass[f] THEN [u EXCEPT !.noise = 0] ELSE u
        BY <2>1, <2>3, <3>2 DEF CleanDafnyOutput
      <4>2. u.code \in Nat /\ u.noise \in Nat
        BY <1>1, <2>1 DEF NumbersOK
      <4>3. t.code = u.code /\ t.noise \in {0, u.noise}
        BY <4>1
      <4> QED
        BY <4>2, <4>3
    <3> QED
      BY <1>3, <3>1, <3>2
  <2> QED
    BY <1>1, <2>1, <2>2, <2>3 DEF NumbersOK
<1>4. CASE RunSloccount(f)
  <2>1. step[f] = "sloccount" /\ UNCHANGED <<text, dir, tmp>> /\ dir[f] \in Dir
    BY <1>4 DEF RunSloccount
  <2>2. PICK sloc \in SlocCounts(f) : FirstPass(f, sloc) \/ LastPass(f, sloc)
    BY <1>4 DEF RunSloccount
  <2>3. sloc \in Nat
    BY <1>1, <2>1 DEF SlocCounts, NumbersOK
  <2>4. CASE FirstPass(f, sloc)
    BY <1>1, <2>1, <2>3, <2>4 DEF FirstPass, NumbersOK
  <2>5. CASE LastPass(f, sloc)
    <3>1. /\ ghostSloc' = ghostSloc /\ ghostSloc[f] \in Nat
          /\ \A g \in SourceFile : g # f => lc'[g] = lc[g] /\ step'[g] = step[g]
      BY <1>1, <2>5 DEF LastPass, NumbersOK
    <3>2. text[f].time \in Times
      BY LineCountConstants DEF Times
    <3>3. lc'[f] = IF f \in Trusted THEN Count(sloc, 0, 0, text[f].time)
                   ELSE Count(0, sloc, ghostSloc[f] - sloc, text[f].time)
      BY <2>5 DEF LastPass
    <3>4. lc'[f] \in [spec : Nat, impl : Nat, proof : Int, time : Times] /\ lc'[f].time = text[f].time
      BY <2>3, <3>1, <3>2, <3>3 DEF Count
    <3> QED
      BY <1>1, <2>1, <3>1, <3>4 DEF NumbersOK
  <2> QED
    BY <2>2, <2>4, <2>5
<1> QED
  BY <1>2, <1>3, <1>4

\* Running make again happens before any report.
LEMMA MakeAgainReport ==
    ASSUME CountInv, ReportInv, MakeAgain
    PROVE  ReportInv'
<1>1. rpc = "waiting"
  BY DEF MakeAgain, ReportInv, Traversal
<1>2. attempts' \in 1 .. MaxAttempts
  BY LineCountConstants DEF MakeAgain, ReportInv, ReportTypes
<1>3. NumbersOK'
  <2>1. \A f \in SourceFile : step'[f] = "done" => step[f] = "done"
    BY DEF MakeAgain
  <2> QED
    BY <2>1 DEF MakeAgain, ReportInv, NumbersOK, input
<1>4. UNCHANGED <<input, reporting>>
  BY DEF MakeAgain
<1> QED
  BY <1>1, <1>2, <1>3, <1>4, ReportUntouched

\* The traversal starts with nothing seen.
LEMMA StartReportStep ==
    ASSUME ReportInv, StartReport
    PROVE  ReportInv'
<1>1. /\ text' = text /\ classes' = classes /\ step' = step /\ lc' = lc /\ tmp' = tmp /\ ghostSloc' = ghostSloc
      /\ attempts' = attempts /\ position' = position /\ counters' = counters /\ reportError' = reportError
      /\ rpc = "waiting" /\ rpc' = "accumulate" /\ order' \in Orders /\ position = 1
      /\ reportError = "none" /\ \A f \in SourceFile : step[f] = "done"
  BY DEF StartReport, counting, input, ReportInv, Traversal, ReportTypes
<1>2. NumbersOK'
  BY <1>1 DEF ReportInv, NumbersOK
<1>3. ReportTypes'
  BY <1>1 DEF ReportInv, ReportTypes
<1>4. Traversal'
  <2>1. Cardinality(SourceFile) \in Nat
    BY LineCountConstants, FS_CardinalityType
  <2>2. Orders' = Orders
    BY DEF Orders
  <2> QED
    BY <1>1, <2>1, <2>2 DEF Traversal
<1>5. CountersExplained'
  <2>1. CountersExplained
    BY DEF ReportInv
  <2>2. ASSUME NEW key PROVE ~Billed(key) /\ ~OwnSeen(key)'
    BY <1>1 DEF Billed, OwnSeen
  <2> QED
    BY <1>1, <2>1, <2>2 DEF CountersExplained
<1>6. FailuresExplained'
  BY <1>1 DEF FailuresExplained
<1>7. Counted' = Counted
  BY <1>1 DEF Counted, Keys
<1>8. ASSUME NEW field \in Fields
      PROVE  RowValues(field)' = RowValues(field) /\ FileValues(field)' = FileValues(field)
  BY <1>1, <1>7 DEF RowValues, FileValues, Seen
<1>9. RunningSums'
  BY <1>1, <1>7, <1>8 DEF ReportInv, RunningSums
<1> QED
  BY <1>2, <1>3, <1>4, <1>5, <1>6, <1>9 DEF ReportInv

\* A step that does not add to the counters leaves the sums alone, if the file it passes is ignored.
LEMMA StepsOfReport ==
    ASSUME UNCHANGED <<counting, order>>, ReportInv
    PROVE  /\ NumbersOK' /\ Counted' = Counted /\ text' = text /\ lc' = lc /\ step' = step /\ attempts' = attempts
           /\ \A f \in SourceFile : Keys(f)' = Keys(f)
           /\ order' = order /\ Orders' = Orders
  BY DEF counting, input, ReportInv, NumbersOK, Counted, Keys, Orders

\* The file under way is one of the source files, and was not seen before.
LEMMA NextReport ==
    ASSUME ReportInv, More
    PROVE  /\ order[position] \in SourceFile /\ ~Seen(order[position])
           /\ position \in 1 .. Cardinality(SourceFile) /\ Len(order) = Cardinality(SourceFile)
           /\ step[order[position]] = "done" /\ order \in Orders
           /\ \A n \in 1 .. position - 1 : order[n] \in SourceFile
           /\ reportError = "none"
<1>1. order \in Orders /\ position \in 1 .. Cardinality(SourceFile) + 1 /\ reportError = "none"
      /\ \A f \in SourceFile : step[f] = "done"
  BY DEF ReportInv, Traversal, More, ReportTypes
<1>2. Cardinality(SourceFile) \in Nat
  BY LineCountConstants, FS_CardinalityType
<1>3. Len(order) = Cardinality(SourceFile) /\ \A n \in 1 .. Cardinality(SourceFile) : order[n] \in SourceFile
  BY <1>1, <1>2 DEF Orders
<1>4. position \in 1 .. Cardinality(SourceFile)
  BY <1>1, <1>2, <1>3 DEF More
<1>5. ~Seen(order[position])
  BY <1>1, <1>2, <1>4 DEF Seen, Orders
<1> QED
  BY <1>1, <1>2, <1>3, <1>4, <1>5

\* An ignored file passes by.
LEMMA SkipIgnoredStep ==
    ASSUME ReportInv, SkipIgnored
    PROVE  ReportInv'
<1>1. /\ More /\ Keys(order[position]) = {} /\ position' = position + 1 /\ rpc' = rpc /\ counters' = counters
      /\ reportError' = reportError /\ UNCHANGED <<counting, order>>
  BY DEF SkipIgnored
<1>2. /\ order[position] \in SourceFile /\ position \in 1 .. Cardinality(SourceFile)
      /\ \A n \in 1 .. position - 1 : order[n] \in SourceFile
      /\ Len(order) = Cardinality(SourceFile) /\ reportError = "none"
  BY <1>1, NextReport
<1>3. /\ NumbersOK' /\ Counted' = Counted /\ text' = text /\ lc' = lc /\ step' = step /\ attempts' = attempts
      /\ \A f \in SourceFile : Keys(f)' = Keys(f)
      /\ order' = order /\ Orders' = Orders
  BY <1>1, StepsOfReport
<1>4. position' \in 1 .. Cardinality(SourceFile) + 1 /\ 1 .. position' - 1 = (1 .. position - 1) \cup {position}
  <2>1. Cardinality(SourceFile) \in Nat
    BY LineCountConstants, FS_CardinalityType
  <2> QED
    BY <1>1, <1>2, <2>1
<1>5. ReportTypes'
  BY <1>1, <1>3 DEF ReportInv, ReportTypes
<1>6. Traversal'
  BY <1>1, <1>3, <1>4 DEF ReportInv, Traversal, More
<1>7. CountersExplained'
  <2>1. CountersExplained
    BY DEF ReportInv
  <2>2. ASSUME NEW key PROVE (Billed(key) => Billed(key)') /\ (OwnSeen(key)' => OwnSeen(key))
    BY <1>1, <1>2, <1>3, <1>4, ZenonT(60) DEF Billed, OwnSeen
  <2> QED
    BY <1>1, <1>3, <2>1, <2>2 DEF CountersExplained
<1>8. FailuresExplained'
  BY <1>1, <1>2 DEF FailuresExplained
<1>9. ASSUME NEW field \in Fields
      PROVE  RowValues(field)' = RowValues(field) /\ FileValues(field)' = FileValues(field)
  <2>1. \A f \in Counted : Seen(f)' <=> Seen(f)
    BY <1>1, <1>2, <1>3, <1>4 DEF Seen, Counted
  <2> QED
    BY <1>1, <1>3, <2>1 DEF RowValues, FileValues
<1>10. RunningSums'
  BY <1>1, <1>3, <1>9 DEF ReportInv, RunningSums
<1> QED
  BY <1>3, <1>5, <1>6, <1>7, <1>8, <1>10 DEF ReportInv

\* The counts of a file.
Reports == [spec : Nat, impl : Nat, proof : Int, time : Times]

\* What Counter.update makes of a counter.
LEMMA AddedIs ==
    ASSUME NEW c \in Counters, NEW r \in Reports, CanAdd(c, r)
    PROVE  /\ Added(c, r) \in Counters /\ Added(c, r).has = "report"
           /\ c.time # NoTime /\ r.time # NoTime => Added(c, r).time # NoTime
           /\ \A field \in Fields : Added(c, r)[field] = c[field] + r[field]
<1>1. (IF c.has = "nothing" THEN r.time ELSE c.time + r.time) \in Times
  BY DEF CanAdd, Times, Counters, Reports
<1>2. c.time # NoTime /\ r.time # NoTime => Added(c, r).time # NoTime
  BY LineCountConstants DEF Added, Times, Counters, Reports
<1>3. Added(c, r) \in Counters /\ Added(c, r).has = "report"
  BY <1>1 DEF Added, Counters, Reports
<1>4. \A field \in Fields : Added(c, r)[field] = c[field] + r[field]
  BY DEF Added, Fields
<1> QED
  BY <1>2, <1>3, <1>4

\* What billing impl lines to another row makes of that row.
LEMMA AddedImplIs ==
    ASSUME NEW c \in Counters, NEW r \in Reports
    PROVE  /\ AddedImpl(c, r) \in Counters /\ AddedImpl(c, r).time = c.time
           /\ AddedImpl(c, r).has = IF c.has = "nothing" THEN "impl" ELSE c.has
           /\ \A field \in Fields : AddedImpl(c, r)[field] = IF field = "impl" THEN c[field] + r[field] ELSE c[field]
<1>1. /\ AddedImpl(c, r).impl = c.impl + r.impl /\ AddedImpl(c, r).spec = c.spec /\ AddedImpl(c, r).proof = c.proof
      /\ AddedImpl(c, r).time = c.time /\ AddedImpl(c, r).has = IF c.has = "nothing" THEN "impl" ELSE c.has
  BY DEF AddedImpl, Counters
<1>2. AddedImpl(c, r) \in Counters
  <2>1. AddedImpl(c, r) = [c EXCEPT !.impl = c.impl + r.impl, !.has = IF c.has = "nothing" THEN "impl" ELSE c.has]
    BY DEF AddedImpl
  <2>2. c.impl + r.impl \in Int /\ (IF c.has = "nothing" THEN "impl" ELSE c.has) \in {"nothing", "report", "impl"}
    BY DEF Counters, Reports
  <2>3. \A i \in Int, h \in {"nothing", "report", "impl"} : [c EXCEPT !.impl = i, !.has = h] \in Counters
    BY DEF Counters
  <2> HIDE DEF Counters
  <2> QED
    BY <2>1, <2>2, <2>3, ZenonT(60)
<1> QED
  BY <1>1, <1>2 DEF Fields

\* What is left of a report when its impl lines go elsewhere.
LEMMA RestIs ==
    ASSUME NEW r \in Reports
    PROVE  /\ Rest(r) \in Reports /\ Rest(r).time = r.time
           /\ \A field \in Fields : Rest(r)[field] = IF field = "impl" THEN 0 ELSE r[field]
  BY DEF Rest, Reports, Fields

\* The rows after a file: its own row, the row that its impl lines go to, and the total.
LEMMA RowsUpdatedIs ==
    ASSUME counters \in [CounterKeys -> Counters], NEW key \in Row, NEW r
    PROVE  /\ DOMAIN RowsUpdated(key, r) = CounterKeys
           /\ RowsUpdated(key, r)["total"] = Added(counters["total"], r)
           /\ RowsUpdated(key, r)["unmapped"] = counters["unmapped"]
           /\ \A y \in Row :
                 /\ y # key /\ (MovesImpl(key) => y # ImplMap[key]) => RowsUpdated(key, r)[y] = counters[y]
                 /\ y = key /\ ~MovesImpl(key) => RowsUpdated(key, r)[y] = Added(counters[key], r)
                 /\ y = key /\ MovesImpl(key) => RowsUpdated(key, r)[y] = Added(counters[key], Rest(r))
                 /\ MovesImpl(key) /\ y = ImplMap[key] => RowsUpdated(key, r)[y] = AddedImpl(counters[y], r)
<1>1. "total" \notin Row /\ "unmapped" \notin Row /\ "total" # "unmapped" /\ (MovesImpl(key) => ImplMap[key] \in Row \ {key})
  BY LineCountConstants DEF MovesImpl
<1>2. CASE ~MovesImpl(key)
  BY <1>1, <1>2 DEF RowsUpdated, CounterKeys
<1>3. CASE MovesImpl(key)
  <2>1. RowsUpdated(key, r) = [counters EXCEPT ![key] = Added(counters[key], Rest(r)),
                                               ![ImplMap[key]] = AddedImpl(counters[ImplMap[key]], r),
                                               !["total"] = Added(counters["total"], r)]
    BY <1>3 DEF RowsUpdated
  <2>2. key # "total" /\ ImplMap[key] # key /\ ImplMap[key] # "total" /\ ImplMap[key] # "unmapped"
    BY <1>1, <1>3
  <2> QED
    BY <1>1, <1>3, <2>1, <2>2 DEF CounterKeys
<1> QED
  BY <1>2, <1>3

\* A file is added to the total and, field by field, to one row.
LEMMA RowsAfter ==
    ASSUME counters \in [CounterKeys -> Counters], NEW key \in Row, NEW r \in Reports,
           CanAdd(counters[key], r), CanAdd(counters["total"], r), counters' = RowsUpdated(key, r)
    PROVE  /\ counters' \in [CounterKeys -> Counters]
           /\ counters'["total"].has = "report" /\ counters'["unmapped"] = counters["unmapped"]
           /\ counters'[key].has = "report"
           /\ \A y \in Row : y # key => \/ counters'[y] = counters[y]
                                       \/ /\ key \in DOMAIN ImplMap /\ ImplMap[key] = y
                                          /\ counters'[y].has = IF counters[y].has = "nothing" THEN "impl"
                                                                ELSE counters[y].has
           /\ r.time # NoTime /\ (\A y \in CounterKeys : counters[y].time # NoTime)
                 => \A y \in CounterKeys : counters'[y].time # NoTime
           /\ \A field \in Fields :
                 /\ counters'["total"][field] = counters["total"][field] + r[field]
                 /\ \E target \in Row : \A y \in Row :
                       counters'[y][field] = IF y = target THEN counters[target][field] + r[field] ELSE counters[y][field]
<1>1. /\ DOMAIN counters' = CounterKeys
      /\ counters'["total"] = Added(counters["total"], r)
      /\ counters'["unmapped"] = counters["unmapped"]
      /\ \A y \in Row :
            /\ y # key /\ (MovesImpl(key) => y # ImplMap[key]) => counters'[y] = counters[y]
            /\ y = key /\ ~MovesImpl(key) => counters'[y] = Added(counters[key], r)
            /\ y = key /\ MovesImpl(key) => counters'[y] = Added(counters[key], Rest(r))
            /\ MovesImpl(key) /\ y = ImplMap[key] => counters'[y] = AddedImpl(counters[y], r)
  BY RowsUpdatedIs
<1>2. counters["total"] \in Counters /\ counters["unmapped"] \in Counters /\ \A y \in Row : counters[y] \in Counters
  BY DEF CounterKeys
<1>3. /\ Rest(r) \in Reports /\ Rest(r).time = r.time /\ CanAdd(counters[key], Rest(r))
      /\ \A field \in Fields : Rest(r)[field] = IF field = "impl" THEN 0 ELSE r[field]
  BY RestIs DEF CanAdd
<1>4. \E own \in {r, Rest(r)} :
        /\ own \in Reports /\ own.time = r.time /\ CanAdd(counters[key], own)
        /\ counters'[key] = Added(counters[key], own) /\ (own = r <=> ~MovesImpl(key) \/ r = Rest(r))
  BY <1>1, <1>3
<1>5. /\ counters'[key] \in Counters /\ counters'[key].has = "report"
      /\ r.time # NoTime /\ counters[key].time # NoTime => counters'[key].time # NoTime
  BY <1>2, <1>4, AddedIs
<1>6. /\ counters'["total"] \in Counters /\ counters'["total"].has = "report"
      /\ r.time # NoTime /\ counters["total"].time # NoTime => counters'["total"].time # NoTime
      /\ \A field \in Fields : counters'["total"][field] = counters["total"][field] + r[field]
  BY <1>1, <1>2, AddedIs
<1>7. ASSUME NEW y \in Row, y # key
      PROVE  /\ counters'[y] \in Counters
             /\ \/ counters'[y] = counters[y]
                \/ /\ key \in DOMAIN ImplMap /\ ImplMap[key] = y
                   /\ counters'[y].has = IF counters[y].has = "nothing" THEN "impl" ELSE counters[y].has
             /\ counters'[y].time = counters[y].time
  BY <1>1, <1>2, <1>7, AddedImplIs DEF MovesImpl
<1>8. counters' \in [CounterKeys -> Counters]
  <2>1. \A y \in CounterKeys : counters'[y] \in Counters
    BY <1>1, <1>2, <1>5, <1>6, <1>7 DEF CounterKeys
  <2>2. counters' = [y \in CounterKeys |-> counters'[y]]
    BY <1>1 DEF RowsUpdated
  <2> QED
    BY <2>1, <2>2
<1>9. ASSUME r.time # NoTime, \A y \in CounterKeys : counters[y].time # NoTime, NEW y \in CounterKeys
      PROVE  counters'[y].time # NoTime
  <2>1. key \in CounterKeys /\ "total" \in CounterKeys
    BY DEF CounterKeys
  <2>2. CASE y \in Row \ {key}
    BY <1>7, <1>9, <2>2
  <2>3. CASE y \notin Row \ {key}
    BY <1>1, <1>5, <1>6, <1>9, <2>1, <2>3 DEF CounterKeys
  <2> QED
    BY <2>2, <2>3
<1>10. ASSUME NEW field \in Fields
       PROVE  \E target \in Row : \A y \in Row :
                 counters'[y][field] = IF y = target THEN counters[target][field] + r[field] ELSE counters[y][field]
  <2>1. \A y \in Row : counters[y][field] \in Int
    BY <1>2, FieldOfCount
  <2>2. CASE ~MovesImpl(key)
    <3>1. \A y \in Row : y # key => counters'[y] = counters[y]
      BY <1>1, <2>2
    <3>2. counters'[key][field] = counters[key][field] + r[field]
      BY <1>1, <1>2, <2>2, AddedIs
    <3> QED
      BY <3>1, <3>2
  <2>3. CASE MovesImpl(key)
    <3>1. ImplMap[key] \in Row \ {key}
      BY <2>3, LineCountConstants DEF MovesImpl
    <3>2. \A y \in Row : y # key /\ y # ImplMap[key] => counters'[y] = counters[y]
      BY <1>1, <2>3
    <3>3. counters'[key][field] = counters[key][field] + IF field = "impl" THEN 0 ELSE r[field]
      <4>1. counters'[key][field] = counters[key][field] + Rest(r)[field]
        BY <1>1, <1>2, <1>3, <2>3, AddedIs
      <4> QED
        BY <1>3, <4>1
    <3>4. counters'[ImplMap[key]][field] = IF field = "impl" THEN counters[ImplMap[key]][field] + r[field]
                                           ELSE counters[ImplMap[key]][field]
      BY <1>1, <1>2, <2>3, <3>1, AddedImplIs
    <3>5. CASE field = "impl"
      <4>1. counters'[key][field] = counters[key][field]
        BY <2>1, <3>3, <3>5
      <4> QED
        BY <3>1, <3>2, <3>4, <3>5, <4>1
    <3>6. CASE field # "impl"
      BY <3>1, <3>2, <3>3, <3>4, <3>6
    <3> QED
      BY <3>5, <3>6
  <2> QED
    BY <2>2, <2>3
<1> QED
  BY <1>1, <1>5, <1>6, <1>7, <1>8, <1>9, <1>10

\* A file is accumulated: the total grows with the rows and with the files seen.
LEMMA AccumulateStep ==
    ASSUME ReportInv, Accumulate
    PROVE  ReportInv'
<1> DEFINE f == order[position]
           r == lc[order[position]]
<1>1. /\ More /\ position' = position + 1 /\ rpc' = rpc /\ reportError' = reportError /\ UNCHANGED <<counting, order>>
  BY DEF Accumulate
<1>2. PICK key \in Row : /\ Keys(f) = {key} /\ CanAdd(counters[key], r) /\ CanAdd(counters["total"], r)
                         /\ counters' = RowsUpdated(key, r)
  BY DEF Accumulate
<1>3. /\ f \in SourceFile /\ position \in 1 .. Cardinality(SourceFile) /\ ~Seen(f) /\ step[f] = "done"
      /\ \A n \in 1 .. position - 1 : order[n] \in SourceFile
      /\ Len(order) = Cardinality(SourceFile) /\ reportError = "none"
  BY <1>1, NextReport
<1>4. /\ NumbersOK' /\ Counted' = Counted /\ text' = text /\ lc' = lc /\ step' = step /\ attempts' = attempts
      /\ \A g \in SourceFile : Keys(g)' = Keys(g)
      /\ order' = order /\ Orders' = Orders
  BY <1>1, StepsOfReport
<1>5. position' \in 1 .. Cardinality(SourceFile) + 1 /\ 1 .. position' - 1 = (1 .. position - 1) \cup {position}
  <2>1. Cardinality(SourceFile) \in Nat
    BY LineCountConstants, FS_CardinalityType
  <2> QED
    BY <1>1, <1>3, <2>1
<1>6. r \in Reports /\ r.time = text[f].time
  BY <1>3 DEF ReportInv, NumbersOK, Reports
<1>7. counters \in [CounterKeys -> Counters]
  BY DEF ReportInv, ReportTypes
<1> HIDE DEF f, r
<1>8. /\ counters' \in [CounterKeys -> Counters]
      /\ counters'["total"].has = "report" /\ counters'["unmapped"] = counters["unmapped"]
      /\ counters'[key].has = "report"
      /\ \A y \in Row : y # key => \/ counters'[y] = counters[y]
                                  \/ /\ key \in DOMAIN ImplMap /\ ImplMap[key] = y
                                     /\ counters'[y].has = IF counters[y].has = "nothing" THEN "impl"
                                                           ELSE counters[y].has
      /\ r.time # NoTime /\ (\A y \in CounterKeys : counters[y].time # NoTime)
            => \A y \in CounterKeys : counters'[y].time # NoTime
      /\ \A field \in Fields :
            /\ counters'["total"][field] = counters["total"][field] + r[field]
            /\ \E target \in Row : \A y \in Row :
                  counters'[y][field] = IF y = target THEN counters[target][field] + r[field] ELSE counters[y][field]
  BY <1>2, <1>6, <1>7, RowsAfter
<1>9. ReportTypes'
  BY <1>1, <1>4, <1>8 DEF ReportInv, ReportTypes
<1>10. Traversal'
  BY <1>1, <1>4, <1>5 DEF ReportInv, Traversal, More
<1>11. CountersExplained'
  <2>1. CountersExplained
    BY DEF ReportInv
  <2>2. ASSUME NEW y \in Row
        PROVE  /\ Billed(y) => Billed(y)'
               /\ y # key /\ OwnSeen(y)' => OwnSeen(y)
               /\ key \in DOMAIN ImplMap /\ ImplMap[key] = y => Billed(y)'
    <3>1. f \in SourceFile /\ f = order[position] /\ Keys(f) = {key} /\ position \in 1 .. position' - 1
      BY <1>2, <1>3, <1>5 DEF f
    <3>2. \A n \in 1 .. position - 1 : Keys(order[n])' = Keys(order[n])
      BY <1>3, <1>4
    <3>3. \A g \in SourceFile : g = f => Keys(g)' = {key}
      BY <1>4, <3>1
    <3> QED
      BY <1>3, <1>4, <1>5, <3>1, <3>2, <3>3 DEF Billed, OwnSeen
  <2>3. ASSUME NEW y \in Row
        PROVE  /\ counters'[y].has = "impl" => Billed(y)'
               /\ counters'[y].has # "report" => ~OwnSeen(y)'
    <3>1. CASE y = key
      BY <1>8, <3>1
    <3>2. CASE y # key
      BY <1>8, <2>1, <2>2, <3>2 DEF CountersExplained
    <3> QED
      BY <3>1, <3>2
  <2>4. (\A g \in SourceFile : text[g].time # NoTime) => \A y \in CounterKeys : counters'[y].time # NoTime
    BY <1>3, <1>6, <1>8, <2>1 DEF CountersExplained
  <2> QED
    BY <1>4, <1>8, <2>1, <2>3, <2>4 DEF CountersExplained
<1>12. FailuresExplained'
  BY <1>1, <1>3 DEF FailuresExplained
<1>13. ASSUME NEW field \in Fields
       PROVE  /\ SumIs(RowValues(field)', Row, counters'["total"][field])
              /\ SumIs(FileValues(field)', Counted', counters'["total"][field])
  <2>1. IsFiniteSet(Row) /\ IsFiniteSet(Counted)
    BY LineCountConstants, FS_Subset DEF Counted
  <2>2. r[field] \in Int /\ \A g \in SourceFile : step[g] = "done" => lc[g][field] \in Int
    BY <1>6 DEF Reports, Fields, ReportInv, NumbersOK
  <2>3. /\ SumIs(RowValues(field), Row, counters["total"][field])
        /\ SumIs(FileValues(field), Counted, counters["total"][field])
    BY DEF ReportInv, RunningSums
  <2>4. SumIs(RowValues(field)', Row, counters["total"][field] + r[field])
    <3>1. PICK target \in Row : \A y \in Row :
             counters'[y][field] = IF y = target THEN counters[target][field] + r[field] ELSE counters[y][field]
      BY <1>8
    <3>2. \A y \in Row : counters[y][field] \in Int /\ counters'[y][field] \in Int
      <4>1. \A y \in Row : counters[y] \in Counters /\ counters'[y] \in Counters
        BY <1>7, <1>8 DEF CounterKeys
      <4> QED
        BY <4>1, FieldOfCount
    <3>3. RowValues(field) \in [Row -> Int] /\ RowValues(field)' \in [Row -> Int]
      BY <3>2 DEF RowValues
    <3>4. \A y \in Row : RowValues(field)'[y] = IF y = target THEN RowValues(field)[target] + r[field] ELSE RowValues(field)[y]
      BY <3>1 DEF RowValues
    <3> QED
      BY <2>1, <2>2, <2>3, <3>3, <3>4, SumAdd
  <2>5. SumIs(FileValues(field)', Counted, counters["total"][field] + r[field])
    <3>1. f \in Counted /\ f = order[position] /\ r = lc[f]
      BY <1>2, <1>3 DEF Counted, f, r
    <3>2. \A g \in Counted : Seen(g)' <=> Seen(g) \/ g = f
      BY <1>3, <1>4, <1>5, <3>1 DEF Seen
    <3>3. \A g \in Counted : lc[g][field] \in Int
      BY <1>1, <2>2 DEF Counted, ReportInv, Traversal, More
    <3>4. FileValues(field) \in [Counted -> Int] /\ FileValues(field)' \in [Counted -> Int]
      BY <1>4, <3>3 DEF FileValues
    <3>5. FileValues(field)[f] = 0
      BY <1>3, <3>1 DEF FileValues
    <3>6. \A g \in Counted : FileValues(field)'[g] = IF g = f THEN FileValues(field)[f] + r[field] ELSE FileValues(field)[g]
      <4>1. \A g \in Counted : FileValues(field)'[g] = IF Seen(g) \/ g = f THEN lc[g][field] ELSE 0
        BY <1>4, <3>2 DEF FileValues
      <4>2. \A g \in Counted : FileValues(field)[g] = IF Seen(g) THEN lc[g][field] ELSE 0
        BY DEF FileValues
      <4> QED
        BY <1>3, <2>2, <3>1, <3>5, <4>1, <4>2
    <3> HIDE DEF FileValues
    <3> QED
      BY <2>1, <2>2, <2>3, <3>1, <3>4, <3>6, SumAdd
  <2> QED
    BY <1>4, <1>8, <2>4, <2>5
<1>14. RunningSums'
  BY <1>13 DEF RunningSums
<1> QED
  BY <1>4, <1>9, <1>10, <1>11, <1>12, <1>14 DEF ReportInv

\* Why the report raises.
LEMMA AssertFailsStep ==
    ASSUME ReportInv, AssertFails
    PROVE  FailuresExplained'
<1>1. More /\ reportError' = "AssertionError" /\ UNCHANGED <<counting, order>>
  BY DEF AssertFails, ReportRaises
<1>2. order[position] \in SourceFile
  BY <1>1, NextReport
<1>3. \A f \in SourceFile : Keys(f)' = Keys(f)
  BY <1>1, StepsOfReport
<1>4. \E f \in SourceFile : Cardinality(Keys(f)) > 1 \/ ~(Keys(f) \subseteq Row)
  BY <1>2 DEF AssertFails
<1> QED
  BY <1>1, <1>3, <1>4 DEF FailuresExplained

\* A TypeError of Counter.update has its cause in the files added so far.
LEMMA AddFailsStep ==
    ASSUME ReportInv, AddFails
    PROVE  FailuresExplained'
<1> DEFINE f == order[position]
<1>1. More /\ reportError' = "TypeError" /\ UNCHANGED <<counting, order>>
  BY DEF AddFails, ReportRaises
<1>2. PICK key \in Row \cup {"unmapped"} :
         Keys(f) = {key} /\ ~(CanAdd(counters[key], lc[f]) /\ CanAdd(counters["total"], lc[f]))
  BY DEF AddFails
<1>3. /\ f \in SourceFile /\ position \in 1 .. Cardinality(SourceFile) /\ step[f] = "done"
      /\ \A n \in 1 .. position - 1 : order[n] \in SourceFile
      /\ order \in Orders
  BY <1>1, NextReport
<1>4. /\ text' = text /\ order' = order /\ \A g \in SourceFile : Keys(g)' = Keys(g)
  BY <1>1, StepsOfReport
<1>5. CountersExplained /\ lc[f].time = text[f].time /\ counters \in [CounterKeys -> Counters]
  BY <1>3 DEF ReportInv, NumbersOK, ReportTypes
<1>6. ASSUME \A g \in SourceFile : text[g].time # NoTime
      PROVE  BilledTooEarly
  <2>1. \A y \in CounterKeys : CanAdd(counters[y], lc[f]) <=> counters[y].has # "impl"
    BY <1>3, <1>5, <1>6 DEF CanAdd, CountersExplained, Counters
  <2>2. key \in Row /\ counters[key].has = "impl"
    BY <1>2, <1>5, <2>1 DEF CountersExplained, CounterKeys
  <2>3. Billed(key) /\ ~OwnSeen(key)
    BY <1>5, <2>2 DEF CountersExplained
  <2>4. Cardinality(SourceFile) \in Nat
    BY LineCountConstants, FS_CardinalityType
  <2>5. DOMAIN order = 1 .. Cardinality(SourceFile)
    BY <1>3 DEF Orders
  <2>6. PICK a \in 1 .. position - 1, from \in DOMAIN ImplMap : Keys(order[a]) = {from} /\ ImplMap[from] = key
    BY <2>3 DEF Billed
  <2>7. a \in DOMAIN order /\ position \in DOMAIN order /\ a < position
    BY <1>3, <2>4, <2>5
  <2>8. \A c \in 1 .. position - 1 : Keys(order[c]) # {key}
    BY <2>3 DEF OwnSeen
  <2> QED
    BY <1>2, <2>2, <2>6, <2>7, <2>8 DEF BilledTooEarly
<1>7. BilledTooEarly => BilledTooEarly'
  <2>1. \A n \in DOMAIN order : Keys(order[n])' = Keys(order[n])
    BY <1>3, <1>4 DEF Orders
  <2>2. SUFFICES ASSUME BilledTooEarly PROVE BilledTooEarly'
    OBVIOUS
  <2>3. PICK a \in DOMAIN order, b \in DOMAIN order, k \in Row, from \in DOMAIN ImplMap :
          /\ a < b /\ Keys(order[b]) = {k} /\ Keys(order[a]) = {from} /\ ImplMap[from] = k
          /\ \A c \in 1 .. b - 1 : Keys(order[c]) # {k}
    BY <2>2 DEF BilledTooEarly
  <2>4. \A c \in 1 .. b - 1 : c \in DOMAIN order
    <3>1. Cardinality(SourceFile) \in Nat
      BY LineCountConstants, FS_CardinalityType
    <3> QED
      BY <1>3, <3>1 DEF Orders
  <2> QED
    BY <1>4, <2>1, <2>3, <2>4 DEF BilledTooEarly
<1> QED
  BY <1>1, <1>4, <1>6, <1>7 DEF FailuresExplained

\* A step that changes only where the report is.
LEMMA ReportMoves ==
    ASSUME ReportInv, UNCHANGED <<counting, order, position, counters>>, rpc # "waiting",
           rpc' \in {"accumulate", "highlights", "done", "raised"}, FailuresExplained',
           reportError' \in {"none", "AssertionError", "TypeError"}, rpc' = "raised" <=> reportError' # "none",
           rpc' \in {"highlights", "done"} => position = Cardinality(SourceFile) + 1
    PROVE  ReportInv'
<1>1. /\ NumbersOK' /\ Counted' = Counted /\ text' = text /\ lc' = lc /\ step' = step /\ attempts' = attempts
      /\ order' = order /\ Orders' = Orders /\ classes' = classes /\ position' = position /\ counters' = counters
  BY StepsOfReport DEF counting, input
<1>2. ReportTypes'
  BY <1>1 DEF ReportInv, ReportTypes
<1>3. Traversal'
  BY <1>1 DEF ReportInv, Traversal
<1>4. CountersExplained'
  <2>1. CountersExplained
    BY DEF ReportInv
  <2>2. ASSUME NEW key PROVE (Billed(key)' <=> Billed(key)) /\ (OwnSeen(key)' <=> OwnSeen(key))
    BY <1>1 DEF Billed, OwnSeen, Keys
  <2> QED
    BY <1>1, <2>1, <2>2 DEF CountersExplained
<1>5. ASSUME NEW field \in Fields
      PROVE  RowValues(field)' = RowValues(field) /\ FileValues(field)' = FileValues(field)
  BY <1>1 DEF RowValues, FileValues, Seen
<1>6. RunningSums'
  BY <1>1, <1>5 DEF ReportInv, RunningSums
<1> QED
  BY <1>1, <1>2, <1>3, <1>4, <1>6 DEF ReportInv

\* Every step preserves what the report needs.
LEMMA ReportNextInv == CountInv /\ ReportInv /\ [CountNext]_countVars => ReportInv'
<1> SUFFICES ASSUME CountInv, ReportInv, [CountNext]_countVars PROVE ReportInv'
  OBVIOUS
<1>1. ASSUME NEW f \in SourceFile,
             MakeTmpDir(f) \/ RunDafny(f) \/ CleanDafnyOutput(f) \/ RunSloccount(f) \/ SloccountRaises(f)
      PROVE  ReportInv'
  BY <1>1, CountingBeforeReport, NumbersStep, ReportUntouched
<1>2. CASE AssertFails \/ AddFails
  <2>1. /\ UNCHANGED <<counting, order, position, counters>> /\ rpc # "waiting" /\ rpc' = "raised"
        /\ reportError' \in {"AssertionError", "TypeError"}
    BY <1>2 DEF AssertFails, AddFails, ReportRaises, More
  <2>2. FailuresExplained'
    BY <1>2, AssertFailsStep, AddFailsStep
  <2> QED
    BY <2>1, <2>2, ReportMoves
<1>3. CASE FinishAccumulate
  <2>1. /\ UNCHANGED <<counting, order, position, counters>> /\ rpc = "accumulate" /\ rpc' = "highlights"
        /\ position > Len(order) /\ reportError' = reportError /\ reportError = "none"
    BY <1>3 DEF FinishAccumulate, ReportInv, ReportTypes
  <2>2. position = Cardinality(SourceFile) + 1
    <3>1. Cardinality(SourceFile) \in Nat
      BY LineCountConstants, FS_CardinalityType
    <3>2. order \in Orders /\ position \in 1 .. Cardinality(SourceFile) + 1
      BY <2>1 DEF ReportInv, Traversal
    <3>3. Len(order) = Cardinality(SourceFile)
      BY <3>1, <3>2 DEF Orders
    <3> QED
      BY <2>1, <3>1, <3>2, <3>3
  <2>3. FailuresExplained'
    BY <2>1 DEF FailuresExplained
  <2> QED
    BY <2>1, <2>2, <2>3, ReportMoves
<1>4. CASE Highlights
  <2>1. /\ UNCHANGED <<counting, order, position, counters>> /\ rpc = "highlights" /\ reportError = "none"
        /\ position = Cardinality(SourceFile) + 1
    BY <1>4 DEF Highlights, ReportInv, ReportTypes, Traversal
  <2>2. CASE \A f \in SourceFile : lc[f].time # NoTime
    <3>1. rpc' = "done" /\ reportError' = "none"
      BY <1>4, <2>1, <2>2 DEF Highlights
    <3>2. FailuresExplained'
      BY <3>1 DEF FailuresExplained
    <3> QED
      BY <2>1, <3>1, <3>2, ReportMoves
  <2>3. CASE ~\A f \in SourceFile : lc[f].time # NoTime
    <3>1. rpc' = "raised" /\ reportError' = "TypeError"
      BY <1>4, <2>3 DEF Highlights
    <3>2. \A f \in SourceFile : lc[f].time = text[f].time
      BY <2>1 DEF ReportInv, Traversal, NumbersOK
    <3>3. text' = text
      BY <2>1 DEF counting, input
    <3>4. FailuresExplained'
      BY <2>3, <3>1, <3>2, <3>3 DEF FailuresExplained
    <3> QED
      BY <2>1, <3>1, <3>4, ReportMoves
  <2> QED
    BY <2>2, <2>3
<1>5. CASE UNCHANGED countVars
  <2>1. /\ UNCHANGED <<counting, order, position, counters>> /\ rpc' = rpc /\ reportError' = reportError
        /\ UNCHANGED <<input, reporting>> /\ attempts' = attempts
    BY <1>5 DEF countVars, reporting, counting
  <2>2. NumbersOK' /\ text' = text /\ classes' = classes /\ order' = order /\ \A f \in SourceFile : Keys(f)' = Keys(f)
    BY <2>1, StepsOfReport DEF counting, input
  <2>3. CASE rpc = "waiting"
    BY <2>1, <2>2, <2>3, ReportUntouched DEF ReportInv, ReportTypes
  <2>4. CASE rpc # "waiting"
    <3>1. FailuresExplained'
      <4>1. BilledTooEarly' <=> BilledTooEarly
        BY <2>2 DEF BilledTooEarly, Keys
      <4> QED
        BY <2>1, <2>2, <4>1 DEF ReportInv, FailuresExplained
    <3> QED
      BY <2>1, <2>4, <3>1, ReportMoves DEF ReportInv, ReportTypes, Traversal
  <2> QED
    BY <2>3, <2>4
<1>6. CASE MakeAgain
  BY <1>6, MakeAgainReport
<1>7. CASE StartReport \/ SkipIgnored \/ Accumulate
  BY <1>7, StartReportStep, SkipIgnoredStep, AccumulateStep
<1> QED
  BY <1>1, <1>2, <1>3, <1>4, <1>5, <1>6, <1>7 DEF CountNext

\* MapThenSumSet computes the sum of a function over a finite set: here of the rows, and of the files.
LEMMA RowsSum ==
    ASSUME NEW field, NEW v, SumIs(RowValues(field), Row, v)
    PROVE  SumOfRows(field) = v
<1> DEFINE IsIter(g) == g = [s \in SUBSET Row |-> IF s = {} THEN 0 ELSE counters[Pick(s)][field] + g[s \ {Pick(s)}]]
           g == CHOOSE g : IsIter(g)
<1>1. SumOfRows(field) = g[Row]
  BY DEF SumOfRows, MapThenSumSet, MapThenFoldSet, Pick
<1>2. ASSUME NEW h PROVE IsIter(h) <=> IsSetSum(h, RowValues(field), Row)
  <2>1. \A s \in SUBSET Row : s # {} => RowValues(field)[Pick(s)] = counters[Pick(s)][field]
    BY DEF RowValues, Pick
  <2> QED
    BY <2>1 DEF IsSetSum
<1>3. \E h : IsIter(h)
  BY <1>2 DEF SumIs
<1> HIDE DEF IsIter
<1>4. IsIter(g)
  BY <1>3
<1> HIDE DEF g
<1>5. SumIs(RowValues(field), Row, g[Row])
  BY <1>2, <1>4 DEF SumIs
<1> QED
  BY <1>1, <1>5, SumUniqueness, LineCountConstants

\* The running sum over the files is the sum that ReportRight names.
LEMMA FilesSum ==
    ASSUME NEW field, NEW v, SumIs([f \in Counted |-> lc[f][field]], Counted, v)
    PROVE  SumOfFiles(field) = v
<1> DEFINE F == [f \in Counted |-> lc[f][field]]
           IsIter(g) == g = [s \in SUBSET Counted |-> IF s = {} THEN 0 ELSE lc[Pick(s)][field] + g[s \ {Pick(s)}]]
           g == CHOOSE g : IsIter(g)
<1>1. SumOfFiles(field) = g[Counted]
  BY DEF SumOfFiles, MapThenSumSet, MapThenFoldSet, Pick, Counted
<1>2. ASSUME NEW h PROVE IsIter(h) <=> IsSetSum(h, F, Counted)
  <2>1. \A s \in SUBSET Counted : s # {} => F[Pick(s)] = lc[Pick(s)][field]
    BY DEF Pick
  <2> QED
    BY <2>1 DEF IsSetSum
<1>3. \E h : IsIter(h)
  BY <1>2 DEF SumIs
<1> HIDE DEF IsIter, F
<1>4. IsIter(g)
  BY <1>3
<1> HIDE DEF g
<1>5. SumIs(F, Counted, g[Counted]) /\ SumIs(F, Counted, v)
  BY <1>2, <1>4 DEF SumIs, F
<1>6. IsFiniteSet(Counted)
  BY LineCountConstants, FS_Subset DEF Counted
<1> QED
  BY <1>1, <1>5, <1>6, SumUniqueness

\* When the traversal is over every file has been seen.
LEMMA AllSeen ==
    ASSUME ReportInv, rpc = "done"
    PROVE  \A f \in SourceFile : Seen(f)
<1> DEFINE N == Cardinality(SourceFile)
<1>1. order \in Orders /\ position = N + 1
  BY DEF ReportInv, Traversal
<1>2. N \in Nat /\ IsFiniteSet(SourceFile)
  BY LineCountConstants, FS_CardinalityType
<1>3. order \in Injection(1 .. N, SourceFile)
  BY <1>1 DEF Orders, Injection, IsInjective
<1>4. Cardinality(1 .. N) = N
  BY <1>2, FS_Interval
<1>5. order \in Surjection(1 .. N, SourceFile)
  BY <1>2, <1>3, <1>4, FS_Injection
<1> QED
  BY <1>1, <1>2, <1>5 DEF Surjection, Seen

\* The report of accumulate and highlights (line_counter_report_lib.py): the rows of a finished
\* table add up to the total line, which is the sum over the files that are not ignored, and a
\* report that raises has one of the listed reasons.
THEOREM ReportAlwaysRight == CountSpec => []ReportRight
<1>1. CountInv /\ ReportInv => ReportRight
  <2> SUFFICES ASSUME CountInv, ReportInv PROVE ReportRight
    OBVIOUS
  <2>1. CountTypeOK
    BY DEF CountInv, CountTypes, Active, ReportInv, ReportTypes, NumbersOK, CountTypeOK
  <2>2. TableAddsUp
    <3> SUFFICES ASSUME rpc = "done", NEW field \in Fields
                 PROVE  /\ counters["total"][field] = SumOfRows(field)
                        /\ counters["total"][field] = SumOfFiles(field)
      BY DEF TableAddsUp
    <3>1. /\ SumIs(RowValues(field), Row, counters["total"][field])
          /\ SumIs(FileValues(field), Counted, counters["total"][field])
      BY DEF ReportInv, RunningSums
    <3>2. FileValues(field) = [f \in Counted |-> lc[f][field]]
      BY AllSeen DEF FileValues, Counted
    <3>3. SumIs([f \in Counted |-> lc[f][field]], Counted, counters["total"][field])
      BY <3>1, <3>2
    <3>4. SumOfRows(field) = counters["total"][field]
      BY <3>1, RowsSum
    <3>5. SumOfFiles(field) = counters["total"][field]
      BY <3>3, FilesSum
    <3> QED
      BY <3>4, <3>5
  <2> QED
    BY <2>1, <2>2 DEF ReportInv, ReportRight
<1>2. CountInit => CountInv /\ ReportInv
  BY CountInitInv, ReportInitInv
<1>3. CountInv /\ ReportInv /\ [CountNext]_countVars => (CountInv /\ ReportInv)'
  BY CountNextInv, ReportNextInv
<1> QED
  BY <1>1, <1>2, <1>3, PTL DEF CountSpec

----------------------------------------------------------------------------
(* Recursion over a sequence *)

\* g is defined by recursion from b with F.
IsRecursion(g, N, X, b, F) ==
    g \in [0 .. N -> X] /\ \A n \in 0 .. N : g[n] = IF n = 0 THEN b ELSE F[<<n, g[n - 1]>>]

\* A function that is defined from its value at the number before exists.
LEMMA RecursionExists ==
    ASSUME NEW N \in Nat, NEW X, NEW b \in X, NEW F \in [(1 .. N) \X X -> X]
    PROVE  \E g : IsRecursion(g, N, X, b, F)
<1> DEFINE Good(g, m) == \A n \in 0 .. m : g[n] = IF n = 0 THEN b ELSE F[<<n, g[n - 1]>>]
           P == {m \in Nat : m <= N => \E g \in [0 .. m -> X] : Good(g, m)}
<1>1. 0 \in P
  <2> DEFINE g == [n \in 0 .. 0 |-> b]
  <2>1. g \in [0 .. 0 -> X] /\ Good(g, 0)
    OBVIOUS
  <2> HIDE DEF Good
  <2> QED
    BY <2>1
<1>2. ASSUME NEW m \in Nat, m \in P PROVE m + 1 \in P
  <2> SUFFICES ASSUME m + 1 <= N PROVE \E g \in [0 .. m + 1 -> X] : Good(g, m + 1)
    OBVIOUS
  <2>1. PICK g \in [0 .. m -> X] : Good(g, m)
    BY <1>2
  <2> DEFINE h == [n \in 0 .. m + 1 |-> IF n <= m THEN g[n] ELSE F[<<m + 1, g[m]>>]]
  <2>2. F[<<m + 1, g[m]>>] \in X
    <3>1. m + 1 \in 1 .. N /\ g[m] \in X
      OBVIOUS
    <3> QED
      BY <3>1
  <2>3. h \in [0 .. m + 1 -> X]
    BY <2>2
  <2>4. ASSUME NEW n \in 0 .. m + 1 PROVE h[n] = IF n = 0 THEN b ELSE F[<<n, h[n - 1]>>]
    <3>1. CASE n <= m
      <4>1. n \in 0 .. m /\ h[n] = g[n] /\ (n # 0 => h[n - 1] = g[n - 1])
        BY <3>1
      <4> QED
        BY <2>1, <4>1
    <3>2. CASE n = m + 1
      <4>1. h[n] = F[<<m + 1, g[m]>>] /\ n # 0 /\ h[n - 1] = g[m]
        BY <3>2
      <4> QED
        BY <3>2, <4>1
    <3> QED
      BY <3>1, <3>2
  <2> HIDE DEF h
  <2> QED
    BY <2>3, <2>4
<1> HIDE DEF P
<1>3. Nat \subseteq P
  BY <1>1, <1>2, NumberInduction
<1>4. PICK g \in [0 .. N -> X] : Good(g, N)
  BY <1>3 DEF P
<1> QED
  BY <1>4 DEF IsRecursion

\* Induction over an interval.
LEMMA IntervalInduction ==
    ASSUME NEW N \in Nat, NEW P, 0 \in P, \A n \in 0 .. N : n < N /\ n \in P => n + 1 \in P
    PROVE  0 .. N \subseteq P
<1> DEFINE Q == {n \in Nat : n <= N => n \in P}
<1>1. 0 \in Q
  OBVIOUS
<1>2. \A n \in Nat : n \in Q => n + 1 \in Q
  OBVIOUS
<1> HIDE DEF Q
<1>3. Nat \subseteq Q
  BY <1>1, <1>2, NumberInduction
<1> QED
  BY <1>3 DEF Q

----------------------------------------------------------------------------
(* Filter *)
FilterUpto(g, s, K) ==
    g = [n \in 0 .. Len(s) |->
            IF n = 0 THEN <<>> ELSE IF s[n] \in K THEN Append(g[n - 1], s[n]) ELSE g[n - 1]]

\* What Filter keeps of a sequence, prefix by prefix.
LEMMA FilterSteps ==
    ASSUME NEW S, NEW s \in Seq(S), NEW K
    PROVE  \E g : /\ FilterUpto(g, s, K) /\ Filter(s, K) = g[Len(s)]
                  /\ g[0] = <<>>
                  /\ \A n \in 0 .. Len(s) : g[n] \in Seq(S)
                  /\ \A n \in 1 .. Len(s) : g[n] = IF s[n] \in K THEN Append(g[n - 1], s[n]) ELSE g[n - 1]
<1> DEFINE N == Len(s)
           F == [p \in (1 .. N) \X Seq(S) |-> IF s[p[1]] \in K THEN Append(p[2], s[p[1]]) ELSE p[2]]
<1>1. N \in Nat /\ \A n \in 1 .. N : s[n] \in S
  OBVIOUS
<1>2. F \in [(1 .. N) \X Seq(S) -> Seq(S)]
  BY <1>1
<1>3. \A n \in 1 .. N : \A x \in Seq(S) : F[<<n, x>>] = IF s[n] \in K THEN Append(x, s[n]) ELSE x
  OBVIOUS
<1>4. <<>> \in Seq(S)
  OBVIOUS
<1> HIDE DEF F, N
<1>5. PICK g \in [0 .. N -> Seq(S)] : \A n \in 0 .. N : g[n] = IF n = 0 THEN <<>> ELSE F[<<n, g[n - 1]>>]
  <2> DEFINE X == Seq(S)
             b == <<>>
  <2>1. N \in Nat /\ F \in [(1 .. N) \X X -> X] /\ b \in X
    BY <1>1, <1>2, <1>4
  <2> HIDE DEF X, b
  <2>2. \E g : IsRecursion(g, N, X, b, F)
    BY ONLY <2>1, RecursionExists
  <2> QED
    BY <2>2 DEF IsRecursion, X, b
<1>6. ASSUME NEW n \in 0 .. N
      PROVE  g[n] = IF n = 0 THEN <<>> ELSE IF s[n] \in K THEN Append(g[n - 1], s[n]) ELSE g[n - 1]
  <2>1. CASE n = 0
    BY <1>5, <2>1
  <2>2. CASE n # 0
    <3>1. n \in 1 .. N /\ n - 1 \in 0 .. N
      BY <1>1, <2>2
    <3> QED
      BY <1>3, <1>5, <2>2, <3>1
  <2> QED
    BY <2>1, <2>2
<1>7. FilterUpto(g, s, K)
  BY <1>5, <1>6 DEF FilterUpto, N
<1> DEFINE c == CHOOSE c : FilterUpto(c, s, K)
<1>8. FilterUpto(c, s, K)
  BY <1>7
<1>9. Filter(s, K) = c[Len(s)]
  BY DEF Filter, FilterUpto
<1> HIDE DEF c
<1>10. \A n \in 0 .. N : c[n] = IF n = 0 THEN <<>> ELSE IF s[n] \in K THEN Append(c[n - 1], s[n]) ELSE c[n - 1]
  BY <1>8 DEF FilterUpto, N
<1>11. c[0] = <<>> /\ \A n \in 1 .. N : c[n] = IF s[n] \in K THEN Append(c[n - 1], s[n]) ELSE c[n - 1]
  BY <1>1, <1>10
<1>12. \A n \in 0 .. N : c[n] \in Seq(S)
  <2> DEFINE P == {n \in 0 .. N : c[n] \in Seq(S)}
  <2>1. 0 \in P
    <3>1. 0 \in 0 .. N
      BY <1>1
    <3>2. c[0] \in Seq(S)
      BY <1>4, <1>11
    <3> QED
      BY <3>1, <3>2
  <2>2. ASSUME NEW n \in 0 .. N, n < N, n \in P PROVE n + 1 \in P
    <3>1. n + 1 \in 1 .. N /\ (n + 1) - 1 = n /\ s[n + 1] \in S
      BY <1>1, <2>2
    <3>2. c[n + 1] = IF s[n + 1] \in K THEN Append(c[n], s[n + 1]) ELSE c[n]
      BY <1>11, <3>1
    <3>3. c[n] \in Seq(S) /\ n + 1 \in 0 .. N
      BY <1>1, <2>2
    <3>4. Append(c[n], s[n + 1]) \in Seq(S)
      BY <3>1, <3>3
    <3> QED
      BY <3>2, <3>3, <3>4
  <2> HIDE DEF P
  <2>3. 0 .. N \subseteq P
    BY <1>1, <2>1, <2>2, IntervalInduction
  <2> QED
    BY <2>3 DEF P
<1> QED
  BY <1>8, <1>9, <1>11, <1>12 DEF N

\* What Append does to the range of a list, and to a list without repetitions.
LEMMA AppendIs ==
    ASSUME NEW S, NEW q \in Seq(S), NEW x \in S
    PROVE  /\ Append(q, x) \in Seq(S) /\ Range(Append(q, x)) = Range(q) \cup {x}
           /\ IsInjective(q) /\ x \notin Range(q) => IsInjective(Append(q, x))
<1> DEFINE a == Append(q, x)
<1>1. /\ a \in Seq(S) /\ Len(a) = Len(q) + 1 /\ Len(q) \in Nat
      /\ DOMAIN a = 1 .. Len(q) + 1 /\ DOMAIN q = 1 .. Len(q)
      /\ \A n \in 1 .. Len(q) : a[n] = q[n]
      /\ a[Len(q) + 1] = x
  OBVIOUS
<1> HIDE DEF a
<1>2. \A n \in 1 .. Len(q) + 1 : n \in 1 .. Len(q) \/ n = Len(q) + 1
  BY <1>1
<1>3. Range(a) = Range(q) \cup {x}
  BY <1>1, <1>2 DEF Range
<1>4. IsInjective(q) /\ x \notin Range(q) => IsInjective(a)
  BY <1>1, <1>2 DEF Range, IsInjective
<1> QED
  BY <1>1, <1>3, <1>4 DEF a

\* Filter keeps the elements that are in K, and none twice that was not there twice.
LEMMA FilterIs ==
    ASSUME NEW S, NEW s \in Seq(S), NEW K
    PROVE  /\ Filter(s, K) \in Seq(S) /\ Range(Filter(s, K)) = Range(s) \cap K
           /\ IsInjective(s) => IsInjective(Filter(s, K))
<1> DEFINE N == Len(s)
           Start(n) == {s[i] : i \in 1 .. n}
<1>1. PICK g : /\ Filter(s, K) = g[N]
               /\ g[0] = <<>>
               /\ \A n \in 0 .. N : g[n] \in Seq(S)
               /\ \A n \in 1 .. N : g[n] = IF s[n] \in K THEN Append(g[n - 1], s[n]) ELSE g[n - 1]
  BY FilterSteps
<1>2. N \in Nat /\ (\A n \in 1 .. N : s[n] \in S) /\ DOMAIN s = 1 .. N
  OBVIOUS
<1>3. \A n \in 0 .. N : n < N => Start(n + 1) = Start(n) \cup {s[n + 1]}
  <2> SUFFICES ASSUME NEW n \in 0 .. N PROVE Start(n + 1) = Start(n) \cup {s[n + 1]}
    OBVIOUS
  <2>1. 1 .. n + 1 = (1 .. n) \cup {n + 1}
    BY <1>2
  <2> QED
    BY <2>1
<1>4. \A n \in 0 .. N : n < N /\ IsInjective(s) => s[n + 1] \notin Start(n)
  BY <1>2 DEF IsInjective
<1>5. Start(N) = Range(s) /\ Start(0) = {}
  BY <1>2 DEF Range
<1> HIDE DEF N, Start
<1> DEFINE Ok(n) == Range(g[n]) = Start(n) \cap K /\ (IsInjective(s) => IsInjective(g[n]))
           P == {n \in 0 .. N : Ok(n)}
<1>6. 0 \in P
  <2>1. Range(<<>>) = {} /\ IsInjective(<<>>)
    BY DEF Range, IsInjective
  <2>2. 0 \in 0 .. N
    BY <1>2
  <2>3. Ok(0)
    BY <1>1, <1>5, <2>1
  <2> HIDE DEF Ok
  <2> QED
    BY <2>2, <2>3
<1>7. ASSUME NEW n \in 0 .. N, n < N, n \in P PROVE n + 1 \in P
  <2>1. n + 1 \in 1 .. N /\ n + 1 \in 0 .. N /\ (n + 1) - 1 = n /\ s[n + 1] \in S /\ g[n] \in Seq(S)
    <3> HIDE DEF P
    <3>1. n + 1 \in 1 .. N /\ n + 1 \in 0 .. N /\ (n + 1) - 1 = n
      BY <1>2, <1>7
    <3> QED
      BY <1>1, <1>2, <3>1
  <2>2. g[n + 1] = IF s[n + 1] \in K THEN Append(g[n], s[n + 1]) ELSE g[n]
    BY <1>1, <2>1
  <2>3. Ok(n)
    <3> HIDE DEF Ok
    <3> QED
      BY <1>7
  <2>4. /\ Range(Append(g[n], s[n + 1])) = Range(g[n]) \cup {s[n + 1]}
        /\ IsInjective(g[n]) /\ s[n + 1] \notin Range(g[n]) => IsInjective(Append(g[n], s[n + 1]))
    BY <2>1, AppendIs
  <2>5. Start(n + 1) = Start(n) \cup {s[n + 1]} /\ (IsInjective(s) => s[n + 1] \notin Start(n))
    BY <1>3, <1>4, <1>7
  <2>6. Range(g[n + 1]) = Start(n + 1) \cap K
    BY <2>2, <2>3, <2>4, <2>5
  <2>7. IsInjective(s) => IsInjective(g[n + 1])
    BY <2>2, <2>3, <2>4, <2>5
  <2>8. Ok(n + 1)
    BY <2>6, <2>7
  <2> HIDE DEF Ok
  <2> QED
    BY <2>1, <2>8
<1> HIDE DEF P
<1>8. 0 .. N \subseteq P
  BY <1>2, <1>6, <1>7, IntervalInduction
<1>9. N \in 0 .. N
  BY <1>2
<1>10. Ok(N)
  <2> HIDE DEF Ok
  <2> QED
    BY <1>8, <1>9 DEF P
<1> QED
  BY <1>1, <1>5, <1>9, <1>10

----------------------------------------------------------------------------
(* FlattenSeq *)

\* c joins the sequences of ss one after the other.
IsFlattening(c, ss, S) ==
    /\ \A n \in 1 .. Len(ss) : c[n] \in Seq(S)
    /\ c[1] = ss[1] /\ \A n \in 1 .. Len(ss) - 1 : c[n + 1] = c[n] \o ss[n + 1]
    /\ FlattenSeq(ss) = c[Len(ss)]

\* FlattenSeq, step by step.
LEMMA FlattenSteps ==
    ASSUME NEW S, NEW ss \in Seq(Seq(S)), ss # <<>>
    PROVE  \E c : IsFlattening(c, ss, S)
<1> DEFINE N == Len(ss)
           X == Seq(S)
<1>0. N \in Nat /\ \A n \in 1 .. N : ss[n] \in X
  OBVIOUS
<1>00. N # 0
  OBVIOUS
<1> DEFINE IsFlat(f) == f = [i \in 1 .. N |-> IF i = 1 THEN ss[i] ELSE f[i - 1] \o ss[i]]
           F == [p \in (1 .. N - 1) \X X |-> p[2] \o ss[p[1] + 1]]
           c == CHOOSE c : IsFlat(c)
<1>1. N - 1 \in Nat /\ ss[1] \in X
  BY <1>0, <1>00
<1>2. ASSUME NEW n \in 1 .. N - 1, NEW x \in X PROVE F[<<n, x>>] = x \o ss[n + 1] /\ x \o ss[n + 1] \in X
  <2>1. ss[n + 1] \in Seq(S) /\ x \in Seq(S)
    BY <1>0
  <2>2. x \o ss[n + 1] \in Seq(S)
    BY <2>1
  <2> QED
    BY <2>2
<1>3. F \in [(1 .. N - 1) \X X -> X]
  BY <1>0
<1>4. FlattenSeq(ss) = c[N]
  BY <1>00 DEF FlattenSeq
<1> HIDE DEF F, N, X
<1>5. \E g : IsRecursion(g, N - 1, X, ss[1], F)
  BY <1>1, <1>3, RecursionExists
<1>6. PICK g : IsRecursion(g, N - 1, X, ss[1], F)
  BY <1>5
<1> DEFINE f == [i \in 1 .. N |-> g[i - 1]]
<1>7. ASSUME NEW i \in 1 .. N PROVE f[i] = IF i = 1 THEN ss[i] ELSE f[i - 1] \o ss[i]
  <2>1. CASE i = 1
    <3>1. 0 \in 0 .. N - 1 /\ 1 \in 1 .. N /\ 1 - 1 = 0
      BY <1>0, <1>1
    <3>2. g[0] = ss[1]
      BY <1>6, <3>1 DEF IsRecursion
    <3> QED
      BY <2>1, <3>1, <3>2
  <2>2. CASE i # 1
    <3>1. i - 1 \in 1 .. N - 1 /\ i - 1 \in 0 .. N - 1 /\ (i - 1) - 1 \in 0 .. N - 1 /\ i - 1 \in 1 .. N /\ i - 1 # 0
          /\ (i - 1) + 1 = i
      BY <1>0, <2>2
    <3>2. g[i - 1] = F[<<i - 1, g[(i - 1) - 1]>>] /\ g[(i - 1) - 1] \in X
      BY <1>6, <3>1 DEF IsRecursion
    <3>3. F[<<i - 1, g[(i - 1) - 1]>>] = g[(i - 1) - 1] \o ss[i]
      BY <1>2, <3>1, <3>2
    <3> QED
      BY <2>2, <3>1, <3>2, <3>3
  <2> QED
    BY <2>1, <2>2
<1> HIDE DEF f
<1>8. f = [i \in 1 .. N |-> f[i]]
  BY DEF f
<1>9. IsFlat(f)
  BY <1>7, <1>8
<1>10. IsFlat(c)
  <2> HIDE DEF IsFlat
  <2> QED
    BY <1>9
<1> HIDE DEF c
<1>11. \A i \in 1 .. N : c[i] = IF i = 1 THEN ss[i] ELSE c[i - 1] \o ss[i]
  BY <1>10
<1> DEFINE P == {n \in 0 .. N - 1 : c[n + 1] \in X}
<1>12. 0 \in P
  BY <1>0, <1>00, <1>1, <1>11
<1>13. ASSUME NEW n \in 0 .. N - 1, n < N - 1, n \in P PROVE n + 1 \in P
  <2>1. (n + 1) + 1 \in 1 .. N /\ n + 1 \in 0 .. N - 1 /\ (n + 1) + 1 # 1 /\ ((n + 1) + 1) - 1 = n + 1
        /\ n + 1 \in 1 .. N - 1
    BY <1>0, <1>13
  <2>2. c[(n + 1) + 1] = c[n + 1] \o ss[(n + 1) + 1]
    BY <1>11, <2>1
  <2>3. c[n + 1] \in X
    BY <1>13
  <2>4. c[n + 1] \o ss[(n + 1) + 1] \in X
    BY <1>2, <2>1, <2>3
  <2> QED
    BY <2>1, <2>2, <2>4
<1> HIDE DEF P
<1>14. 0 .. N - 1 \subseteq P
  BY <1>1, <1>12, <1>13, IntervalInduction
<1>15. ASSUME NEW n \in 1 .. N PROVE c[n] \in X
  <2>1. n - 1 \in 0 .. N - 1 /\ (n - 1) + 1 = n
    BY <1>0
  <2> QED
    BY <1>14, <2>1 DEF P
<1>16. c[1] = ss[1] /\ \A n \in 1 .. N - 1 : c[n + 1] = c[n] \o ss[n + 1]
  <2>1. 1 \in 1 .. N /\ \A n \in 1 .. N - 1 : n + 1 \in 1 .. N /\ n + 1 # 1 /\ (n + 1) - 1 = n
    BY <1>0, <1>1
  <2> QED
    BY <1>11, <2>1
<1>17. IsFlattening(c, ss, S)
  BY <1>4, <1>15, <1>16 DEF IsFlattening, N, X
<1> QED
  BY <1>17

\* The concatenation of sequences over S is a sequence over S.
LEMMA FlattenType ==
    ASSUME NEW S, NEW ss \in Seq(Seq(S))
    PROVE  FlattenSeq(ss) \in Seq(S)
<1>1. Len(ss) \in Nat /\ (ss = <<>> <=> Len(ss) = 0)
  OBVIOUS
<1>2. CASE ss = <<>>
  BY <1>2 DEF FlattenSeq
<1>3. CASE ss # <<>>
  <2>1. PICK c : IsFlattening(c, ss, S)
    BY <1>3, FlattenSteps
  <2> QED
    BY <1>1, <1>3, <2>1 DEF IsFlattening
<1> QED
  BY <1>2, <1>3

\* Two sequences, one after the other.
LEMMA ConcatIs ==
    ASSUME NEW S, NEW s \in Seq(S), NEW u \in Seq(S)
    PROVE  /\ s \o u \in Seq(S) /\ Len(s \o u) = Len(s) + Len(u) /\ Range(s \o u) = Range(s) \cup Range(u)
           /\ IsInjective(s) /\ IsInjective(u) /\ Range(s) \cap Range(u) = {} => IsInjective(s \o u)
<1> DEFINE c == s \o u
           M == Len(s)
           N == Len(u)
<1>1. M \in Nat /\ N \in Nat /\ DOMAIN s = 1 .. M /\ DOMAIN u = 1 .. N
  OBVIOUS
<1>3. /\ c \in Seq(S) /\ Len(c) = M + N /\ DOMAIN c = 1 .. M + N
      /\ \A i \in 1 .. M + N : c[i] = IF i <= M THEN s[i] ELSE u[i - M]
  BY <1>1
<1> HIDE DEF c, M, N
<1>4. \A i \in 1 .. M : i \in 1 .. M + N /\ c[i] = s[i]
  BY <1>1, <1>3
<1>5. \A i \in 1 .. M + N : i > M => i - M \in 1 .. N /\ c[i] = u[i - M]
  BY <1>1, <1>3
<1>6. \A i \in 1 .. N : i + M \in 1 .. M + N /\ c[i + M] = u[i]
  <2> SUFFICES ASSUME NEW i \in 1 .. N PROVE i + M \in 1 .. M + N /\ c[i + M] = u[i]
    OBVIOUS
  <2>1. i + M \in 1 .. M + N /\ i + M > M /\ (i + M) - M = i
    BY <1>1
  <2> QED
    BY <1>5, <2>1
<1>7. Range(c) = Range(s) \cup Range(u)
  <2>1. ASSUME NEW x \in Range(c) PROVE x \in Range(s) \cup Range(u)
    <3>1. PICK i \in 1 .. M + N : x = c[i]
      BY <1>3, <2>1 DEF Range
    <3>2. i \in 1 .. M \/ i > M
      BY <1>1
    <3> QED
      BY <1>1, <1>4, <1>5, <3>1, <3>2 DEF Range
  <2>2. ASSUME NEW x \in Range(s) PROVE x \in Range(c)
    BY <1>1, <1>3, <1>4, <2>2 DEF Range
  <2>3. ASSUME NEW x \in Range(u) PROVE x \in Range(c)
    BY <1>1, <1>3, <1>6, <2>3, ZenonT(60) DEF Range
  <2> QED
    BY <2>1, <2>2, <2>3
<1>8. ASSUME IsInjective(s), IsInjective(u), Range(s) \cap Range(u) = {} PROVE IsInjective(c)
  <2> SUFFICES ASSUME NEW i \in 1 .. M + N, NEW j \in 1 .. M + N, c[i] = c[j] PROVE i = j
    BY <1>3 DEF IsInjective
  <2>1. (i \in 1 .. M \/ i > M) /\ (j \in 1 .. M \/ j > M)
    BY <1>1
  <2>2. \A a, b \in 1 .. M : s[a] = s[b] => a = b
    BY <1>1, <1>8 DEF IsInjective
  <2>3. \A a, b \in 1 .. N : u[a] = u[b] => a = b
    BY <1>1, <1>8 DEF IsInjective
  <2>4. \A a \in 1 .. M, b \in 1 .. N : s[a] # u[b]
    BY <1>1, <1>8 DEF Range
  <2>5. CASE i \in 1 .. M /\ j \in 1 .. M
    BY <1>4, <2>2, <2>5
  <2>6. CASE i > M /\ j > M
    <3>1. i - M = j - M
      BY <1>5, <2>3, <2>6
    <3> QED
      BY <1>1, <3>1
  <2>7. CASE i \in 1 .. M /\ j > M
    BY <1>4, <1>5, <2>4, <2>7
  <2>8. CASE i > M /\ j \in 1 .. M
    BY <1>4, <1>5, <2>4, <2>8
  <2> QED
    BY <2>1, <2>5, <2>6, <2>7, <2>8
<1> QED
  BY <1>3, <1>7, <1>8 DEF c, M, N

\* What is in the concatenation, and when each is there once.
LEMMA FlattenIs ==
    ASSUME NEW S, NEW ss \in Seq(Seq(S))
    PROVE  /\ \A x : x \in Range(FlattenSeq(ss)) <=> \E i \in DOMAIN ss : x \in Range(ss[i])
           /\ /\ \A i \in DOMAIN ss : IsInjective(ss[i])
              /\ \A i, j \in DOMAIN ss : i # j => Range(ss[i]) \cap Range(ss[j]) = {}
              => IsInjective(FlattenSeq(ss))
<1> DEFINE N == Len(ss)
           Apart == /\ \A i \in 1 .. N : IsInjective(ss[i])
                    /\ \A i, j \in 1 .. N : i # j => Range(ss[i]) \cap Range(ss[j]) = {}
<1>1. N \in Nat /\ DOMAIN ss = 1 .. N /\ \A n \in 1 .. N : ss[n] \in Seq(S)
  OBVIOUS
<1>2. CASE ss = <<>>
  BY <1>2 DEF FlattenSeq, Range, IsInjective
<1>3. CASE ss # <<>>
  <2>1. PICK c : IsFlattening(c, ss, S)
    BY <1>3, FlattenSteps
  <2>2. N - 1 \in Nat /\ N \in 1 .. N
    BY <1>1, <1>3
  <2> DEFINE Joined(n) == \A x : x \in Range(c[n]) <=> \E i \in 1 .. n : x \in Range(ss[i])
             Once(n) == Apart => IsInjective(c[n])
             P == {n \in 0 .. N - 1 : Joined(n + 1) /\ Once(n + 1)}
  <2>3. /\ \A n \in 1 .. N : c[n] \in Seq(S)
        /\ c[1] = ss[1] /\ \A n \in 1 .. N - 1 : c[n + 1] = c[n] \o ss[n + 1]
        /\ FlattenSeq(ss) = c[N]
    BY <2>1 DEF IsFlattening
  <2> HIDE DEF N
  <2>4. 0 \in P
    <3>1. 1 \in 1 .. N /\ 0 + 1 = 1 /\ 0 \in 0 .. N - 1
      BY <1>1, <2>2
    <3>2. Joined(1)
      BY <2>3
    <3>3. Once(1)
      BY <2>3, <3>1
    <3> HIDE DEF Joined, Once
    <3> QED
      BY <3>1, <3>2, <3>3
  <2>5. ASSUME NEW n \in 0 .. N - 1, n < N - 1, n \in P PROVE n + 1 \in P
    <3> DEFINE m == n + 1
    <3>1. m \in 1 .. N - 1 /\ m \in 1 .. N /\ m + 1 \in 1 .. N /\ m \in 0 .. N - 1 /\ m \in Nat
      BY <1>1, <2>2, <2>5, SMTT(30)
    <3>2. Joined(m) /\ Once(m)
      BY <2>5
    <3> HIDE DEF m
    <3>3. c[m + 1] = c[m] \o ss[m + 1] /\ c[m] \in Seq(S) /\ ss[m + 1] \in Seq(S)
      BY <1>1, <2>3, <3>1
    <3>4. /\ Range(c[m + 1]) = Range(c[m]) \cup Range(ss[m + 1])
          /\ IsInjective(c[m]) /\ IsInjective(ss[m + 1]) /\ Range(c[m]) \cap Range(ss[m + 1]) = {} => IsInjective(c[m + 1])
      BY <3>3, ConcatIs
    <3>5. \A i \in 1 .. m + 1 : i \in 1 .. m \/ i = m + 1
      BY <3>1
    <3>6. \A i \in 1 .. m : i \in 1 .. m + 1 /\ i # m + 1 /\ i \in 1 .. N
      BY <1>1, <3>1
    <3>7. m + 1 \in 1 .. m + 1
      BY <3>1
    <3>8. Joined(m + 1)
      BY <3>2, <3>4, <3>5, <3>6, <3>7
    <3>9. Once(m + 1)
      <4> SUFFICES ASSUME Apart PROVE IsInjective(c[m + 1])
        OBVIOUS
      <4>1. Range(c[m]) \cap Range(ss[m + 1]) = {}
        BY <3>1, <3>2, <3>6
      <4> QED
        BY <3>1, <3>2, <3>4, <4>1
    <3> HIDE DEF Joined, Once
    <3> QED
      BY <3>1, <3>8, <3>9 DEF m
  <2> HIDE DEF P
  <2>6. 0 .. N - 1 \subseteq P
    BY <2>2, <2>4, <2>5, IntervalInduction
  <2>7. N - 1 \in P /\ (N - 1) + 1 = N
    BY <1>1, <2>2, <2>6
  <2>8. Joined(N) /\ Once(N)
    BY <2>7 DEF P
  <2> QED
    BY <1>1, <2>3, <2>8
<1> QED
  BY <1>2, <1>3

----------------------------------------------------------------------------
(* The variants of a suite, and the workers *)
Variable == [label : STRING, values : Seq(Seq(STRING))]
Value == [variable : STRING, label : Seq(STRING)]

\* The variants of the last variable, and of a variable before variants x.
LastVariants(v) == [j \in DOMAIN v.values |-> <<ValueOf(v, j)>>]
Combined(v, x) == FlattenSeq([j \in DOMAIN v.values |-> [n \in DOMAIN x |-> <<ValueOf(v, j)>> \o x[n]]])

\* The variants of a variable are lists of values.
LEMMA VariantsOfVariable ==
    ASSUME NEW v \in Variable, NEW x \in Seq(Seq(Value))
    PROVE  LastVariants(v) \in Seq(Seq(Value)) /\ Combined(v, x) \in Seq(Seq(Value))
<1>1. v.values \in Seq(Seq(STRING)) /\ v.label \in STRING
  BY DEF Variable
<1>2. DOMAIN v.values = 1 .. Len(v.values) /\ Len(v.values) \in Nat
  BY <1>1
<1>3. \A j \in DOMAIN v.values : ValueOf(v, j) \in Value
  BY <1>1, <1>2 DEF ValueOf, Value
<1> DEFINE V == Value
<1> HIDE DEF V
<1>4. \A j \in DOMAIN v.values : <<ValueOf(v, j)>> \in Seq(V)
  BY <1>3 DEF V
<1>5. LastVariants(v) \in Seq(Seq(V))
  BY <1>2, <1>4 DEF LastVariants
<1>6. x \in Seq(Seq(V)) /\ DOMAIN x = 1 .. Len(x) /\ Len(x) \in Nat
  BY DEF V
<1>7. ASSUME NEW j \in DOMAIN v.values
      PROVE  [n \in DOMAIN x |-> <<ValueOf(v, j)>> \o x[n]] \in Seq(Seq(V))
  <2>1. \A n \in DOMAIN x : x[n] \in Seq(V)
    BY <1>6
  <2>2. \A n \in DOMAIN x : <<ValueOf(v, j)>> \o x[n] \in Seq(V)
    BY <1>4, <2>1
  <2> QED
    BY <1>6, <2>2
<1>8. [j \in DOMAIN v.values |-> [n \in DOMAIN x |-> <<ValueOf(v, j)>> \o x[n]]] \in Seq(Seq(Seq(V)))
  <2> DEFINE row(j) == [n \in DOMAIN x |-> <<ValueOf(v, j)>> \o x[n]]
             T == Seq(Seq(V))
  <2>1. \A j \in DOMAIN v.values : row(j) \in T
    BY <1>7
  <2> HIDE DEF row, T
  <2>2. [j \in DOMAIN v.values |-> row(j)] \in Seq(T)
    BY <1>2, <2>1
  <2> QED
    BY <2>2 DEF row, T
<1>9. Combined(v, x) \in Seq(Seq(V))
  <2> DEFINE T == Seq(V)
             ss == [j \in DOMAIN v.values |-> [n \in DOMAIN x |-> <<ValueOf(v, j)>> \o x[n]]]
  <2>1. ss \in Seq(Seq(T))
    BY <1>8
  <2>2. Combined(v, x) = FlattenSeq(ss)
    BY DEF Combined
  <2> HIDE DEF T, ss
  <2>3. FlattenSeq(ss) \in Seq(T)
    BY <2>1, FlattenType
  <2> QED
    BY <2>2, <2>3 DEF T
<1> QED
  BY <1>5, <1>9 DEF V

\* f[i]: the variants of the variables from the i-th on.
IsVariants(f, vs) ==
    /\ \A i \in 1 .. Len(vs) : f[i] \in Seq(Seq(Value))
    /\ f[Len(vs)] = LastVariants(vs[Len(vs)])
    /\ \A i \in 1 .. Len(vs) - 1 : f[i] = Combined(vs[i], f[i + 1])
    /\ MakeVariants(vs) = f[1]

\* make_variants, variable by variable from the last.
LEMMA VariantSteps ==
    ASSUME NEW vs \in Seq(Variable), vs # <<>>
    PROVE  \E f : IsVariants(f, vs)
<1> DEFINE N == Len(vs)
           X == Seq(Seq(Value))
           b == LastVariants(vs[N])
           F == [p \in (1 .. N - 1) \X X |-> Combined(vs[N - p[1]], p[2])]
           Step(f, i) == IF i = N THEN LastVariants(vs[i]) ELSE Combined(vs[i], f[i + 1])
           IsFrom(f) == f = [i \in 1 .. N |-> Step(f, i)]
           c == CHOOSE c : IsFrom(c)
<1>1. N \in Nat /\ N >= 1 /\ N - 1 \in Nat /\ \A n \in 1 .. N : vs[n] \in Variable
  OBVIOUS
<1>2. MakeVariants(vs) = c[1]
  BY DEF MakeVariants, LastVariants, Combined
<1>3. b \in X
  <2>1. <<>> \in X /\ vs[N] \in Variable
    BY <1>1
  <2> QED
    BY <2>1, VariantsOfVariable
<1>4. ASSUME NEW n \in 1 .. N - 1, NEW x \in X PROVE F[<<n, x>>] = Combined(vs[N - n], x) /\ Combined(vs[N - n], x) \in X
  <2>1. N - n \in 1 .. N
    BY <1>1
  <2>2. Combined(vs[N - n], x) \in X
    BY <1>1, <2>1, VariantsOfVariable
  <2> QED
    BY <2>2
<1>5. F \in [(1 .. N - 1) \X X -> X]
  <2>1. \A p \in (1 .. N - 1) \X X : p[1] \in 1 .. N - 1 /\ p[2] \in X
    OBVIOUS
  <2> HIDE DEF X
  <2>2. \A p \in (1 .. N - 1) \X X : Combined(vs[N - p[1]], p[2]) \in X
    BY <1>4, <2>1
  <2> QED
    BY <2>2
<1> HIDE DEF F, N, X, b
<1>6. PICK g : IsRecursion(g, N - 1, X, b, F)
  BY <1>1, <1>3, <1>5, RecursionExists
<1> DEFINE f == [i \in 1 .. N |-> g[N - i]]
<1>7. ASSUME NEW i \in 1 .. N PROVE f[i] = Step(f, i) /\ f[i] \in X
  <2>1. N - i \in 0 .. N - 1 /\ f[i] = g[N - i]
    BY <1>1
  <2>2. f[i] \in X
    BY <1>6, <2>1 DEF IsRecursion
  <2>3. CASE i = N
    <3>1. N - i = 0 /\ 0 \in 0 .. N - 1
      BY <1>1, <2>3
    <3>2. g[0] = b
      BY <1>6, <3>1 DEF IsRecursion
    <3> QED
      BY <2>1, <2>2, <2>3, <3>1, <3>2 DEF b
  <2>4. CASE i # N
    <3>1. N - i \in 1 .. N - 1 /\ N - i # 0 /\ (N - i) - 1 = N - (i + 1) /\ i + 1 \in 1 .. N /\ N - (N - i) = i
      BY <1>1, <2>4
    <3>2. g[N - i] = F[<<N - i, g[N - (i + 1)]>>]
      BY <1>6, <2>1, <3>1 DEF IsRecursion
    <3>3. N - (i + 1) \in 0 .. N - 1
      BY <1>1, <3>1
    <3>4. g[N - (i + 1)] \in X /\ f[i + 1] = g[N - (i + 1)]
      BY <1>6, <3>1, <3>3 DEF IsRecursion
    <3>5. g[N - i] = Combined(vs[i], f[i + 1])
      BY <1>4, <3>1, <3>2, <3>4
    <3> QED
      BY <2>1, <2>2, <2>4, <3>5
  <2> QED
    BY <2>3, <2>4
<1>8. f = [i \in 1 .. N |-> f[i]]
  OBVIOUS
<1> HIDE DEF f
<1>9. IsFrom(f)
  BY <1>7, <1>8
<1>10. IsFrom(c)
  <2> HIDE DEF IsFrom
  <2> QED
    BY <1>9
<1> HIDE DEF c
<1>11. \A i \in 1 .. N : c[i] = Step(c, i)
  BY <1>10
<1> DEFINE P == {n \in 0 .. N - 1 : c[N - n] = f[N - n]}
<1>12. 0 \in P
  <2>1. N - 0 = N /\ N \in 1 .. N /\ 0 \in 0 .. N - 1
    BY <1>1
  <2>2. c[N] = LastVariants(vs[N]) /\ f[N] = LastVariants(vs[N])
    BY <1>7, <1>11, <2>1
  <2> QED
    BY <2>1, <2>2
<1>13. ASSUME NEW n \in 0 .. N - 1, n < N - 1, n \in P PROVE n + 1 \in P
  <2> DEFINE i == N - (n + 1)
  <2>1. i \in 1 .. N /\ i # N /\ i + 1 = N - n /\ n + 1 \in 0 .. N - 1
    BY <1>1, <1>13
  <2>2. c[N - n] = f[N - n]
    BY <1>13
  <2> HIDE DEF i
  <2>3. c[i] = Combined(vs[i], c[i + 1]) /\ f[i] = Combined(vs[i], f[i + 1])
    BY <1>7, <1>11, <2>1
  <2>4. c[i] = f[i]
    BY <2>1, <2>2, <2>3
  <2> QED
    BY <2>1, <2>4 DEF i
<1> HIDE DEF P
<1>14. 0 .. N - 1 \subseteq P
  BY <1>1, <1>12, <1>13, IntervalInduction
<1>15. N - 1 \in P /\ N - (N - 1) = 1
  BY <1>1, <1>14
<1>16. c[1] = f[1] /\ 1 \in 1 .. N
  BY <1>1, <1>15 DEF P
<1>17. /\ \A i \in 1 .. N : f[i] \in Seq(Seq(Value))
       /\ f[N] = LastVariants(vs[N])
       /\ \A i \in 1 .. N - 1 : f[i] = Combined(vs[i], f[i + 1])
  <2>1. N \in 1 .. N /\ \A i \in 1 .. N - 1 : i \in 1 .. N /\ i # N
    BY <1>1
  <2> QED
    BY <1>7, <2>1 DEF X
<1>18. IsVariants(f, vs)
  BY <1>2, <1>16, <1>17 DEF IsVariants, N
<1> QED
  BY <1>18

\* The variants of a part are lists of values.
LEMMA MakeVariantsType ==
    ASSUME NEW vs \in Seq(Variable), vs # <<>>
    PROVE  MakeVariants(vs) \in Seq(Seq(Value))
<1>1. PICK f : IsVariants(f, vs)
  BY VariantSteps
<1>2. 1 \in 1 .. Len(vs)
  OBVIOUS
<1> QED
  BY <1>1, <1>2 DEF IsVariants

\* A suite has finitely many variants, one output file each.
LEMMA OutfilesAre ==
    ASSUME NEW s \in Suites
    PROVE  Len(Outfiles(s)) \in Nat /\ DOMAIN Outfiles(s) = 1 .. Len(Outfiles(s))
<1> DEFINE parts == s.parts
           ss == [i \in DOMAIN parts |-> MakeVariants(parts[i])]
           X == Seq(Value)
<1>1. parts \in Seq(Seq(Variable) \ {<<>>})
  BY SuiteConstants DEF Variable
<1>2. \A i \in DOMAIN parts : parts[i] \in Seq(Variable) /\ parts[i] # <<>>
  BY <1>1
<1>3. \A i \in DOMAIN parts : MakeVariants(parts[i]) \in Seq(X)
  BY <1>2, MakeVariantsType
<1>4. ss \in Seq(Seq(X))
  <2> DEFINE T == Seq(X)
             row(i) == MakeVariants(parts[i])
  <2>1. (\A i \in DOMAIN parts : row(i) \in T) /\ DOMAIN parts = 1 .. Len(parts) /\ Len(parts) \in Nat
    BY <1>1, <1>3
  <2> HIDE DEF T, row
  <2>2. [i \in DOMAIN parts |-> row(i)] \in Seq(T)
    BY <2>1
  <2> QED
    BY <2>2 DEF T, row
<1>5. Variants(s) = FlattenSeq(ss)
  BY DEF Variants
<1> HIDE DEF ss, X
<1>6. Variants(s) \in Seq(X)
  BY <1>4, <1>5, FlattenType
<1>7. Len(Variants(s)) \in Nat /\ DOMAIN Variants(s) = 1 .. Len(Variants(s))
  BY <1>6
<1>8. DOMAIN Outfiles(s) = 1 .. Len(Variants(s))
  BY <1>7 DEF Outfiles
<1> QED
  <2>1. Outfiles(s) \in [1 .. Len(Variants(s)) -> {Outfile(s, Variants(s)[t]) : t \in 1 .. Len(Variants(s))}]
    BY <1>7 DEF Outfiles
  <2>2. Outfiles(s) \in Seq({Outfile(s, Variants(s)[t]) : t \in 1 .. Len(Variants(s))})
    BY <1>7, <2>1
  <2> QED
    BY <1>7, <1>8, <2>2

\* The workers are machines.
LEMMA WorkersAre ==
    ASSUME regexes \in WorkersFiles
    PROVE  Workers \in Seq(Machine)
<1> DEFINE hits(i) == Filter(regexes, {r \in Range(regexes) : Instances[i] \in r})
           ss == [i \in DOMAIN Instances |-> [j \in DOMAIN hits(i) |-> Instances[i]]]
<1>1. regexes \in Seq(SUBSET Machine) /\ Instances \in Seq(Machine)
  BY FleetConstants
<1>2. \A i \in DOMAIN Instances : hits(i) \in Seq(SUBSET Machine)
  BY <1>1, FilterIs
<1>3. \A i \in DOMAIN Instances : [j \in DOMAIN hits(i) |-> Instances[i]] \in Seq(Machine)
  <2> SUFFICES ASSUME NEW i \in DOMAIN Instances PROVE [j \in DOMAIN hits(i) |-> Instances[i]] \in Seq(Machine)
    OBVIOUS
  <2>1. hits(i) \in Seq(SUBSET Machine)
    BY <1>2
  <2> HIDE DEF hits
  <2>2. DOMAIN hits(i) = 1 .. Len(hits(i)) /\ Len(hits(i)) \in Nat /\ Instances[i] \in Machine
    BY <1>1, <2>1
  <2> QED
    BY <2>2
<1>4. FilterWorkers(regexes) = FlattenSeq(ss)
  BY DEF FilterWorkers
<1>5. DOMAIN Instances = 1 .. Len(Instances) /\ Len(Instances) \in Nat
  BY <1>1
<1> HIDE DEF hits
<1>6. ss \in Seq(Seq(Machine))
  BY <1>3, <1>5
<1> HIDE DEF ss
<1>7. FilterWorkers(regexes) \in Seq(Machine)
  BY <1>4, <1>6, FlattenType
<1> QED
  BY <1>7, FilterIs DEF Workers

----------------------------------------------------------------------------
(* Output files tell variants apart *)

\* Sequences of the same length with the same elements are equal.
LEMMA SameElements ==
    ASSUME NEW S, NEW s \in Seq(S), NEW u \in Seq(S), Len(s) = Len(u), \A i \in 1 .. Len(s) : s[i] = u[i]
    PROVE  s = u
<1>1. s \in [1 .. Len(s) -> S] /\ u \in [1 .. Len(s) -> S]
  OBVIOUS
<1> QED
  BY <1>1

\* The parts of a concatenation.
LEMMA ConcatParts ==
    ASSUME NEW S, NEW s \in Seq(S), NEW u \in Seq(S)
    PROVE  /\ Len(s \o u) = Len(s) + Len(u) /\ Len(s) \in Nat /\ Len(u) \in Nat
           /\ \A i \in 1 .. Len(s) : (s \o u)[i] = s[i]
           /\ \A i \in 1 .. Len(u) : (s \o u)[Len(s) + i] = u[i]
  OBVIOUS

\* Parts of the same length at the same place are equal when the wholes are.
LEMMA ConcatCancel ==
    ASSUME NEW S, NEW a \in Seq(S), NEW b \in Seq(S), NEW c \in Seq(S), NEW d \in Seq(S),
           Len(a) = Len(c), a \o b = c \o d
    PROVE  a = c /\ b = d
<1> DEFINE ab == a \o b
           cd == c \o d
<1>1. /\ Len(ab) = Len(a) + Len(b) /\ Len(a) \in Nat /\ Len(b) \in Nat
      /\ \A i \in 1 .. Len(a) : ab[i] = a[i]
      /\ \A i \in 1 .. Len(b) : ab[Len(a) + i] = b[i]
  BY ONLY a \in Seq(S), b \in Seq(S), ConcatParts
<1>2. /\ Len(cd) = Len(c) + Len(d) /\ Len(c) \in Nat /\ Len(d) \in Nat
      /\ \A i \in 1 .. Len(c) : cd[i] = c[i]
      /\ \A i \in 1 .. Len(d) : cd[Len(c) + i] = d[i]
  BY ONLY c \in Seq(S), d \in Seq(S), ConcatParts
<1>3. ab = cd
  OBVIOUS
<1> HIDE DEF ab, cd
<1>4. Len(b) = Len(d)
  BY ONLY <1>1, <1>2, <1>3, Len(a) = Len(c)
<1>5. (\A i \in 1 .. Len(a) : a[i] = c[i]) /\ (\A i \in 1 .. Len(b) : b[i] = d[i])
  BY ONLY <1>1, <1>2, <1>3, <1>4, Len(a) = Len(c)
<1>6. a = c
  BY ONLY <1>5, a \in Seq(S), c \in Seq(S), Len(a) = Len(c), SameElements
<1>7. b = d
  BY ONLY <1>4, <1>5, b \in Seq(S), d \in Seq(S), SameElements
<1> QED
  BY <1>6, <1>7

\* Lists of lists that agree in their lengths and flattened are the same.
LEMMA FlattenCancel ==
    ASSUME NEW S, NEW a \in Seq(Seq(S)), NEW b \in Seq(Seq(S)), Len(a) = Len(b),
           \A i \in 1 .. Len(a) : Len(a[i]) = Len(b[i]), FlattenSeq(a) = FlattenSeq(b)
    PROVE  a = b
<1> DEFINE N == Len(a)
<1>1. /\ N \in Nat /\ DOMAIN a = 1 .. N /\ DOMAIN b = 1 .. N
      /\ \A n \in 1 .. N : a[n] \in Seq(S) /\ b[n] \in Seq(S) /\ Len(a[n]) \in Nat
  OBVIOUS
<1>2. CASE N = 0
  <2>1. \A i \in 1 .. Len(a) : a[i] = b[i]
    BY <1>2
  <2> DEFINE T == Seq(S)
  <2>2. a \in Seq(T) /\ b \in Seq(T)
    OBVIOUS
  <2> HIDE DEF T
  <2> QED
    BY ONLY <2>1, <2>2, Len(a) = Len(b), SameElements
<1>3. CASE N # 0
  <2>0. a # <<>> /\ b # <<>>
    BY <1>3
  <2>1. PICK c : IsFlattening(c, a, S)
    BY <2>0, FlattenSteps
  <2>2. PICK d : IsFlattening(d, b, S)
    BY <2>0, FlattenSteps
  <2>3. /\ \A n \in 1 .. N : c[n] \in Seq(S) /\ d[n] \in Seq(S)
        /\ c[1] = a[1] /\ d[1] = b[1]
        /\ \A n \in 1 .. N - 1 : c[n + 1] = c[n] \o a[n + 1] /\ d[n + 1] = d[n] \o b[n + 1]
        /\ c[N] = d[N]
    BY <2>1, <2>2 DEF IsFlattening
  <2>4. N - 1 \in Nat /\ 1 \in 1 .. N /\ N \in 1 .. N
    BY <1>1, <1>3
  <2>5. \A n \in 1 .. N : Len(a[n]) = Len(b[n])
    OBVIOUS
  <2> HIDE DEF N
  <2>6. ASSUME NEW n \in 1 .. N - 1
        PROVE  /\ n \in 1 .. N /\ n + 1 \in 1 .. N
               /\ Len(c[n + 1]) = Len(c[n]) + Len(a[n + 1]) /\ Len(d[n + 1]) = Len(d[n]) + Len(b[n + 1])
    <3>1. n \in 1 .. N /\ n + 1 \in 1 .. N
      BY <1>1
    <3>2. /\ c[n + 1] = c[n] \o a[n + 1] /\ d[n + 1] = d[n] \o b[n + 1]
          /\ c[n] \in Seq(S) /\ d[n] \in Seq(S) /\ a[n + 1] \in Seq(S) /\ b[n + 1] \in Seq(S)
      BY <1>1, <2>3, <3>1
    <3> QED
      BY <3>1, <3>2
  <2> DEFINE P == {n \in 0 .. N - 1 : Len(c[n + 1]) = Len(d[n + 1])}
  <2>7. 0 \in P
    <3>1. 0 \in 0 .. N - 1 /\ 0 + 1 = 1
      BY <2>4
    <3>2. Len(c[1]) = Len(d[1])
      BY <2>3, <2>4, <2>5
    <3> QED
      BY <3>1, <3>2
  <2>8. ASSUME NEW n \in 0 .. N - 1, n < N - 1, n \in P PROVE n + 1 \in P
    <3>1. n + 1 \in 1 .. N - 1 /\ n + 1 \in 0 .. N - 1
      BY <2>4, <2>8
    <3>2. Len(c[n + 1]) = Len(d[n + 1])
      BY <2>8
    <3>3. Len(c[(n + 1) + 1]) = Len(d[(n + 1) + 1])
      BY <2>5, <2>6, <3>1, <3>2
    <3> QED
      BY <3>1, <3>3
  <2> HIDE DEF P
  <2>9. 0 .. N - 1 \subseteq P
    BY <2>4, <2>7, <2>8, IntervalInduction
  <2>10. ASSUME NEW n \in 1 .. N PROVE Len(c[n]) = Len(d[n])
    <3>1. n - 1 \in 0 .. N - 1 /\ (n - 1) + 1 = n
      BY <2>4
    <3> QED
      BY <2>9, <3>1 DEF P
  <2>11. ASSUME NEW n \in 1 .. N - 1, c[n + 1] = d[n + 1] PROVE c[n] = d[n] /\ a[n + 1] = b[n + 1]
    <3>1. n \in 1 .. N /\ n + 1 \in 1 .. N
      BY <2>6
    <3>2. /\ c[n] \in Seq(S) /\ a[n + 1] \in Seq(S) /\ d[n] \in Seq(S) /\ b[n + 1] \in Seq(S)
          /\ Len(c[n]) = Len(d[n]) /\ c[n] \o a[n + 1] = d[n] \o b[n + 1]
      BY <1>1, <2>3, <2>10, <2>11, <3>1
    <3> DEFINE w == c[n]
               x == a[n + 1]
               y == d[n]
               z == b[n + 1]
    <3>3. w \in Seq(S) /\ x \in Seq(S) /\ y \in Seq(S) /\ z \in Seq(S) /\ Len(w) = Len(y) /\ w \o x = y \o z
      BY <3>2
    <3> HIDE DEF w, x, y, z
    <3>4. w = y /\ x = z
      BY ONLY <3>3, ConcatCancel
    <3> QED
      BY <3>4 DEF w, x, y, z
  <2> DEFINE Q == {n \in 0 .. N - 1 : c[N - n] = d[N - n]}
  <2>12. 0 \in Q
    <3>1. 0 \in 0 .. N - 1 /\ N - 0 = N
      BY <2>4
    <3> QED
      BY <2>3, <3>1
  <2>13. ASSUME NEW n \in 0 .. N - 1, n < N - 1, n \in Q PROVE n + 1 \in Q
    <3>1. N - (n + 1) \in 1 .. N - 1 /\ (N - (n + 1)) + 1 = N - n /\ n + 1 \in 0 .. N - 1
      BY <2>4, <2>13
    <3>2. c[N - n] = d[N - n]
      BY <2>13
    <3>3. c[N - (n + 1)] = d[N - (n + 1)]
      BY <2>11, <3>1, <3>2
    <3> QED
      BY <3>1, <3>3
  <2> HIDE DEF Q
  <2>14. 0 .. N - 1 \subseteq Q
    BY <2>4, <2>12, <2>13, IntervalInduction
  <2>15. ASSUME NEW n \in 1 .. N PROVE c[n] = d[n]
    <3>1. N - n \in 0 .. N - 1 /\ N - (N - n) = n
      BY <2>4
    <3> QED
      BY <2>14, <3>1 DEF Q
  <2>16. ASSUME NEW n \in 1 .. N PROVE a[n] = b[n]
    <3>1. CASE n = 1
      BY <2>3, <2>15, <3>1
    <3>2. CASE n # 1
      <4>1. n - 1 \in 1 .. N - 1 /\ (n - 1) + 1 = n
        BY <2>4, <3>2
      <4>2. c[(n - 1) + 1] = d[(n - 1) + 1]
        BY <2>15, <4>1
      <4>3. a[(n - 1) + 1] = b[(n - 1) + 1]
        BY <2>11, <4>1, <4>2
      <4> QED
        BY <4>1, <4>3
    <3> QED
      BY <3>1, <3>2
  <2> DEFINE T == Seq(S)
  <2>17. a \in Seq(T) /\ b \in Seq(T) /\ \A n \in 1 .. Len(a) : a[n] = b[n]
    BY <2>16 DEF N
  <2> HIDE DEF T
  <2> QED
    BY ONLY <2>17, Len(a) = Len(b), SameElements
<1> QED
  BY <1>2, <1>3
\* a before y.
LEMMA Ahead ==
    ASSUME NEW V, NEW a \in V, NEW y \in Seq(V)
    PROVE  /\ <<a>> \o y \in Seq(V) /\ Len(<<a>> \o y) = Len(y) + 1 /\ (<<a>> \o y)[1] = a
           /\ \A i \in 1 .. Len(y) : (<<a>> \o y)[i + 1] = y[i]
<1>1. <<a>> \in Seq(V) /\ Len(<<a>>) = 1 /\ <<a>>[1] = a
  OBVIOUS
<1> DEFINE p == <<a>>
<1> HIDE DEF p
<1>2. p \in Seq(V) /\ Len(p) = 1 /\ p[1] = a
  BY <1>1 DEF p
<1>6. /\ Len(p \o y) = Len(p) + Len(y) /\ Len(y) \in Nat
      /\ \A i \in 1 .. Len(p) : (p \o y)[i] = p[i]
      /\ \A i \in 1 .. Len(y) : (p \o y)[Len(p) + i] = y[i]
  BY ONLY <1>2, y \in Seq(V), ConcatParts
<1>7. p \o y \in Seq(V)
  BY <1>2
<1>3. /\ Len(p \o y) = 1 + Len(y) /\ Len(y) \in Nat /\ p \o y \in Seq(V)
      /\ \A i \in 1 .. 1 : (p \o y)[i] = p[i]
      /\ \A i \in 1 .. Len(y) : (p \o y)[1 + i] = y[i]
  BY <1>2, <1>6, <1>7
<1>4. \A i \in 1 .. Len(y) : 1 + i = i + 1
  BY <1>3
<1>5. /\ p \o y \in Seq(V) /\ Len(p \o y) = Len(y) + 1 /\ (p \o y)[1] = a
      /\ \A i \in 1 .. Len(y) : (p \o y)[i + 1] = y[i]
  BY <1>2, <1>3, <1>4
<1> QED
  BY <1>5 DEF p

\* Lists that are the same have the same head and the same rest.
LEMMA AheadCancel ==
    ASSUME NEW V, NEW a \in V, NEW y \in Seq(V), NEW b \in V, NEW z \in Seq(V), <<a>> \o y = <<b>> \o z
    PROVE  a = b /\ y = z
<1> DEFINE p == <<a>>
           q == <<b>>
<1>1. p \in Seq(V) /\ q \in Seq(V) /\ Len(p) = Len(q) /\ p \o y = q \o z
  OBVIOUS
<1> HIDE DEF p, q
<1>2. p = q /\ y = z
  BY ONLY <1>1, y \in Seq(V), z \in Seq(V), ConcatCancel
<1>3. p[1] = a /\ q[1] = b
  BY DEF p, q
<1> QED
  BY ONLY <1>2, <1>3

\* Each of the sequences x with a before it.
Prefixed(a, x) == [n \in DOMAIN x |-> <<a>> \o x[n]]

\* Putting one value before distinct lists gives distinct lists.
LEMMA PrefixedIs ==
    ASSUME NEW V, NEW a \in V, NEW x \in Seq(Seq(V))
    PROVE  /\ Prefixed(a, x) \in Seq(Seq(V))
           /\ \A c \in Range(Prefixed(a, x)) : \E y \in Range(x) : y \in Seq(V) /\ c = <<a>> \o y
           /\ IsInjective(x) => IsInjective(Prefixed(a, x))
<1>1. DOMAIN x = 1 .. Len(x) /\ Len(x) \in Nat /\ \A n \in DOMAIN x : x[n] \in Seq(V)
  OBVIOUS
<1>2. \A n \in DOMAIN x : <<a>> \o x[n] \in Seq(V)
  BY <1>1, Ahead
<1>3. Prefixed(a, x) \in Seq(Seq(V))
  BY <1>1, <1>2 DEF Prefixed
<1>4. DOMAIN Prefixed(a, x) = DOMAIN x /\ \A n \in DOMAIN x : Prefixed(a, x)[n] = <<a>> \o x[n]
  BY DEF Prefixed
<1>5. \A c \in Range(Prefixed(a, x)) : \E y \in Range(x) : y \in Seq(V) /\ c = <<a>> \o y
  BY <1>1, <1>4 DEF Range
<1>6. ASSUME IsInjective(x) PROVE IsInjective(Prefixed(a, x))
  <2> SUFFICES ASSUME NEW m \in DOMAIN x, NEW n \in DOMAIN x, <<a>> \o x[m] = <<a>> \o x[n] PROVE m = n
    BY <1>4 DEF IsInjective
  <2> DEFINE y == x[m]
             z == x[n]
  <2>1. y \in Seq(V) /\ z \in Seq(V) /\ <<a>> \o y = <<a>> \o z
    BY <1>1
  <2> HIDE DEF y, z
  <2>3. y = z
    BY ONLY <2>1, a \in V, AheadCancel
  <2>2. x[m] = x[n]
    BY <2>3 DEF y, z
  <2> QED
    BY <1>6, <2>2 DEF IsInjective
<1> QED
  BY <1>3, <1>5, <1>6

\* A value of a variable knows its variable and its label.
LEMMA ValuesAre ==
    ASSUME NEW v \in Variable, NEW j \in DOMAIN v.values
    PROVE  /\ ValueOf(v, j) \in Value /\ ValueOf(v, j).variable = v.label /\ ValueOf(v, j).label = v.values[j]
           /\ v.values[j] \in Seq(STRING) /\ DOMAIN v.values = 1 .. Len(v.values) /\ Len(v.values) \in Nat
<1>1. v.values \in Seq(Seq(STRING)) /\ v.label \in STRING
  BY DEF Variable
<1>2. v.values[j] \in Seq(STRING) /\ DOMAIN v.values = 1 .. Len(v.values) /\ Len(v.values) \in Nat
  BY <1>1
<1> QED
  BY <1>1, <1>2 DEF ValueOf, Value

\* Distinct labels make distinct values.
LEMMA ValuesApart ==
    ASSUME NEW v \in Variable, IsInjective(v.values), NEW j \in DOMAIN v.values, NEW k \in DOMAIN v.values,
           ValueOf(v, j) = ValueOf(v, k)
    PROVE  j = k
<1>1. v.values[j] = v.values[k]
  BY ValuesAre
<1> QED
  BY <1>1 DEF IsInjective

\* The variants of the last variable are distinct, and each is one of its values.
LEMMA LastIs ==
    ASSUME NEW v \in Variable, IsInjective(v.values)
    PROVE  /\ IsInjective(LastVariants(v))
           /\ \A c \in Range(LastVariants(v)) : \E j \in DOMAIN v.values : c = <<ValueOf(v, j)>>
<1>1. DOMAIN LastVariants(v) = DOMAIN v.values /\ \A j \in DOMAIN v.values : LastVariants(v)[j] = <<ValueOf(v, j)>>
  BY DEF LastVariants
<1>2. ASSUME NEW j \in DOMAIN v.values, NEW k \in DOMAIN v.values, <<ValueOf(v, j)>> = <<ValueOf(v, k)>> PROVE j = k
  <2>1. ValueOf(v, j) = ValueOf(v, k)
    BY <1>2
  <2> QED
    BY <2>1, ValuesApart
<1> QED
  BY <1>1, <1>2 DEF IsInjective, Range

\* So are the variants of a variable and of the ones after it.
LEMMA CombinedIs ==
    ASSUME NEW v \in Variable, IsInjective(v.values), NEW x \in Seq(Seq(Value)), IsInjective(x)
    PROVE  /\ IsInjective(Combined(v, x))
           /\ \A c \in Range(Combined(v, x)) :
                 \E j \in DOMAIN v.values : \E y \in Range(x) : y \in Seq(Value) /\ c = <<ValueOf(v, j)>> \o y
<1> DEFINE V == Value
           a(j) == ValueOf(v, j)
           J == DOMAIN v.values
           ss == [j \in J |-> Prefixed(a(j), x)]
<1>1. (\A j \in J : a(j) \in V) /\ (\A j, k \in J : a(j) = a(k) => j = k) /\ x \in Seq(Seq(V))
  BY ValuesAre, ValuesApart
<1>2. J = 1 .. Len(v.values) /\ Len(v.values) \in Nat
  BY DEF Variable
<1>3. Combined(v, x) = FlattenSeq(ss)
  BY DEF Combined, Prefixed
<1> HIDE DEF V, a, J
<1>4. ASSUME NEW j \in J
      PROVE  /\ Prefixed(a(j), x) \in Seq(Seq(V)) /\ IsInjective(Prefixed(a(j), x))
             /\ \A c \in Range(Prefixed(a(j), x)) : \E y \in Range(x) : y \in Seq(V) /\ c = <<a(j)>> \o y
  BY <1>1, PrefixedIs
<1>5. DOMAIN ss = J /\ (\A j \in J : ss[j] = Prefixed(a(j), x))
  OBVIOUS
<1>6. ss \in Seq(Seq(Seq(V)))
  <2> DEFINE T == Seq(Seq(V))
             r(j) == Prefixed(a(j), x)
  <2>1. \A j \in J : r(j) \in T
    BY <1>4
  <2>2. ss = [j \in J |-> r(j)]
    OBVIOUS
  <2> HIDE DEF T, r
  <2>3. [j \in J |-> r(j)] \in Seq(T)
    BY <1>2, <2>1
  <2> QED
    BY <2>2, <2>3 DEF T
<1> HIDE DEF ss
<1> DEFINE Begins(c, j) == \E y \in Range(x) : y \in Seq(V) /\ c = <<a(j)>> \o y
<1>0. \A j \in J : \A c \in Range(ss[j]) : Begins(c, j)
  <2> SUFFICES ASSUME NEW j \in J PROVE \A c \in Range(ss[j]) : Begins(c, j)
    OBVIOUS
  <2>1. ss[j] = Prefixed(a(j), x)
    BY <1>5
  <2> QED
    BY <1>4, <2>1
<1>7. ASSUME NEW j \in J, NEW k \in J, j # k, NEW c, c \in Range(ss[j]), c \in Range(ss[k]) PROVE FALSE
  <2> HIDE DEF Begins
  <2>0. Begins(c, j) /\ Begins(c, k)
    BY <1>0, <1>7
  <2>1. PICK y \in Range(x) : y \in Seq(V) /\ c = <<a(j)>> \o y
    BY <2>0 DEF Begins
  <2>2. PICK z \in Range(x) : z \in Seq(V) /\ c = <<a(k)>> \o z
    BY <2>0 DEF Begins
  <2>3. a(j) \in V /\ a(k) \in V /\ <<a(j)>> \o y = <<a(k)>> \o z
    BY <1>1, <2>1, <2>2
  <2>4. a(j) = a(k)
    BY ONLY <2>1, <2>2, <2>3, AheadCancel
  <2> QED
    BY <1>1, <1>7, <2>4
<1> DEFINE T == Seq(V)
<1>8. ss \in Seq(Seq(T))
  BY <1>6
<1> HIDE DEF T
<1>9. /\ \A c : c \in Range(FlattenSeq(ss)) <=> \E j \in DOMAIN ss : c \in Range(ss[j])
      /\ /\ \A i \in DOMAIN ss : IsInjective(ss[i])
         /\ \A i, j \in DOMAIN ss : i # j => Range(ss[i]) \cap Range(ss[j]) = {}
         => IsInjective(FlattenSeq(ss))
  BY ONLY <1>8, FlattenIs
<1>10. IsInjective(Combined(v, x))
  <2>1. \A i, j \in DOMAIN ss : i # j => Range(ss[i]) \cap Range(ss[j]) = {}
    BY <1>5, <1>7
  <2>2. \A i \in DOMAIN ss : IsInjective(ss[i])
    BY <1>4, <1>5
  <2> QED
    BY <1>3, <1>9, <2>1, <2>2
<1>11. ASSUME NEW c \in Range(Combined(v, x))
       PROVE  \E j \in J : \E y \in Range(x) : y \in Seq(V) /\ c = <<a(j)>> \o y
  <2>1. PICK j \in J : c \in Range(ss[j])
    BY <1>3, <1>5, <1>9
  <2> QED
    BY <1>0, <2>1
<1> QED
  BY <1>10, <1>11 DEF V, a, J

\* c gives a value to each of the variables from the i-th on.
Takes(c, vs, i) ==
    /\ c \in Seq(Value) /\ Len(c) = Len(vs) - i + 1
    /\ \A n \in 1 .. Len(c) : \E j \in DOMAIN vs[n + i - 1].values : c[n] = ValueOf(vs[n + i - 1], j)

\* A value of the variable before a variant makes a longer variant.
LEMMA TakesAhead ==
    ASSUME NEW vs \in Seq(Variable), NEW i \in 1 .. Len(vs) - 1, NEW y, Takes(y, vs, i + 1),
           NEW j \in DOMAIN vs[i].values
    PROVE  Takes(<<ValueOf(vs[i], j)>> \o y, vs, i)
<1> DEFINE V == Value
           a == ValueOf(vs[i], j)
           c == <<a>> \o y
           N == Len(vs)
<1>1. N \in Nat /\ i \in 1 .. N /\ i \in Nat /\ vs[i] \in Variable
  OBVIOUS
<1>2. a \in V
  BY <1>1, ValuesAre
<1>3. /\ y \in Seq(V) /\ Len(y) = N - (i + 1) + 1
      /\ \A n \in 1 .. Len(y) : \E k \in DOMAIN vs[n + (i + 1) - 1].values : y[n] = ValueOf(vs[n + (i + 1) - 1], k)
  BY DEF Takes
<1> HIDE DEF V, N
<1>4. /\ c \in Seq(V) /\ Len(c) = Len(y) + 1 /\ c[1] = a
      /\ \A n \in 1 .. Len(y) : c[n + 1] = y[n]
  <2> HIDE DEF a
  <2> QED
    BY ONLY <1>2, <1>3, Ahead DEF c
<1> HIDE DEF c
<1>5. Len(c) = N - i + 1 /\ Len(y) \in Nat
  BY <1>1, <1>3, <1>4
<1>6. ASSUME NEW n \in 1 .. Len(c) PROVE \E k \in DOMAIN vs[n + i - 1].values : c[n] = ValueOf(vs[n + i - 1], k)
  <2>1. CASE n = 1
    <3>1. n + i - 1 = i
      BY <1>1, <2>1
    <3> QED
      BY <1>4, <2>1, <3>1
  <2>2. CASE n # 1
    <3>1. n - 1 \in 1 .. Len(y) /\ (n - 1) + 1 = n /\ (n - 1) + (i + 1) - 1 = n + i - 1
      BY <1>1, <1>4, <1>5, <2>2
    <3>2. c[n] = y[n - 1]
      BY <1>4, <3>1
    <3>3. \E k \in DOMAIN vs[(n - 1) + (i + 1) - 1].values : y[n - 1] = ValueOf(vs[(n - 1) + (i + 1) - 1], k)
      BY <1>3, <3>1
    <3> QED
      BY <3>1, <3>2, <3>3
  <2> QED
    BY <2>1, <2>2
<1>7. Takes(c, vs, i)
  BY <1>4, <1>5, <1>6 DEF Takes, V, N
<1> QED
  BY <1>7 DEF c

\* The variants of a plain suite are different choices of a value for each variable.
LEMMA VariantsAre ==
    ASSUME NEW vs \in Seq(Variable), vs # <<>>, \A n \in 1 .. Len(vs) : IsInjective(vs[n].values)
    PROVE  IsInjective(MakeVariants(vs)) /\ \A c \in Range(MakeVariants(vs)) : Takes(c, vs, 1)
<1> DEFINE N == Len(vs)
<1>1. N \in Nat /\ N - 1 \in Nat /\ N \in 1 .. N /\ \A n \in 1 .. N : vs[n] \in Variable
  OBVIOUS
<1>2. PICK f : IsVariants(f, vs)
  BY VariantSteps
<1>3. /\ \A i \in 1 .. N : f[i] \in Seq(Seq(Value))
      /\ f[N] = LastVariants(vs[N])
      /\ \A i \in 1 .. N - 1 : f[i] = Combined(vs[i], f[i + 1])
      /\ MakeVariants(vs) = f[1]
  BY <1>2 DEF IsVariants
<1> DEFINE Good(i) == IsInjective(f[i]) /\ \A c \in Range(f[i]) : Takes(c, vs, i)
           P == {n \in 0 .. N - 1 : Good(N - n)}
<1>0. \A n \in 1 .. N : IsInjective(vs[n].values)
  OBVIOUS
<1>4. Good(N)
  <2>1. vs[N] \in Variable /\ IsInjective(vs[N].values)
    BY <1>0, <1>1
  <2>2. IsInjective(f[N]) /\ \A c \in Range(f[N]) : \E j \in DOMAIN vs[N].values : c = <<ValueOf(vs[N], j)>>
    BY <1>3, <2>1, LastIs
  <2>3. ASSUME NEW c \in Range(f[N]) PROVE Takes(c, vs, N)
    <3>1. PICK j \in DOMAIN vs[N].values : c = <<ValueOf(vs[N], j)>>
      BY <2>2
    <3>2. ValueOf(vs[N], j) \in Value
      BY <2>1, ValuesAre
    <3>3. c \in Seq(Value) /\ Len(c) = 1 /\ c[1] = ValueOf(vs[N], j)
      BY <3>1, <3>2
    <3>4. N - N + 1 = 1 /\ 1 + N - 1 = N /\ \A n \in 1 .. 1 : n = 1
      BY <1>1
    <3> QED
      BY <3>3, <3>4 DEF Takes
  <2> QED
    BY <2>2, <2>3
<1>5. ASSUME NEW i \in 1 .. N - 1, Good(i + 1) PROVE Good(i)
  <2>1. i \in 1 .. N /\ i + 1 \in 1 .. N
    BY <1>1
  <2>2. vs[i] \in Variable /\ IsInjective(vs[i].values) /\ f[i + 1] \in Seq(Seq(Value)) /\ IsInjective(f[i + 1])
        /\ f[i] = Combined(vs[i], f[i + 1])
    BY <1>0, <1>1, <1>3, <1>5, <2>1
  <2>3. /\ IsInjective(f[i])
        /\ \A c \in Range(f[i]) :
              \E j \in DOMAIN vs[i].values : \E y \in Range(f[i + 1]) : y \in Seq(Value) /\ c = <<ValueOf(vs[i], j)>> \o y
    <3> DEFINE v == vs[i]
               x == f[i + 1]
    <3>1. v \in Variable /\ IsInjective(v.values) /\ x \in Seq(Seq(Value)) /\ IsInjective(x) /\ f[i] = Combined(v, x)
      BY <2>2
    <3> HIDE DEF v, x
    <3>2. /\ IsInjective(Combined(v, x))
          /\ \A c \in Range(Combined(v, x)) :
                \E j \in DOMAIN v.values : \E y \in Range(x) : y \in Seq(Value) /\ c = <<ValueOf(v, j)>> \o y
      BY ONLY <3>1, CombinedIs
    <3> QED
      BY <3>1, <3>2 DEF v, x
  <2>4. ASSUME NEW c \in Range(f[i]) PROVE Takes(c, vs, i)
    <3>1. PICK j \in DOMAIN vs[i].values : \E y \in Range(f[i + 1]) : y \in Seq(Value) /\ c = <<ValueOf(vs[i], j)>> \o y
      BY <2>3
    <3>2. PICK y \in Range(f[i + 1]) : c = <<ValueOf(vs[i], j)>> \o y
      BY <3>1
    <3>3. Takes(y, vs, i + 1)
      BY <1>5, <3>2
    <3> QED
      BY <3>2, <3>3, TakesAhead
  <2> QED
    BY <2>3, <2>4
<1> HIDE DEF Good, N
<1>6. 0 \in P
  <2>1. N - 0 = N /\ 0 \in 0 .. N - 1
    BY <1>1
  <2> QED
    BY <1>4, <2>1
<1>7. ASSUME NEW n \in 0 .. N - 1, n < N - 1, n \in P PROVE n + 1 \in P
  <2>1. N - (n + 1) \in 1 .. N - 1 /\ (N - (n + 1)) + 1 = N - n /\ n + 1 \in 0 .. N - 1
    BY <1>1, <1>7
  <2>2. Good((N - (n + 1)) + 1)
    BY <1>7, <2>1
  <2>3. Good(N - (n + 1))
    BY <1>5, <2>1, <2>2
  <2> QED
    BY <2>1, <2>3
<1> HIDE DEF P
<1>8. 0 .. N - 1 \subseteq P
  BY <1>1, <1>6, <1>7, IntervalInduction
<1>9. N - 1 \in P /\ N - (N - 1) = 1
  BY <1>1, <1>8
<1>10. Good(1)
  BY <1>9 DEF P
<1> QED
  BY <1>3, <1>10 DEF Good

\* The range of a sequence, and the union of the sets in one, are finite.
LEMMA FiniteRange ==
    ASSUME NEW S, NEW s \in Seq(S)
    PROVE  /\ IsFiniteSet(Range(s))
           /\ (\A i \in DOMAIN s : IsFiniteSet(s[i])) => IsFiniteSet(UNION Range(s))
<1>1. Len(s) \in Nat /\ DOMAIN s = 1 .. Len(s)
  OBVIOUS
<1>2. IsFiniteSet(DOMAIN s)
  BY <1>1, FS_Interval
<1>3. s \in Surjection(DOMAIN s, Range(s))
  BY DEF Surjection, Range
<1>4. IsFiniteSet(Range(s))
  BY <1>2, <1>3, FS_Surjection
<1>5. (\A i \in DOMAIN s : IsFiniteSet(s[i])) => \A T \in Range(s) : IsFiniteSet(T)
  BY DEF Range
<1> QED
  BY <1>4, <1>5, FS_UNION

\* The values of a name in one part are finitely many.
LEMMA PartLabelsFinite ==
    ASSUME NEW vs \in Seq(Variable), NEW name
    PROVE  IsFiniteSet(PartLabels(vs, name))
<1> DEFINE r == [n \in DOMAIN vs |-> Range(vs[n].values)]
<1>1. DOMAIN vs = 1 .. Len(vs) /\ Len(vs) \in Nat /\ \A n \in DOMAIN vs : vs[n] \in Variable
  OBVIOUS
<1>2. \A n \in DOMAIN vs : IsFiniteSet(Range(vs[n].values))
  <2> SUFFICES ASSUME NEW n \in DOMAIN vs PROVE IsFiniteSet(Range(vs[n].values))
    OBVIOUS
  <2>1. vs[n].values \in Seq(Seq(STRING))
    BY <1>1 DEF Variable
  <2> QED
    BY <2>1, FiniteRange
<1>3. r \in Seq({Range(vs[n].values) : n \in DOMAIN vs})
  BY <1>1
<1>4. \A n \in DOMAIN r : IsFiniteSet(r[n])
  BY <1>2
<1>5. PartLabels(vs, name) \subseteq UNION Range(r)
  BY DEF PartLabels, Range
<1> HIDE DEF r
<1>6. IsFiniteSet(UNION Range(r))
  BY <1>3, <1>4, FiniteRange
<1> QED
  BY <1>5, <1>6, FS_Subset

\* The parts of a suite are lists of variables, none empty.
LEMMA PartsAre ==
    ASSUME NEW s \in Suites
    PROVE  /\ s.label \in Seq(STRING) /\ DOMAIN s.parts = 1 .. Len(s.parts) /\ Len(s.parts) \in Nat
           /\ \A p \in DOMAIN s.parts : s.parts[p] \in Seq(Variable) /\ s.parts[p] # <<>>
<1>1. s.label \in Seq(STRING) /\ s.parts \in Seq(Seq(Variable) \ {<<>>})
  BY SuiteConstants DEF Variable
<1> QED
  BY <1>1

\* The values of a name in the whole suite are finitely many.
LEMMA LabelsFinite ==
    ASSUME NEW s \in Suites, NEW name
    PROVE  IsFiniteSet(ValueLabels(s, name))
<1> DEFINE r == [p \in DOMAIN s.parts |-> PartLabels(s.parts[p], name)]
<1>1. /\ DOMAIN s.parts = 1 .. Len(s.parts) /\ Len(s.parts) \in Nat
      /\ \A p \in DOMAIN s.parts : s.parts[p] \in Seq(Variable)
  BY PartsAre
<1>2. \A p \in DOMAIN s.parts : IsFiniteSet(PartLabels(s.parts[p], name))
  BY <1>1, PartLabelsFinite
<1>3. r \in Seq({PartLabels(s.parts[p], name) : p \in DOMAIN s.parts})
  BY <1>1
<1>4. \A n \in DOMAIN r : IsFiniteSet(r[n])
  BY <1>2
<1>5. ValueLabels(s, name) = UNION Range(r)
  BY DEF ValueLabels, Range
<1> HIDE DEF r
<1> QED
  BY <1>3, <1>4, <1>5, FiniteRange

\* Two labels of a variable that differ: the variable varies.
LEMMA TwoLabelsVary ==
    ASSUME NEW s \in Suites, NEW name, NEW x \in ValueLabels(s, name), NEW y \in ValueLabels(s, name), x # y
    PROVE  Cardinality(ValueLabels(s, name)) > 1
<1> DEFINE L == ValueLabels(s, name)
<1>1. IsFiniteSet(L)
  BY LabelsFinite
<1>2. x \in L /\ y \in L
  OBVIOUS
<1> HIDE DEF L
<1>3. Cardinality(L) \in Nat
  BY <1>1, FS_CardinalityType
<1>4. Cardinality(L) # 0
  BY <1>1, <1>2, FS_EmptySet
<1>5. Cardinality(L) # 1
  BY <1>1, <1>2, FS_Singleton
<1>6. Cardinality(L) > 1
  BY <1>3, <1>4, <1>5
<1> QED
  BY <1>6 DEF L

\* The words of a variant's label, one sequence for each variable.
Words(s, c) == [i \in DOMAIN c |-> IF Cardinality(ValueLabels(s, c[i].variable)) > 1 THEN c[i].label ELSE <<>>]

\* The value a variant of part p takes for the n-th variable of the part.
IsTaken(s, p, c, n) ==
    /\ c \in Seq(Value) /\ DOMAIN c = 1 .. Len(s.parts[p]) /\ Len(c) = Len(s.parts[p])
    /\ c[n] \in Value /\ c[n] = [variable |-> s.parts[p][n].label, label |-> c[n].label]
    /\ c[n].label \in Seq(STRING) /\ Len(c[n].label) = 1
    /\ c[n].label \in PartLabels(s.parts[p], s.parts[p][n].label)
    /\ c[n].label \in ValueLabels(s, s.parts[p][n].label)

\* The n-th value of a variant is one of the n-th variable, with a one-word label.
LEMMA TakenValue ==
    ASSUME NEW s \in Suites, PlainLabels(s), NEW p \in DOMAIN s.parts, NEW c, Takes(c, s.parts[p], 1),
           NEW n \in 1 .. Len(s.parts[p])
    PROVE  IsTaken(s, p, c, n)
<1> DEFINE vs == s.parts[p]
           v == vs[n]
<1>1. vs \in Seq(Variable) /\ Len(vs) \in Nat /\ DOMAIN vs = 1 .. Len(vs) /\ v \in Variable
  <2>1. vs \in Seq(Variable)
    BY PartsAre
  <2> QED
    BY <2>1
<1>2. c \in Seq(Value) /\ Len(c) = Len(vs) - 1 + 1
      /\ \A m \in 1 .. Len(c) : \E j \in DOMAIN vs[m + 1 - 1].values : c[m] = ValueOf(vs[m + 1 - 1], j)
  BY DEF Takes
<1>3. Len(c) = Len(vs) /\ DOMAIN c = 1 .. Len(vs)
  <2> DEFINE V == Value
  <2>1. c \in Seq(V)
    BY <1>2
  <2> HIDE DEF V, vs
  <2> QED
    BY <1>1, <1>2, <2>1
<1>4. n \in 1 .. Len(c) /\ n + 1 - 1 = n
  BY <1>1, <1>3
<1>5. PICK j \in DOMAIN v.values : c[n] = ValueOf(v, j)
  BY <1>2, <1>4
<1>6. /\ ValueOf(v, j) \in Value /\ ValueOf(v, j).variable = v.label /\ ValueOf(v, j).label = v.values[j]
      /\ v.values[j] \in Seq(STRING)
  BY <1>1, ValuesAre
<1>7. ValueOf(v, j) = [variable |-> v.label, label |-> v.values[j]]
  BY DEF ValueOf
<1>8. Len(v.values[j]) = 1
  BY <1>1 DEF PlainLabels
<1>9. v.values[j] \in PartLabels(vs, v.label)
  BY <1>1 DEF PartLabels, Range
<1>10. v.values[j] \in ValueLabels(s, v.label)
  BY <1>9 DEF ValueLabels
<1> QED
  BY <1>2, <1>3, <1>5, <1>6, <1>7, <1>8, <1>9, <1>10 DEF IsTaken

\* The label of a variant: a word for every variable that takes several values in the suite.
LEMMA WordsAre ==
    ASSUME NEW s \in Suites, PlainLabels(s), NEW p \in DOMAIN s.parts, NEW c, Takes(c, s.parts[p], 1)
    PROVE  /\ Words(s, c) \in Seq(Seq(STRING)) /\ DOMAIN Words(s, c) = 1 .. Len(s.parts[p])
           /\ Len(Words(s, c)) = Len(s.parts[p])
           /\ \A n \in 1 .. Len(s.parts[p]) :
                 Words(s, c)[n] = IF Cardinality(ValueLabels(s, s.parts[p][n].label)) > 1 THEN c[n].label ELSE <<>>
           /\ MakeLabel(s, c) = FlattenSeq(Words(s, c)) /\ MakeLabel(s, c) \in Seq(STRING)
<1> DEFINE N == Len(s.parts[p])
           w(n) == IF Cardinality(ValueLabels(s, c[n].variable)) > 1 THEN c[n].label ELSE <<>>
<1>1. N \in Nat /\ N >= 1
  <2>1. s.parts[p] \in Seq(Variable) /\ s.parts[p] # <<>>
    BY PartsAre
  <2> QED
    BY <2>1
<1>2. DOMAIN c = 1 .. N
  <2>1. 1 \in 1 .. N
    BY <1>1
  <2>2. IsTaken(s, p, c, 1)
    BY <2>1, TakenValue
  <2> QED
    BY <2>2 DEF IsTaken
<1>3. ASSUME NEW n \in 1 .. N PROVE c[n].variable = s.parts[p][n].label /\ c[n].label \in Seq(STRING)
  <2>1. IsTaken(s, p, c, n)
    BY TakenValue
  <2>2. c[n] = [variable |-> s.parts[p][n].label, label |-> c[n].label] /\ c[n].label \in Seq(STRING)
    BY <2>1 DEF IsTaken
  <2> QED
    BY <2>2
<1>4. ASSUME NEW n \in 1 .. N PROVE w(n) \in Seq(STRING)
  <2>1. w(n) = c[n].label \/ w(n) = <<>>
    OBVIOUS
  <2>2. c[n].label \in Seq(STRING) /\ <<>> \in Seq(STRING)
    BY <1>3
  <2> HIDE DEF w
  <2> QED
    BY <2>1, <2>2
<1>5. Words(s, c) = [n \in 1 .. N |-> w(n)]
  BY <1>2 DEF Words
<1> HIDE DEF N, w
<1> DEFINE T == Seq(STRING)
<1> HIDE DEF T
<1>6. [n \in 1 .. N |-> w(n)] \in Seq(T) /\ Len([n \in 1 .. N |-> w(n)]) = N
  BY <1>1, <1>4 DEF T
<1>7. Words(s, c) \in Seq(Seq(STRING)) /\ Len(Words(s, c)) = N
  BY <1>5, <1>6 DEF T
<1>8. \A n \in 1 .. N : Words(s, c)[n] = IF Cardinality(ValueLabels(s, s.parts[p][n].label)) > 1 THEN c[n].label ELSE <<>>
  BY <1>3, <1>5 DEF w
<1>9. MakeLabel(s, c) = FlattenSeq(Words(s, c))
  BY DEF MakeLabel, Words
<1>10. FlattenSeq(Words(s, c)) \in Seq(STRING)
  BY ONLY <1>7, FlattenType
<1>11. DOMAIN Words(s, c) = 1 .. N
  BY <1>5
<1> QED
  BY <1>7, <1>8, <1>9, <1>10, <1>11 DEF N

\* Two variants of one part with the same label are the same.
LEMMA SamePart ==
    ASSUME NEW s \in Suites, PlainLabels(s), NEW p \in DOMAIN s.parts, NEW c, Takes(c, s.parts[p], 1),
           NEW d, Takes(d, s.parts[p], 1), MakeLabel(s, c) = MakeLabel(s, d)
    PROVE  c = d
<1> DEFINE N == Len(s.parts[p])
           varies(n) == Cardinality(ValueLabels(s, s.parts[p][n].label)) > 1
           a == Words(s, c)
           b == Words(s, d)
<1>1. /\ a \in Seq(Seq(STRING)) /\ Len(a) = N /\ \A n \in 1 .. N : a[n] = IF varies(n) THEN c[n].label ELSE <<>>
  BY WordsAre
<1>2. /\ b \in Seq(Seq(STRING)) /\ Len(b) = N /\ \A n \in 1 .. N : b[n] = IF varies(n) THEN d[n].label ELSE <<>>
  BY WordsAre
<1>3. FlattenSeq(a) = FlattenSeq(b)
  BY WordsAre
<1>0. ASSUME NEW n \in 1 .. N PROVE IsTaken(s, p, c, n) /\ IsTaken(s, p, d, n)
  BY TakenValue
<1>4. \A n \in 1 .. N : Len(c[n].label) = 1 /\ Len(d[n].label) = 1
  BY <1>0 DEF IsTaken
<1> HIDE DEF a, b
<1>5. \A n \in 1 .. N : Len(a[n]) = Len(b[n])
  <2> HIDE DEF varies
  <2> QED
    BY <1>1, <1>2, <1>4
<1>6. a = b
  <2> DEFINE S == STRING
  <2>1. a \in Seq(Seq(S)) /\ b \in Seq(Seq(S)) /\ Len(a) = Len(b) /\ \A n \in 1 .. Len(a) : Len(a[n]) = Len(b[n])
    BY <1>1, <1>2, <1>5
  <2> HIDE DEF S, N
  <2> QED
    BY ONLY <2>1, <1>3, FlattenCancel
<1>7. ASSUME NEW n \in 1 .. N PROVE c[n] = d[n]
  <2>1. /\ c[n] = [variable |-> s.parts[p][n].label, label |-> c[n].label]
        /\ c[n].label \in ValueLabels(s, s.parts[p][n].label)
    BY <1>0 DEF IsTaken
  <2>2. /\ d[n] = [variable |-> s.parts[p][n].label, label |-> d[n].label]
        /\ d[n].label \in ValueLabels(s, s.parts[p][n].label)
    BY <1>0 DEF IsTaken
  <2>3. c[n].label # d[n].label => varies(n)
    BY <2>1, <2>2, TwoLabelsVary
  <2> HIDE DEF varies
  <2>4. c[n].label = d[n].label
    BY <1>1, <1>2, <1>6, <2>3
  <2> QED
    BY <2>1, <2>2, <2>4
<1>8. N \in Nat /\ N >= 1
  <2>1. s.parts[p] \in Seq(Variable) /\ s.parts[p] # <<>>
    BY PartsAre
  <2> QED
    BY <2>1
<1>9. c \in Seq(Value) /\ d \in Seq(Value) /\ Len(c) = N /\ Len(d) = N
  <2>1. 1 \in 1 .. N
    BY <1>8
  <2> QED
    BY <1>0, <2>1 DEF IsTaken
<1> DEFINE V == Value
<1>10. c \in Seq(V) /\ d \in Seq(V) /\ Len(c) = Len(d) /\ \A n \in 1 .. Len(c) : c[n] = d[n]
  BY <1>7, <1>9
<1> HIDE DEF V
<1> QED
  BY ONLY <1>10, SameElements

\* Variants of different parts have different labels.
LEMMA OtherPart ==
    ASSUME NEW s \in Suites, WellLabelled(s), NEW p \in DOMAIN s.parts, NEW q \in DOMAIN s.parts, p # q,
           NEW c, Takes(c, s.parts[p], 1), NEW d, Takes(d, s.parts[q], 1)
    PROVE  MakeLabel(s, c) # MakeLabel(s, d)
<1> SUFFICES ASSUME MakeLabel(s, c) = MakeLabel(s, d) PROVE FALSE
  OBVIOUS
<1>0. PlainLabels(s) /\ PartsTellApart(s)
  BY DEF WellLabelled
<1>1. PICK v \in Names(s) : /\ PartLabels(s.parts[p], v) # {} /\ PartLabels(s.parts[q], v) # {}
                           /\ PartLabels(s.parts[p], v) \cap PartLabels(s.parts[q], v) = {}
  BY <1>0 DEF PartsTellApart
<1>2. /\ DOMAIN s.parts[p] = 1 .. Len(s.parts[p]) /\ DOMAIN s.parts[q] = 1 .. Len(s.parts[q])
  <2>1. s.parts[p] \in Seq(Variable) /\ s.parts[q] \in Seq(Variable)
    BY PartsAre
  <2> QED
    BY <2>1
<1>3. PICK n \in 1 .. Len(s.parts[p]) : s.parts[p][n].label = v
  BY <1>1, <1>2 DEF PartLabels
<1>4. PICK m \in 1 .. Len(s.parts[q]) : s.parts[q][m].label = v
  BY <1>1, <1>2 DEF PartLabels
<1> DEFINE x == c[n].label
<1>5. x \in Seq(STRING) /\ Len(x) = 1 /\ x \in PartLabels(s.parts[p], v) /\ x \in ValueLabels(s, v)
  <2>1. IsTaken(s, p, c, n)
    BY <1>0, <1>3, TakenValue
  <2> QED
    BY <1>3, <2>1 DEF IsTaken
<1>6. d[m].label \in PartLabels(s.parts[q], v) /\ d[m].label \in ValueLabels(s, v)
  <2>1. IsTaken(s, q, d, m)
    BY <1>0, <1>4, TakenValue
  <2> QED
    BY <1>4, <2>1 DEF IsTaken
<1>7. Cardinality(ValueLabels(s, v)) > 1
  <2>1. x # d[m].label
    BY <1>1, <1>5, <1>6
  <2> HIDE DEF x
  <2> QED
    BY <1>5, <1>6, <2>1, TwoLabelsVary
<1>8. Words(s, c)[n] = x /\ n \in DOMAIN Words(s, c) /\ Words(s, c) \in Seq(Seq(STRING))
      /\ MakeLabel(s, c) = FlattenSeq(Words(s, c))
  BY <1>0, <1>3, <1>7, WordsAre
<1> DEFINE a == Words(s, c)
           b == Words(s, d)
<1>9. /\ b \in Seq(Seq(STRING)) /\ DOMAIN b = 1 .. Len(s.parts[q])
      /\ \A k \in 1 .. Len(s.parts[q]) :
            b[k] = IF Cardinality(ValueLabels(s, s.parts[q][k].label)) > 1 THEN d[k].label ELSE <<>>
      /\ MakeLabel(s, d) = FlattenSeq(b)
  BY <1>0, WordsAre
<1> HIDE DEF a, b, x
<1>10. x[1] \in Range(a[n]) /\ n \in DOMAIN a
  BY <1>5, <1>8 DEF Range, a
<1>11. x[1] \in Range(FlattenSeq(a))
  <2>1. a \in Seq(Seq(STRING))
    BY <1>8 DEF a
  <2> DEFINE S == STRING
  <2> HIDE DEF S
  <2>2. \A y : y \in Range(FlattenSeq(a)) <=> \E i \in DOMAIN a : y \in Range(a[i])
    BY ONLY <2>1, FlattenIs
  <2> QED
    BY <1>10, <2>2
<1>12. FlattenSeq(a) = FlattenSeq(b)
  BY <1>8, <1>9 DEF a
<1>13. PICK k \in DOMAIN b : x[1] \in Range(b[k])
  <2>1. \A y : y \in Range(FlattenSeq(b)) <=> \E i \in DOMAIN b : y \in Range(b[i])
    BY ONLY <1>9, FlattenIs
  <2> QED
    BY <1>11, <1>12, <2>1
<1> DEFINE y == d[k].label
           u == s.parts[q][k].label
<1>14. y \in Seq(STRING) /\ Len(y) = 1 /\ y \in PartLabels(s.parts[q], u) /\ y \in ValueLabels(s, u)
  <2>1. IsTaken(s, q, d, k)
    BY <1>0, <1>9, <1>13, TakenValue
  <2> QED
    BY <2>1 DEF IsTaken
<1>15. u \in Names(s)
  BY <1>2, <1>9, <1>13 DEF Names
<1>16. b[k] = y
  <2>1. b[k] = y \/ b[k] = <<>>
    BY <1>9, <1>13
  <2>2. b[k] # <<>>
    BY <1>13 DEF Range
  <2> QED
    BY <2>1, <2>2
<1> HIDE DEF y, u
<1>17. x[1] = y[1]
  BY <1>13, <1>14, <1>16 DEF Range
<1>18. x = y
  <2> DEFINE S == STRING
  <2>1. x \in Seq(S) /\ y \in Seq(S) /\ Len(x) = Len(y) /\ \A i \in 1 .. Len(x) : x[i] = y[i]
    BY <1>5, <1>14, <1>17
  <2> HIDE DEF S
  <2> QED
    BY ONLY <2>1, SameElements
<1>19. u = v
  BY <1>0, <1>1, <1>5, <1>14, <1>15, <1>18 DEF PlainLabels
<1> QED
  BY <1>1, <1>5, <1>14, <1>18, <1>19

\* The variants of a suite are those of its parts, in order.
LEMMA VariantsOfParts ==
    ASSUME NEW s \in Suites, WellLabelled(s)
    PROVE  /\ IsInjective(Variants(s))
           /\ \A c \in Range(Variants(s)) : \E p \in DOMAIN s.parts : Takes(c, s.parts[p], 1)
<1> DEFINE D == DOMAIN s.parts
           r(p) == MakeVariants(s.parts[p])
           ss == [p \in D |-> r(p)]
           X == Seq(Value)
           T == Seq(X)
<1>1. PlainLabels(s) /\ D = 1 .. Len(s.parts) /\ Len(s.parts) \in Nat
  BY PartsAre DEF WellLabelled
<1>2. ASSUME NEW p \in D
      PROVE  r(p) \in T /\ IsInjective(r(p)) /\ \A c \in Range(r(p)) : Takes(c, s.parts[p], 1)
  <2> DEFINE vs == s.parts[p]
  <2>1. vs \in Seq(Variable) /\ vs # <<>>
    BY PartsAre
  <2>2. \A n \in 1 .. Len(vs) : IsInjective(vs[n].values)
    <3>1. DOMAIN vs = 1 .. Len(vs)
      BY <2>1
    <3> QED
      BY <1>1, <3>1 DEF PlainLabels
  <2> HIDE DEF vs
  <2>3. /\ MakeVariants(vs) \in Seq(Seq(Value)) /\ IsInjective(MakeVariants(vs))
        /\ \A c \in Range(MakeVariants(vs)) : Takes(c, vs, 1)
    BY ONLY <2>1, <2>2, MakeVariantsType, VariantsAre
  <2> QED
    BY <2>3 DEF vs
<1>3. Variants(s) = FlattenSeq(ss)
  BY DEF Variants
<1> HIDE DEF T, r, D
<1>4. ss \in Seq(T) /\ DOMAIN ss = D /\ \A p \in D : ss[p] = r(p)
  BY <1>1, <1>2
<1>5. ASSUME NEW p \in D, NEW q \in D, p # q, NEW c, c \in Range(r(p)), c \in Range(r(q)) PROVE FALSE
  <2>1. Takes(c, s.parts[p], 1) /\ Takes(c, s.parts[q], 1)
    BY <1>2, <1>5
  <2> QED
    BY <1>5, <2>1, OtherPart DEF D
<1> HIDE DEF ss, X
<1>6. /\ \A x : x \in Range(FlattenSeq(ss)) <=> \E i \in DOMAIN ss : x \in Range(ss[i])
      /\ /\ \A i \in DOMAIN ss : IsInjective(ss[i])
         /\ \A i, j \in DOMAIN ss : i # j => Range(ss[i]) \cap Range(ss[j]) = {}
         => IsInjective(FlattenSeq(ss))
  <2>1. ss \in Seq(Seq(X))
    BY <1>4 DEF T
  <2> QED
    BY ONLY <2>1, FlattenIs
<1>7. IsInjective(FlattenSeq(ss))
  <2>1. \A i, j \in DOMAIN ss : i # j => Range(ss[i]) \cap Range(ss[j]) = {}
    BY <1>4, <1>5
  <2>2. \A i \in DOMAIN ss : IsInjective(ss[i])
    BY <1>2, <1>4
  <2> QED
    BY <1>6, <2>1, <2>2
<1>8. ASSUME NEW c \in Range(FlattenSeq(ss)) PROVE \E p \in D : Takes(c, s.parts[p], 1)
  <2>1. PICK p \in D : c \in Range(ss[p])
    BY <1>4, <1>6
  <2> QED
    BY <1>2, <1>4, <2>1
<1> QED
  BY <1>3, <1>7, <1>8 DEF D

\* The output files of a well labelled suite are different for every two of its variants.
LEMMA OutfilesDistinct ==
    ASSUME NEW s \in Suites, WellLabelled(s)
    PROVE  IsInjective(Outfiles(s))
<1>1. /\ IsInjective(Variants(s))
      /\ \A c \in Range(Variants(s)) : \E p \in DOMAIN s.parts : Takes(c, s.parts[p], 1)
  BY VariantsOfParts
<1>0. PlainLabels(s) /\ s.label \in Seq(STRING)
  BY PartsAre DEF WellLabelled
<1>2. /\ DOMAIN Outfiles(s) = DOMAIN Variants(s)
      /\ \A t \in DOMAIN Variants(s) : Outfiles(s)[t] = s.label \o MakeLabel(s, Variants(s)[t])
  BY DEF Outfiles, Outfile
<1> SUFFICES ASSUME NEW t \in DOMAIN Variants(s), NEW u \in DOMAIN Variants(s), Outfiles(s)[t] = Outfiles(s)[u]
             PROVE  t = u
  BY <1>2 DEF IsInjective
<1> DEFINE c == Variants(s)[t]
           d == Variants(s)[u]
<1>3. PICK p \in DOMAIN s.parts : Takes(c, s.parts[p], 1)
  BY <1>1 DEF Range
<1>4. PICK q \in DOMAIN s.parts : Takes(d, s.parts[q], 1)
  BY <1>1 DEF Range
<1>5. s.label \o MakeLabel(s, c) = s.label \o MakeLabel(s, d)
  BY <1>2
<1> HIDE DEF c, d
<1>6. MakeLabel(s, c) \in Seq(STRING) /\ MakeLabel(s, d) \in Seq(STRING)
  BY <1>0, <1>3, <1>4, WordsAre
<1>7. MakeLabel(s, c) = MakeLabel(s, d)
  <2> DEFINE a == s.label
             x == MakeLabel(s, c)
             y == MakeLabel(s, d)
             S == STRING
  <2>1. a \in Seq(S) /\ x \in Seq(S) /\ y \in Seq(S) /\ Len(a) = Len(a) /\ a \o x = a \o y
    BY <1>0, <1>5, <1>6
  <2> HIDE DEF a, x, y, S
  <2>2. x = y
    BY ONLY <2>1, ConcatCancel
  <2> QED
    BY <2>2 DEF x, y
<1>8. p = q
  BY <1>3, <1>4, <1>7, OtherPart
<1>9. c = d
  BY <1>0, <1>3, <1>4, <1>7, <1>8, SamePart
<1> QED
  BY <1>1, <1>9 DEF IsInjective, c, d

----------------------------------------------------------------------------
(* The launcher and the jobs *)

\* The tasks given to a worker, and the states of a job that ran.
Started == 1 .. next - 1
Began == {"running", "finished", "killed"}

\* The types of the launcher, and which tasks it monitors.
FleetTypes ==
    /\ suite \in Suites /\ outfiles = Outfiles(suite) /\ regexes \in WorkersFiles
    /\ mode \in {"pipes", "sequenced"} /\ dryRun \in BOOLEAN /\ before \in BOOLEAN
    /\ phase \in {"set_logfile", "retrieve", "assign", "loop", "events", "done", "exit", "raised"}
    /\ idle \in Seq(Machine) /\ next \in 1 .. NTasks + 1
    /\ monitors \in Seq(Task) /\ IsInjective(monitors)
    /\ alive \subseteq Range(monitors) /\ Range(monitors) \subseteq Started
    /\ events \in Seq([task : Task, pollin : BOOLEAN, hup : BOOLEAN])
    /\ job \in [Task -> {"none", "running", "failed", "finished", "killed"}]
    /\ where \in [Task -> Machine] /\ DOMAIN files = Machine
    /\ phase \in {"set_logfile", "retrieve"} => monitors = <<>> /\ next = 1
    /\ drops \in Nat

\* Nothing gets lost between a job's pipe and the log: a hang-up with nothing to read means
\* that the pipe is empty, and stays so.
Pipes ==
    /\ open \subseteq Task /\ ended \subseteq Started
    /\ logged \in [Task -> Nat] /\ unread \in [Task -> 0 .. MaxLines] /\ piped \in [Task -> 0 .. MaxLines]
    /\ \A t \in Task : logged[t] + unread[t] = piped[t]
    /\ \A t \in open : job[t] = "running"
    /\ \A t \in ended : t \notin open /\ unread[t] = 0
    /\ phase # "events" => events = <<>>
    /\ \A n \in DOMAIN events : events[n].hup => /\ events[n].task \notin open /\ events[n].task \in Started
                                                 /\ ~events[n].pollin => unread[events[n].task] = 0

\* A task that was started is monitored until its end is logged, and its job runs on
\* after its pipe closed only when the connection dropped.
Watched ==
    /\ \A t \in Task : job[t] # "none" => t \in Started /\ ~dryRun
    /\ ~dryRun => /\ Started = alive \cup ended
                  /\ \A t \in Started : job[t] # "none"
                  /\ phase = "done" => alive = {} /\ next = NTasks + 1
    /\ Cardinality({t \in Task : job[t] = "running" /\ t \notin open}) <= drops

\* Where the tasks run: the n-th on the n-th worker, or, dispatched, on workers that are
\* neither idle nor busy with another monitored task.
Machines ==
    /\ mode = "pipes" => /\ phase = "assign" => ~dryRun /\ idle = Workers /\ NTasks <= Len(Workers)
                         /\ ~dryRun => \A t \in Started : t <= Len(Workers) /\ where[t] = Workers[t]
    /\ mode = "sequenced" /\ IsInjective(Workers) =>
          /\ IsInjective(idle)
          /\ \A t, u \in Range(monitors) : t # u => where[t] # where[u]
          /\ \A t \in Range(monitors) : where[t] \notin Range(idle)

\* What the output files hold, and what was pulled.
Results ==
    /\ before => /\ phase \in {"set_logfile", "exit"} /\ suite.label \in logfiles
                 /\ OldResultsKept /\ \A t \in Task : job[t] = "none"
    /\ ~before => \A m \in Machine : \A f \in files[m] : f.by \in Task /\ f = [out |-> outfiles[f.by], by |-> f.by]
    /\ IsInjective(outfiles) => \A t \in Task : job[t] \in Began => [out |-> outfiles[t], by |-> t] \in files[where[t]]
    /\ pulled # {} => phase = "done"
    /\ pulled # {} /\ IsInjective(outfiles) =>
          \A t \in Task : job[t] \in Began => [out |-> outfiles[t], by |-> t] \in pulled

\* What every step of the launcher, of the jobs and of the network preserves.
FleetInv == FleetTypes /\ Pipes /\ Watched /\ Machines /\ Results

\* The tasks are numbered like their output files.
LEMMA TasksAre ==
    ASSUME suite \in Suites, outfiles = Outfiles(suite)
    PROVE  NTasks \in Nat /\ Task = 1 .. NTasks /\ DOMAIN outfiles = Task
  BY OutfilesAre DEF NTasks, Task

\* The configuration of a launch does not change.
LEMMA ConfigFixed ==
    ASSUME UNCHANGED config
    PROVE  /\ suite' = suite /\ mode' = mode /\ dryRun' = dryRun /\ regexes' = regexes /\ outfiles' = outfiles /\ before' = before
           /\ NTasks' = NTasks /\ Task' = Task /\ Workers' = Workers
  BY DEF config, NTasks, Task, Workers

\* A launch starts with no job.
LEMMA FleetInitInv == FleetInit => FleetInv
<1> SUFFICES ASSUME FleetInit PROVE FleetInv
  OBVIOUS
<1>1. NTasks \in Nat /\ Task = 1 .. NTasks /\ DOMAIN outfiles = Task
  BY TasksAre DEF FleetInit
<1>2. Instances[1] \in Machine
  BY FleetConstants DEF Range
<1>3. Range(<<>>) = {} /\ IsInjective(<<>>) /\ Started = {} /\ <<>> \in Seq(Machine) /\ <<>> \in Seq(Task)
      /\ <<>> \in Seq([task : Task, pollin : BOOLEAN, hup : BOOLEAN])
  BY DEF FleetInit, Range, IsInjective, Started
<1>4. FleetTypes
  BY <1>1, <1>2, <1>3 DEF FleetInit, FleetTypes
<1>5. Pipes
  BY <1>1, <1>3, FleetConstants DEF FleetInit, Pipes
<1>6. Watched
  <2>1. {t \in Task : job[t] = "running" /\ t \notin open} = {}
    BY DEF FleetInit
  <2>2. Cardinality({}) = 0
    BY FS_EmptySet
  <2> QED
    BY <1>3, <2>1, <2>2 DEF FleetInit, Watched
<1>7. Machines
  BY <1>3 DEF FleetInit, Machines
<1>8. Results
  BY <1>1 DEF FleetInit, Results, OldResultsKept, Began
<1> QED
  BY <1>4, <1>5, <1>6, <1>7, <1>8 DEF FleetInv

\* Steps of the launcher that change only where it is.
LEMMA SetLogfileStep == FleetInv /\ SetLogfile => FleetInv'
<1> SUFFICES ASSUME FleetInv, SetLogfile PROVE FleetInv'
  OBVIOUS
<1> USE DEF remote, SetLogfile, Started
<1>1. /\ suite' = suite /\ mode' = mode /\ dryRun' = dryRun /\ regexes' = regexes /\ outfiles' = outfiles /\ before' = before
      /\ NTasks' = NTasks /\ Task' = Task /\ Workers' = Workers
  BY ConfigFixed
<1>2. FleetTypes'
  BY <1>1 DEF FleetInv, FleetTypes
<1>3. Pipes'
  BY <1>1 DEF FleetInv, Pipes
<1>4. Watched'
  BY <1>1 DEF FleetInv, Watched
<1>5. Machines'
  BY <1>1 DEF FleetInv, Machines
<1>6. Results'
  BY <1>1 DEF FleetInv, Results, OldResultsKept, LogfileFree
<1> QED
  BY <1>2, <1>3, <1>4, <1>5, <1>6 DEF FleetInv

\* Finding the workers.
LEMMA RetrieveStep == FleetInv /\ RetrieveRunningWorkers => FleetInv'
<1> SUFFICES ASSUME FleetInv, RetrieveRunningWorkers PROVE FleetInv'
  OBVIOUS
<1> USE DEF remote, RetrieveRunningWorkers, Started
<1>1. /\ suite' = suite /\ mode' = mode /\ dryRun' = dryRun /\ regexes' = regexes /\ outfiles' = outfiles /\ before' = before
      /\ NTasks' = NTasks /\ Task' = Task /\ Workers' = Workers
  BY ConfigFixed
<1>0. NTasks \in Nat /\ Task = 1 .. NTasks
  BY TasksAre DEF FleetInv, FleetTypes
<1>2. Workers \in Seq(Machine) /\ Len(Workers) \in Nat
  BY WorkersAre DEF FleetInv, FleetTypes
<1>3. monitors = <<>> /\ next = 1 /\ Range(<<>>) = {} /\ alive = {}
  BY DEF FleetInv, FleetTypes, Range
<1>4. FleetTypes'
  BY <1>0, <1>1, <1>2, <1>3 DEF FleetInv, FleetTypes
<1>5. Pipes'
  <2>1. events = <<>> /\ phase' # "events"
    BY DEF FleetInv, Pipes
  <2>2. Started \subseteq Started'
    BY <1>0, <1>3
  <2>3. UNCHANGED <<open, ended, logged, unread, piped, job, events>>
    OBVIOUS
  <2> HIDE DEF RetrieveRunningWorkers, Started
  <2> QED
    BY <1>1, <2>1, <2>2, <2>3 DEF FleetInv, Pipes
<1>6. Watched'
  <2>1. dryRun \/ next' = next
    OBVIOUS
  <2>2. Started \subseteq Started'
    BY <1>0, <1>3
  <2> QED
    BY <1>0, <1>1, <1>3, <2>1, <2>2 DEF FleetInv, Watched
<1>7. Machines'
  BY <1>0, <1>1, <1>2, <1>3 DEF FleetInv, Machines
<1>8. Results'
  BY <1>1 DEF FleetInv, Results, OldResultsKept
<1> QED
  BY <1>4, <1>5, <1>6, <1>7, <1>8 DEF FleetInv

\* All tasks assigned.
LEMMA FinishAssignStep == FleetInv /\ FinishAssign => FleetInv'
<1> SUFFICES ASSUME FleetInv, FinishAssign PROVE FleetInv'
  OBVIOUS
<1> USE DEF remote, FinishAssign, Started
<1>1. /\ suite' = suite /\ mode' = mode /\ dryRun' = dryRun /\ regexes' = regexes /\ outfiles' = outfiles /\ before' = before
      /\ NTasks' = NTasks /\ Task' = Task /\ Workers' = Workers
  BY ConfigFixed
<1>2. FleetTypes'
  BY <1>1 DEF FleetInv, FleetTypes
<1>3. Pipes'
  BY <1>1 DEF FleetInv, Pipes
<1>4. Watched'
  BY <1>1 DEF FleetInv, Watched
<1>5. Machines'
  BY <1>1 DEF FleetInv, Machines
<1>6. Results'
  BY <1>1 DEF FleetInv, Results, OldResultsKept
<1> QED
  BY <1>2, <1>3, <1>4, <1>5, <1>6 DEF FleetInv

\* "All jobs complete." is said when nothing is monitored or left to assign.
LEMMA AllJobsCompleteStep == FleetInv /\ AllJobsComplete => FleetInv'
<1> SUFFICES ASSUME FleetInv, AllJobsComplete PROVE FleetInv'
  OBVIOUS
<1> USE DEF remote, AllJobsComplete, Started
<1>1. /\ suite' = suite /\ mode' = mode /\ dryRun' = dryRun /\ regexes' = regexes /\ outfiles' = outfiles /\ before' = before
      /\ NTasks' = NTasks /\ Task' = Task /\ Workers' = Workers
  BY ConfigFixed
<1>0. NTasks \in Nat
  BY TasksAre DEF FleetInv, FleetTypes
<1>2. FleetTypes'
  BY <1>1 DEF FleetInv, FleetTypes
<1>3. Pipes'
  BY <1>1 DEF FleetInv, Pipes
<1>4. Watched'
  <2>1. alive = {} /\ next = NTasks + 1
    BY <1>0 DEF LoopOver, FleetInv, FleetTypes, Range
  <2> QED
    BY <1>1, <2>1 DEF FleetInv, Watched
<1>5. Machines'
  BY <1>1 DEF FleetInv, Machines
<1>6. Results'
  BY <1>1 DEF FleetInv, Results, OldResultsKept
<1> QED
  BY <1>2, <1>3, <1>4, <1>5, <1>6 DEF FleetInv

\* The jobs: what is not theirs stays.
LEMMA JobStep ==
    ASSUME FleetInv, UNCHANGED <<config, launcher, where, files, pulled>>, Pipes', drops' \in Nat,
           job' \in [Task -> {"none", "running", "failed", "finished", "killed"}],
           \A t \in Task : /\ job'[t] = "none" <=> job[t] = "none"
                           /\ job'[t] \in Began <=> job[t] \in Began,
           Cardinality({t \in Task : job'[t] = "running" /\ t \notin open'}) <= drops'
    PROVE  FleetInv'
<1>1. /\ suite' = suite /\ mode' = mode /\ dryRun' = dryRun /\ regexes' = regexes /\ outfiles' = outfiles /\ before' = before
      /\ NTasks' = NTasks /\ Task' = Task /\ Workers' = Workers
  BY ConfigFixed DEF config
<1>0. NTasks \in Nat /\ Task = 1 .. NTasks
  BY TasksAre DEF FleetInv, FleetTypes
<1> USE DEF launcher
<1>2. FleetTypes'
  BY <1>1 DEF FleetInv, FleetTypes, Started
<1>3. Watched'
  <2>1. Started' = Started /\ alive' = alive /\ ended' = ended /\ phase' = phase /\ next' = next
    BY DEF Started
  <2>2. Watched /\ next \in Nat
    BY <1>0 DEF FleetInv, FleetTypes
  <2>3. Started \subseteq Task
    BY <1>0 DEF FleetInv, FleetTypes, Started
  <2>4. \A t \in Task : job'[t] # "none" => t \in Started /\ ~dryRun
    BY <2>2 DEF Watched
  <2>5. ~dryRun => \A t \in Started : job'[t] # "none"
    BY <2>2, <2>3 DEF Watched
  <2>6. ~dryRun => Started = alive \cup ended /\ (phase = "done" => alive = {} /\ next = NTasks + 1)
    BY <2>2 DEF Watched
  <2> QED
    BY <1>1, <2>1, <2>4, <2>5, <2>6 DEF Watched
<1>4. Machines'
  BY <1>1 DEF FleetInv, Machines, Started
<1>5. Results'
  BY <1>1 DEF FleetInv, Results, OldResultsKept
<1> QED
  BY <1>2, <1>3, <1>4, <1>5 DEF FleetInv

\* The elements of a list are of its type.
LEMMA ElementsAre ==
    ASSUME NEW S, NEW s \in Seq(S), NEW n \in DOMAIN s
    PROVE  s[n] \in S
  OBVIOUS

\* An event is about a task.
LEMMA EventsAre ==
    ASSUME FleetInv, NEW n \in DOMAIN events
    PROVE  events[n] \in [task : Task, pollin : BOOLEAN, hup : BOOLEAN] /\ events[n].task \in Task
<1>1. events \in Seq([task : Task, pollin : BOOLEAN, hup : BOOLEAN])
  BY DEF FleetInv, FleetTypes
<1>2. events[n] \in [task : Task, pollin : BOOLEAN, hup : BOOLEAN]
  BY ONLY <1>1, n \in DOMAIN events, ElementsAre
<1> QED
  BY <1>2

\* The tasks are finitely many.
LEMMA RunningFinite ==
    ASSUME FleetInv, NEW S \in SUBSET Task
    PROVE  IsFiniteSet(S) /\ Cardinality(S) \in Nat /\ IsFiniteSet(Task)
<1>1. NTasks \in Nat /\ Task = 1 .. NTasks
  BY TasksAre DEF FleetInv, FleetTypes
<1>2. IsFiniteSet(Task)
  BY <1>1, FS_Interval
<1> QED
  BY <1>2, FS_Subset, FS_CardinalityType

\* A job prints a line.
LEMMA PrintLineStep ==
    ASSUME FleetInv, NEW t \in Task, PrintLine(t)
    PROVE  FleetInv'
<1>1. /\ suite' = suite /\ mode' = mode /\ dryRun' = dryRun /\ regexes' = regexes /\ outfiles' = outfiles /\ before' = before
      /\ NTasks' = NTasks /\ Task' = Task /\ Workers' = Workers
  BY ConfigFixed DEF PrintLine
<1>0. NTasks \in Nat /\ Task = 1 .. NTasks
  BY TasksAre DEF FleetInv, FleetTypes
<1>2. /\ job' = job /\ open' = open /\ drops' = drops /\ UNCHANGED <<launcher, config, where, files, pulled>>
      /\ t \in open /\ piped[t] < MaxLines
      /\ piped' = [piped EXCEPT ![t] = @ + 1] /\ unread' = [unread EXCEPT ![t] = @ + 1]
  BY DEF PrintLine
<1>3. Pipes'
  <2>1. Pipes
    BY DEF FleetInv
  <2>2. /\ piped[t] \in 0 .. MaxLines /\ unread[t] \in 0 .. MaxLines /\ logged[t] \in Nat
        /\ logged[t] + unread[t] = piped[t] /\ MaxLines \in Nat
    BY <2>1, FleetConstants DEF Pipes
  <2>3. piped[t] + 1 \in 0 .. MaxLines /\ unread[t] + 1 \in 0 .. MaxLines /\ logged[t] + (unread[t] + 1) = piped[t] + 1
    BY <1>2, <2>2
  <2>4. /\ piped' \in [Task -> 0 .. MaxLines] /\ unread' \in [Task -> 0 .. MaxLines]
        /\ piped'[t] = piped[t] + 1 /\ unread'[t] = unread[t] + 1
        /\ \A u \in Task : u # t => piped'[u] = piped[u] /\ unread'[u] = unread[u]
    BY <1>2, <2>1, <2>3 DEF Pipes
  <2>5. \A u \in Task : logged[u] + unread'[u] = piped'[u]
    BY <2>1, <2>3, <2>4 DEF Pipes
  <2>6. \A u \in ended : u \in Task
    BY <1>0 DEF FleetInv, FleetTypes, Pipes, Started
  <2>7. \A u \in ended : u \notin open /\ unread'[u] = 0
    BY <1>2, <2>1, <2>4, <2>6 DEF Pipes
  <2>8. \A n \in DOMAIN events : events[n].task \in Task
    BY EventsAre
  <2>9. \A n \in DOMAIN events : events[n].hup => /\ events[n].task \notin open /\ events[n].task \in Started
                                                  /\ ~events[n].pollin => unread'[events[n].task] = 0
    BY <1>2, <2>1, <2>4, <2>8 DEF Pipes
  <2> QED
    BY <1>1, <1>2, <2>1, <2>4, <2>5, <2>7, <2>9 DEF Pipes, launcher, Started
<1>4. /\ job' \in [Task -> {"none", "running", "failed", "finished", "killed"}] /\ drops' \in Nat
      /\ Cardinality({u \in Task : job'[u] = "running" /\ u \notin open'}) <= drops'
  BY <1>2 DEF FleetInv, FleetTypes, Watched
<1> QED
  BY <1>2, <1>3, <1>4, JobStep

\* The pipes after some are closed and nothing else is done to them.
LEMMA PipesClose ==
    ASSUME FleetInv, UNCHANGED <<config, launcher, unread, piped>>, open' \subseteq open,
           \A t \in open' : job'[t] = "running"
    PROVE  Pipes'
<1>1. /\ suite' = suite /\ mode' = mode /\ dryRun' = dryRun /\ regexes' = regexes /\ outfiles' = outfiles /\ before' = before
      /\ NTasks' = NTasks /\ Task' = Task /\ Workers' = Workers
  BY ConfigFixed DEF config
<1>0. NTasks \in Nat /\ Task = 1 .. NTasks
  BY TasksAre DEF FleetInv, FleetTypes
<1> QED
  BY <1>1 DEF FleetInv, Pipes, launcher, Started

\* A job ends.
LEMMA FinishJobStep ==
    ASSUME FleetInv, NEW t \in Task, FinishJob(t)
    PROVE  FleetInv'
<1>1. /\ job[t] = "running" /\ open' = open \ {t} /\ drops' = drops
      /\ UNCHANGED <<config, launcher, where, unread, piped, files, pulled>>
      /\ job' \in [Task -> {"none", "running", "failed", "finished", "killed"}]
      /\ job'[t] = "finished" /\ \A u \in Task : u # t => job'[u] = job[u]
  BY DEF FinishJob, FleetInv, FleetTypes
<1>2. open \subseteq Task /\ \A u \in open : job[u] = "running"
  BY DEF FleetInv, Pipes
<1>3. Pipes'
  BY <1>1, <1>2, PipesClose
<1>4. Cardinality({u \in Task : job'[u] = "running" /\ u \notin open'}) <= drops'
  <2> DEFINE A == {u \in Task : job[u] = "running" /\ u \notin open}
             B == {u \in Task : job'[u] = "running" /\ u \notin open'}
  <2>1. B \subseteq A /\ A \in SUBSET Task
    BY <1>1
  <2>2. Cardinality(A) <= drops /\ drops \in Nat
    BY DEF FleetInv, Watched, FleetTypes
  <2> HIDE DEF A, B
  <2>3. Cardinality(B) <= Cardinality(A) /\ Cardinality(A) \in Nat /\ Cardinality(B) \in Nat
    BY <2>1, RunningFinite, FS_Subset
  <2>4. Cardinality(B) <= drops'
    BY <1>1, <2>2, <2>3
  <2> QED
    BY <2>4 DEF B
<1>5. \A u \in Task : (job'[u] = "none" <=> job[u] = "none") /\ (job'[u] \in Began <=> job[u] \in Began)
  BY <1>1 DEF Began
<1>6. drops' \in Nat
  BY <1>1 DEF FleetInv, FleetTypes
<1> QED
  BY <1>1, <1>3, <1>4, <1>5, <1>6, JobStep

\* The jobs of a machine are killed.
LEMMA KillJobsStep ==
    ASSUME FleetInv, NEW m \in Machine, KillJobs(m)
    PROVE  FleetInv'
<1>1. /\ open' = {t \in open : where[t] # m} /\ drops' = drops
      /\ UNCHANGED <<config, launcher, where, unread, piped, files, pulled>>
      /\ job' = [t \in Task |-> IF job[t] = "running" /\ where[t] = m THEN "killed" ELSE job[t]]
  BY DEF KillJobs
<1>2. open \subseteq Task /\ \A u \in open : job[u] = "running"
  BY DEF FleetInv, Pipes
<1>3. Pipes'
  BY <1>1, <1>2, PipesClose
<1>4. Cardinality({u \in Task : job'[u] = "running" /\ u \notin open'}) <= drops'
  <2> DEFINE A == {u \in Task : job[u] = "running" /\ u \notin open}
             B == {u \in Task : job'[u] = "running" /\ u \notin open'}
  <2>1. B \subseteq A /\ A \in SUBSET Task
    BY <1>1
  <2>2. Cardinality(A) <= drops /\ drops \in Nat
    BY DEF FleetInv, Watched, FleetTypes
  <2> HIDE DEF A, B
  <2>3. Cardinality(B) <= Cardinality(A) /\ Cardinality(A) \in Nat /\ Cardinality(B) \in Nat
    BY <2>1, RunningFinite, FS_Subset
  <2>4. Cardinality(B) <= drops'
    BY <1>1, <2>2, <2>3
  <2> QED
    BY <2>4 DEF B
<1>5. /\ \A u \in Task : (job'[u] = "none" <=> job[u] = "none") /\ (job'[u] \in Began <=> job[u] \in Began)
      /\ job' \in [Task -> {"none", "running", "failed", "finished", "killed"}]
  BY <1>1 DEF Began, FleetInv, FleetTypes
<1>6. drops' \in Nat
  BY <1>1 DEF FleetInv, FleetTypes
<1> QED
  BY <1>1, <1>3, <1>4, <1>5, <1>6, JobStep

\* A connection breaks while its job runs.
LEMMA DropConnectionStep ==
    ASSUME FleetInv, NEW t \in Task, DropConnection(t)
    PROVE  FleetInv'
<1>1. /\ open' = open \ {t} /\ drops' = drops + 1 /\ t \in open
      /\ UNCHANGED <<config, launcher, job, where, unread, piped, files, pulled>>
  BY DEF DropConnection
<1>2. open \subseteq Task /\ \A u \in open : job[u] = "running"
  BY DEF FleetInv, Pipes
<1>3. Pipes'
  BY <1>1, <1>2, PipesClose
<1>4. Cardinality({u \in Task : job'[u] = "running" /\ u \notin open'}) <= drops'
  <2> DEFINE A == {u \in Task : job[u] = "running" /\ u \notin open}
             B == {u \in Task : job'[u] = "running" /\ u \notin open'}
  <2>1. B = A \cup {t} /\ A \in SUBSET Task
    BY <1>1, <1>2
  <2>2. Cardinality(A) <= drops /\ drops \in Nat
    BY DEF FleetInv, Watched, FleetTypes
  <2> HIDE DEF A, B
  <2>3. IsFiniteSet(A) /\ Cardinality(A) \in Nat
    BY <2>1, RunningFinite
  <2>7. Cardinality(A \cup {t}) = Cardinality(A) \/ Cardinality(A \cup {t}) = Cardinality(A) + 1
    BY <2>3, FS_AddElement
  <2>4. Cardinality(B) <= Cardinality(A) + 1 /\ Cardinality(B) \in Nat
    BY <2>1, <2>3, <2>7
  <2>5. Cardinality(B) <= drops'
    BY <1>1, <2>2, <2>3, <2>4
  <2> QED
    BY <2>5 DEF B
<1>5. drops' \in Nat /\ job' \in [Task -> {"none", "running", "failed", "finished", "killed"}] /\ job' = job
  BY <1>1 DEF FleetInv, FleetTypes
<1> QED
  BY <1>1, <1>3, <1>4, <1>5, JobStep
----------------------------------------------------------------------------
(* The launcher's lists *)

\* A list without its last element.
LEMMA FrontLast ==
    ASSUME NEW S, NEW s \in Seq(S), s # <<>>
    PROVE  /\ Front(s) \in Seq(S) /\ Last(s) \in S /\ Last(s) \in Range(s) /\ Range(Front(s)) \subseteq Range(s)
           /\ IsInjective(s) => IsInjective(Front(s)) /\ Last(s) \notin Range(Front(s))
<1> DEFINE N == Len(s)
           f == Front(s)
<1>1. N \in Nat /\ N >= 1 /\ DOMAIN s = 1 .. N /\ \A i \in 1 .. N : s[i] \in S
  OBVIOUS
<1>2. Last(s) = s[N] /\ f = SubSeq(s, 1, N - 1)
  BY DEF Last, Front
<1>3. /\ f \in Seq(S) /\ DOMAIN f = 1 .. N - 1
      /\ \A i \in 1 .. N - 1 : f[i] = s[i]
  BY <1>1, <1>2
<1> HIDE DEF N, f
<1>4. \A i \in 1 .. N - 1 : i \in 1 .. N /\ i # N
  BY <1>1
<1>5. N \in 1 .. N
  BY <1>1
<1>6. Last(s) \in S /\ Last(s) \in Range(s)
  BY <1>1, <1>2, <1>5 DEF Range
<1>7. Range(f) \subseteq Range(s)
  BY <1>1, <1>3, <1>4 DEF Range
<1>8. IsInjective(s) => IsInjective(f)
  BY <1>1, <1>3, <1>4 DEF IsInjective
<1>9. IsInjective(s) => Last(s) \notin Range(f)
  BY <1>1, <1>2, <1>3, <1>4, <1>5 DEF IsInjective, Range
<1> QED
  BY <1>3, <1>6, <1>7, <1>8, <1>9 DEF f

\* A list in reverse.
LEMMA ReverseIs ==
    ASSUME NEW S, NEW s \in Seq(S)
    PROVE  Reverse(s) \in Seq(S) /\ Range(Reverse(s)) = Range(s) /\ (IsInjective(s) => IsInjective(Reverse(s)))
<1> DEFINE r == Reverse(s)
           M == Len(s)
<1>1. M \in Nat /\ DOMAIN s = 1 .. M
  OBVIOUS
<1>2. /\ r \in Seq(S) /\ DOMAIN r = 1 .. M
      /\ \A i \in 1 .. M : M - i + 1 \in 1 .. M /\ r[i] = s[M - i + 1]
  BY <1>1 DEF Reverse
<1>3. \A i \in 1 .. M : M - (M - i + 1) + 1 = i
  BY <1>1
<1> HIDE DEF r, M
<1>4. Range(r) = Range(s)
  BY <1>1, <1>2, <1>3 DEF Range
<1>5. IsInjective(s) => IsInjective(r)
  BY <1>1, <1>2, <1>3 DEF IsInjective
<1> QED
  BY <1>2, <1>4, <1>5 DEF r

\* A list put in reverse before another, as the freed workers are.
LEMMA ReverseAhead ==
    ASSUME NEW S, NEW s \in Seq(S), NEW u \in Seq(S)
    PROVE  /\ Reverse(s) \o u \in Seq(S) /\ Range(Reverse(s) \o u) = Range(s) \cup Range(u)
           /\ IsInjective(s) /\ IsInjective(u) /\ Range(s) \cap Range(u) = {} => IsInjective(Reverse(s) \o u)
<1> DEFINE r == Reverse(s)
<1>1. r \in Seq(S) /\ Range(r) = Range(s) /\ (IsInjective(s) => IsInjective(r))
  BY ReverseIs
<1> HIDE DEF r
<1>2. /\ r \o u \in Seq(S) /\ Range(r \o u) = Range(r) \cup Range(u)
      /\ IsInjective(r) /\ IsInjective(u) /\ Range(r) \cap Range(u) = {} => IsInjective(r \o u)
  BY <1>1, ConcatIs
<1> QED
  BY <1>1, <1>2 DEF r

----------------------------------------------------------------------------
(* A task starts *)

\* The next task was not started yet.
LEMMA StartedIs ==
    ASSUME FleetInv
    PROVE  /\ NTasks \in Nat /\ Task = 1 .. NTasks /\ DOMAIN outfiles = Task /\ next \in Nat
           /\ Started \subseteq Task /\ next \notin Started /\ Started \cup {next} = 1 .. next
           /\ Range(monitors) \subseteq Started /\ (next <= NTasks => next \in Task)
<1>1. NTasks \in Nat /\ Task = 1 .. NTasks /\ DOMAIN outfiles = Task
  BY TasksAre DEF FleetInv, FleetTypes
<1>2. next \in 1 .. NTasks + 1 /\ Range(monitors) \subseteq Started
  BY DEF FleetInv, FleetTypes
<1> QED
  BY <1>1, <1>2 DEF Started

\* The monitored tasks after one more.
LEMMA MonitorMore ==
    ASSUME FleetInv, next <= NTasks, UNCHANGED config, next' = next + 1, monitors' = Append(monitors, next)
    PROVE  /\ next' \in 1 .. NTasks + 1 /\ Started' = Started \cup {next}
           /\ monitors' \in Seq(Task) /\ IsInjective(monitors')
           /\ Range(monitors') = Range(monitors) \cup {next}
<1>1. /\ NTasks \in Nat /\ Task = 1 .. NTasks /\ next \in Nat /\ next \in Task
      /\ next \notin Started /\ Started \cup {next} = 1 .. next /\ Range(monitors) \subseteq Started
  BY StartedIs
<1>2. monitors \in Seq(Task) /\ IsInjective(monitors)
  BY DEF FleetInv, FleetTypes
<1>3. /\ Append(monitors, next) \in Seq(Task) /\ Range(Append(monitors, next)) = Range(monitors) \cup {next}
      /\ IsInjective(Append(monitors, next))
  BY <1>1, <1>2, AppendIs
<1>4. next' \in 1 .. NTasks + 1 /\ Started' = 1 .. next
  BY <1>1 DEF Started
<1> QED
  BY <1>1, <1>3, <1>4

\* Starting the next task on a worker that the mode allows.
LEMMA StartJobStep ==
    ASSUME FleetInv, phase = "assign", next <= NTasks, ~dryRun, NEW w \in Machine, StartJob(next, w),
           monitors' = Append(monitors, next), alive' = alive \cup {next}, next' = next + 1,
           UNCHANGED <<config, phase, events, logged, ended, logfiles, pulled>>, idle' \in Seq(Machine), Machines'
    PROVE  FleetInv'
<1>1. /\ suite' = suite /\ mode' = mode /\ dryRun' = dryRun /\ regexes' = regexes /\ outfiles' = outfiles /\ before' = before
      /\ NTasks' = NTasks /\ Task' = Task /\ Workers' = Workers
  BY ConfigFixed
<1>2. /\ NTasks \in Nat /\ Task = 1 .. NTasks /\ DOMAIN outfiles = Task /\ next \in Nat
      /\ Started \subseteq Task /\ next \notin Started /\ next \in Task
  BY StartedIs
<1>3. /\ next' \in 1 .. NTasks + 1 /\ Started' = Started \cup {next}
      /\ monitors' \in Seq(Task) /\ IsInjective(monitors')
      /\ Range(monitors') = Range(monitors) \cup {next}
  BY MonitorMore
<1>4. /\ job \in [Task -> {"none", "running", "failed", "finished", "killed"}]
      /\ where \in [Task -> Machine] /\ DOMAIN files = Machine
  BY DEF FleetInv, FleetTypes
<1>5. /\ job' \in [Task -> {"none", "running", "failed", "finished", "killed"}]
      /\ where' \in [Task -> Machine] /\ DOMAIN files' = Machine
      /\ job'[next] = IF Refused(next, w) THEN "failed" ELSE "running"
      /\ where'[next] = w
      /\ \A t \in Task : t # next => job'[t] = job[t] /\ where'[t] = where[t]
  BY <1>2, <1>4 DEF StartJob
<1>6. open' = (IF Refused(next, w) THEN open ELSE open \cup {next}) /\ UNCHANGED <<unread, piped, drops>>
  BY DEF StartJob
<1>7. job[next] = "none" /\ next \notin open /\ next \notin ended /\ next \notin alive
  BY <1>2 DEF FleetInv, Watched, Pipes, FleetTypes
<1>8. FleetTypes'
  <2>1. FleetTypes
    BY DEF FleetInv
  <2>2. alive' \subseteq Range(monitors') /\ Range(monitors') \subseteq Started'
    BY <1>3, <2>1 DEF FleetTypes
  <2>3. suite' \in Suites /\ outfiles' = Outfiles(suite')
    BY <1>1, <2>1 DEF FleetTypes
  <2> QED
    BY <1>1, <1>3, <1>5, <1>6, <2>1, <2>2, <2>3 DEF FleetTypes
<1>9. Pipes'
  <2>1. Pipes
    BY DEF FleetInv
  <2>2. open' \subseteq Task /\ \A t \in open' : job'[t] = "running"
    BY <1>2, <1>5, <1>6, <1>7, <2>1 DEF Pipes
  <2>3. \A t \in ended : t \notin open'
    BY <1>6, <1>7, <2>1 DEF Pipes
  <2>4. events = <<>>
    BY <2>1 DEF Pipes
  <2> QED
    BY <1>1, <1>3, <1>6, <2>1, <2>2, <2>3, <2>4 DEF Pipes
<1>10. Watched'
  <2>1. Watched
    BY DEF FleetInv
  <2>2. {t \in Task : job'[t] = "running" /\ t \notin open'} = {t \in Task : job[t] = "running" /\ t \notin open}
    BY <1>2, <1>5, <1>6, <1>7
  <2>3. \A t \in Task : job'[t] # "none" => t \in Started'
    BY <1>3, <1>5, <2>1 DEF Watched
  <2>4. \A t \in Started' : job'[t] # "none"
    BY <1>2, <1>3, <1>5, <2>1 DEF Watched
  <2>5. Started' = alive' \cup ended'
    BY <1>3, <2>1 DEF Watched
  <2> QED
    BY <1>1, <1>6, <2>1, <2>2, <2>3, <2>4, <2>5 DEF Watched
<1>11. Results'
  <2>1. Results
    BY DEF FleetInv
  <2>2. ~before /\ pulled = {}
    BY <2>1 DEF Results
  <2> DEFINE mine == [out |-> outfiles[next], by |-> next]
  <2>3. Refused(next, w) => files' = files
    BY DEF StartJob
  <2>4. ~Refused(next, w) => /\ files'[w] = {f \in files[w] : f.out # outfiles[next]} \cup {mine}
                             /\ \A m \in Machine : m # w => files'[m] = files[m]
    BY <1>4 DEF StartJob
  <2>5. ASSUME NEW m \in Machine, NEW f \in files'[m]
        PROVE  f.by \in Task /\ f = [out |-> outfiles[f.by], by |-> f.by]
    <3>1. f \in files[m] \/ f = mine
      BY <2>3, <2>4, <2>5
    <3> QED
      BY <1>2, <2>1, <2>2, <3>1 DEF Results
  <2>6. ASSUME IsInjective(outfiles), NEW t \in Task, job'[t] \in Began
        PROVE  [out |-> outfiles[t], by |-> t] \in files'[where'[t]]
    <3>1. CASE t = next
      BY <1>5, <2>4, <2>6, <3>1 DEF Began
    <3>2. CASE t # next
      <4> DEFINE yours == [out |-> outfiles[t], by |-> t]
      <4>1. yours \in files[where[t]] /\ where'[t] = where[t] /\ where[t] \in Machine
        BY <1>4, <1>5, <2>1, <2>6, <3>2 DEF Results
      <4>2. yours.out # outfiles[next]
        BY <1>2, <2>6, <3>2 DEF IsInjective
      <4> HIDE DEF yours
      <4>3. yours \in files'[where'[t]]
        BY <2>3, <2>4, <4>1, <4>2
      <4> QED
        BY <4>3 DEF yours
    <3> QED
      BY <3>1, <3>2
  <2> QED
    BY <1>1, <2>1, <2>2, <2>5, <2>6 DEF Results
<1> QED
  BY <1>8, <1>9, <1>10, <1>11 DEF FleetInv

\* launch_worker_pipes gives the n-th task to the n-th worker.
LEMMA LaunchWorkerPipeStep == FleetInv /\ LaunchWorkerPipe => FleetInv'
<1> SUFFICES ASSUME FleetInv, LaunchWorkerPipe PROVE FleetInv'
  OBVIOUS
<1>1. /\ suite' = suite /\ mode' = mode /\ dryRun' = dryRun /\ regexes' = regexes /\ outfiles' = outfiles /\ before' = before
      /\ NTasks' = NTasks /\ Task' = Task /\ Workers' = Workers
  BY ConfigFixed DEF LaunchWorkerPipe
<1>2. /\ phase = "assign" /\ mode = "pipes" /\ next <= NTasks /\ StartJob(next, idle[next])
      /\ monitors' = Append(monitors, next) /\ alive' = alive \cup {next} /\ next' = next + 1
      /\ UNCHANGED <<config, phase, idle, events, logged, ended, logfiles, pulled>>
  BY DEF LaunchWorkerPipe
<1>3. /\ NTasks \in Nat /\ Task = 1 .. NTasks /\ next \in Nat
      /\ Started \subseteq Task /\ next \notin Started /\ next \in Task /\ Started \cup {next} = 1 .. next
  BY <1>2, StartedIs
<1>4. idle = Workers /\ NTasks <= Len(Workers)
  BY <1>2 DEF FleetInv, Machines
<1>5. Workers \in Seq(Machine)
  BY WorkersAre DEF FleetInv, FleetTypes
<1>6. Workers[next] \in Machine /\ Len(Workers) \in Nat
  <2> DEFINE W == Workers
  <2>1. W \in Seq(Machine) /\ NTasks <= Len(W)
    BY <1>4, <1>5
  <2> HIDE DEF W
  <2>2. Len(W) \in Nat /\ next \in DOMAIN W
    BY <1>3, <2>1
  <2>3. W[next] \in Machine
    BY ONLY <2>1, <2>2, ElementsAre
  <2> QED
    BY <2>2, <2>3 DEF W
<1>7. dryRun => FALSE
  BY <1>2 DEF FleetInv, Machines
<1>8. Started' = Started \cup {next}
  BY <1>2, MonitorMore
<1>9. /\ where' = [where EXCEPT ![next] = Workers[next]] /\ where \in [Task -> Machine]
  BY <1>2, <1>4 DEF StartJob, FleetInv, FleetTypes
<1>10. Machines'
  <2>1. ~dryRun => \A t \in Started : t <= Len(Workers) /\ where[t] = Workers[t]
    BY <1>2 DEF FleetInv, Machines
  <2>2. \A t \in Started' : t <= Len(Workers) /\ where'[t] = Workers[t]
    BY <1>3, <1>4, <1>6, <1>7, <1>8, <1>9, <2>1
  <2> QED
    BY <1>1, <1>2, <1>4, <1>7, <2>2 DEF Machines
<1>11. idle' \in Seq(Machine) /\ StartJob(next, Workers[next])
  BY <1>2, <1>4, <1>5
<1> QED
  BY <1>2, <1>6, <1>7, <1>10, <1>11, StartJobStep

\* sequenced_launcher.py gives the next task to the last idle worker.
LEMMA DispatchOneStep == FleetInv /\ DispatchOne => FleetInv'
<1> SUFFICES ASSUME FleetInv, DispatchOne PROVE FleetInv'
  OBVIOUS
<1> DEFINE w == Last(idle)
<1>1. /\ suite' = suite /\ mode' = mode /\ dryRun' = dryRun /\ regexes' = regexes /\ outfiles' = outfiles /\ before' = before
      /\ NTasks' = NTasks /\ Task' = Task /\ Workers' = Workers
  BY ConfigFixed DEF DispatchOne
<1>2. /\ phase = "assign" /\ mode = "sequenced" /\ next <= NTasks /\ idle # <<>> /\ idle' = Front(idle)
      /\ monitors' = Append(monitors, next) /\ next' = next + 1
      /\ UNCHANGED <<config, phase, events, logged, ended, logfiles, pulled>>
  BY DEF DispatchOne, RestOfIdle
<1>3. /\ NTasks \in Nat /\ Task = 1 .. NTasks /\ next \in Nat
      /\ Started \subseteq Task /\ next \notin Started /\ next \in Task /\ Range(monitors) \subseteq Started
  BY <1>2, StartedIs
<1>4. idle \in Seq(Machine)
  BY DEF FleetInv, FleetTypes
<1>5. /\ Front(idle) \in Seq(Machine) /\ w \in Machine /\ w \in Range(idle) /\ Range(Front(idle)) \subseteq Range(idle)
      /\ IsInjective(idle) => IsInjective(Front(idle)) /\ w \notin Range(Front(idle))
  BY <1>2, <1>4, FrontLast
<1>6. /\ next' \in 1 .. NTasks + 1 /\ Started' = Started \cup {next}
      /\ monitors' \in Seq(Task) /\ IsInjective(monitors')
      /\ Range(monitors') = Range(monitors) \cup {next}
  BY <1>2, MonitorMore
<1>7. where' = [where EXCEPT ![next] = w] /\ where \in [Task -> Machine]
  BY DEF DispatchOne, StartJob, FleetInv, FleetTypes
<1> HIDE DEF w
<1>8. where'[next] = w /\ (\A t \in Task : t # next => where'[t] = where[t]) /\ where' \in [Task -> Machine]
  BY <1>3, <1>5, <1>7
<1>9. Machines'
  <2>1. ASSUME IsInjective(Workers)
        PROVE  /\ IsInjective(idle')
               /\ \A t, u \in Range(monitors') : t # u => where'[t] # where'[u]
               /\ \A t \in Range(monitors') : where'[t] \notin Range(idle')
    <3>1. /\ IsInjective(idle)
          /\ \A t, u \in Range(monitors) : t # u => where[t] # where[u]
          /\ \A t \in Range(monitors) : where[t] \notin Range(idle)
      BY <1>2, <2>1 DEF FleetInv, Machines
    <3>2. \A t \in Range(monitors) : where'[t] = where[t] /\ t # next
      BY <1>3, <1>8
    <3> QED
      BY <1>2, <1>5, <1>6, <1>8, <3>1, <3>2
  <2>2. mode' # "pipes"
    BY <1>1, <1>2
  <2> QED
    BY <1>1, <2>1, <2>2 DEF Machines
<1>10. CASE ~dryRun
  <2>1. alive' = alive \cup {next} /\ StartJob(next, w)
    BY <1>10 DEF DispatchOne, w
  <2>2. idle' \in Seq(Machine)
    BY <1>2, <1>5
  <2> QED
    BY <1>2, <1>5, <1>9, <1>10, <2>1, <2>2, StartJobStep
<1>11. CASE dryRun
  <2>1. UNCHANGED <<alive, job, unread, open, piped, drops, files>>
    BY <1>11 DEF DispatchOne
  <2>2. FleetTypes'
    <3>1. FleetTypes
      BY DEF FleetInv
    <3>2. alive' \subseteq Range(monitors') /\ Range(monitors') \subseteq Started'
      BY <1>3, <1>6, <2>1, <3>1 DEF FleetTypes
    <3>3. suite' \in Suites /\ outfiles' = Outfiles(suite') /\ idle' \in Seq(Machine)
      BY <1>1, <1>2, <1>5, <3>1 DEF FleetTypes
    <3> QED
      BY <1>1, <1>2, <1>6, <1>8, <2>1, <3>1, <3>2, <3>3 DEF FleetTypes
  <2>3. Pipes'
    <3>1. events = <<>>
      BY <1>2 DEF FleetInv, Pipes
    <3> QED
      BY <1>1, <1>2, <1>6, <2>1, <3>1 DEF FleetInv, Pipes
  <2>4. Watched'
    BY <1>1, <1>2, <1>6, <1>11, <2>1 DEF FleetInv, Watched
  <2>5. Results'
    <3>1. Results
      BY DEF FleetInv
    <3>2. \A t \in Task : job[t] = "none"
      BY <1>11 DEF FleetInv, Watched
    <3>3. pulled = {} /\ ~before
      BY <1>2, <3>1 DEF Results
    <3> QED
      BY <1>1, <1>2, <2>1, <3>1, <3>2, <3>3 DEF Results, Began
  <2> QED
    BY <1>9, <2>2, <2>3, <2>4, <2>5 DEF FleetInv
<1> QED
  BY <1>10, <1>11

----------------------------------------------------------------------------
(* poll_monitors *)

\* poll reports the pipes that have lines or were closed.
LEMMA PollStep == FleetInv /\ Poll => FleetInv'
<1> SUFFICES ASSUME FleetInv, Poll PROVE FleetInv'
  OBVIOUS
<1> DEFINE ready == Filter(monitors, {t \in alive : Ready(t)})
           Event == [task : Task, pollin : BOOLEAN, hup : BOOLEAN]
<1>1. /\ suite' = suite /\ mode' = mode /\ dryRun' = dryRun /\ regexes' = regexes /\ outfiles' = outfiles /\ before' = before
      /\ NTasks' = NTasks /\ Task' = Task /\ Workers' = Workers
  BY ConfigFixed DEF Poll
<1>2. /\ phase = "loop" /\ phase' = "events"
      /\ UNCHANGED <<config, idle, next, monitors, alive, logged, ended, logfiles, remote, pulled>>
      /\ events' = [i \in DOMAIN ready |->
                       [task |-> ready[i], pollin |-> unread[ready[i]] > 0, hup |-> ready[i] \notin open]]
  BY DEF Poll
<1>3. monitors \in Seq(Task)
  BY DEF FleetInv, FleetTypes
<1>4. ready \in Seq(Task) /\ Range(ready) \subseteq Range(monitors)
  BY <1>3, FilterIs
<1>5. NTasks \in Nat /\ Task = 1 .. NTasks /\ Started \subseteq Task /\ Range(monitors) \subseteq Started
  BY StartedIs
<1> HIDE DEF ready
<1>6. DOMAIN ready = 1 .. Len(ready) /\ Len(ready) \in Nat /\ \A i \in DOMAIN ready : ready[i] \in Task /\ ready[i] \in Started
  BY <1>4, <1>5, SMTT(30) DEF Range
<1>7. \A i \in DOMAIN ready : [task |-> ready[i], pollin |-> unread[ready[i]] > 0, hup |-> ready[i] \notin open] \in Event
  BY <1>6
<1>8. events' \in Seq(Event)
  BY <1>2, <1>6, <1>7
<1>9. \A n \in DOMAIN events' : /\ n \in DOMAIN ready /\ events'[n].task = ready[n]
                                /\ events'[n].pollin = (unread[ready[n]] > 0) /\ events'[n].hup = (ready[n] \notin open)
  BY <1>2
<1> USE DEF remote
<1>10. Started' = Started
  BY <1>2 DEF Started
<1>11. FleetTypes'
  BY <1>1, <1>2, <1>8, <1>10 DEF FleetInv, FleetTypes
<1>12. Pipes'
  <2>1. unread \in [Task -> 0 .. MaxLines] /\ MaxLines \in Nat
    BY FleetConstants DEF FleetInv, Pipes
  <2>2. ASSUME NEW n \in DOMAIN events', events'[n].hup
        PROVE  /\ events'[n].task \notin open' /\ events'[n].task \in Started'
               /\ ~events'[n].pollin => unread'[events'[n].task] = 0
    <3>1. n \in DOMAIN ready /\ ready[n] \in Task /\ ready[n] \in Started /\ events'[n].task = ready[n]
      BY <1>6, <1>9
    <3>2. unread[ready[n]] \in Nat
      BY <2>1, <3>1
    <3>3. ready[n] \notin open
      BY <1>9, <2>2
    <3>5. events'[n].pollin = (unread[ready[n]] > 0)
      BY <1>9, <2>2
    <3>4. ~events'[n].pollin => unread[ready[n]] = 0
      <4> SUFFICES ASSUME unread[ready[n]] # 0 PROVE events'[n].pollin
        OBVIOUS
      <4>1. (unread[ready[n]] > 0) = TRUE
        BY <3>2
      <4>2. events'[n].pollin = TRUE
        BY ONLY <3>5, <4>1
      <4> QED
        BY ONLY <4>2
    <3> QED
      BY <1>2, <1>10, <3>1, <3>3, <3>4
  <2> QED
    BY <1>1, <1>2, <1>10, <2>2 DEF FleetInv, Pipes
<1>13. Watched'
  BY <1>1, <1>2, <1>10 DEF FleetInv, Watched
<1>14. Machines'
  BY <1>1, <1>2, <1>10 DEF FleetInv, Machines
<1>15. Results'
  BY <1>1, <1>2 DEF FleetInv, Results, OldResultsKept
<1> QED
  BY <1>11, <1>12, <1>13, <1>14, <1>15 DEF FleetInv

\* Handling one event: reading what is there, or logging the end.
LEMMA HandleEventStep == FleetInv /\ HandleEvent => FleetInv'
<1> SUFFICES ASSUME FleetInv, HandleEvent PROVE FleetInv'
  OBVIOUS
<1> DEFINE e == Head(events)
           t == e.task
           Event == [task : Task, pollin : BOOLEAN, hup : BOOLEAN]
<1>1. /\ suite' = suite /\ mode' = mode /\ dryRun' = dryRun /\ regexes' = regexes /\ outfiles' = outfiles /\ before' = before
      /\ NTasks' = NTasks /\ Task' = Task /\ Workers' = Workers
  BY ConfigFixed DEF HandleEvent
<1>2. /\ phase = "events" /\ events # <<>> /\ events' = Tail(events)
      /\ UNCHANGED <<config, phase, idle, next, monitors, logfiles, job, where, open, piped, drops, files, pulled>>
  BY DEF HandleEvent
<1>3. /\ NTasks \in Nat /\ Task = 1 .. NTasks /\ Started \subseteq Task /\ Started' = Started
  BY <1>2, StartedIs DEF Started
<1>4. events \in Seq(Event)
  BY DEF FleetInv, FleetTypes
<1>5. /\ e = events[1] /\ 1 \in DOMAIN events /\ events' \in Seq(Event)
      /\ \A n \in DOMAIN events' : n + 1 \in DOMAIN events /\ events'[n] = events[n + 1]
  <2> HIDE DEF Event
  <2> QED
    BY <1>2, <1>4
<1>6. t \in Task
  BY <1>5, EventsAre
<1>7. /\ e.pollin => /\ logged' = [logged EXCEPT ![t] = @ + unread[t]] /\ unread' = [unread EXCEPT ![t] = 0]
                     /\ UNCHANGED <<alive, ended>>
      /\ ~e.pollin => /\ ended' = IF e.hup THEN ended \cup {t} ELSE ended
                      /\ alive' = IF e.hup THEN alive \ {t} ELSE alive
                      /\ UNCHANGED <<logged, unread>>
  BY DEF HandleEvent, Reads, LinesRead
<1>8. e.hup => /\ t \notin open /\ t \in Started
               /\ ~e.pollin => unread[t] = 0
  BY <1>5 DEF FleetInv, Pipes
<1> HIDE DEF e, t
<1>9. /\ logged \in [Task -> Nat] /\ unread \in [Task -> 0 .. MaxLines] /\ piped \in [Task -> 0 .. MaxLines] /\ MaxLines \in Nat
      /\ \A u \in Task : logged[u] + unread[u] = piped[u]
  BY FleetConstants DEF FleetInv, Pipes
<1>10. /\ logged' \in [Task -> Nat] /\ unread' \in [Task -> 0 .. MaxLines]
       /\ \A u \in Task : logged'[u] + unread'[u] = piped[u]
       /\ \A u \in Task : unread[u] = 0 => unread'[u] = 0
  <2>1. CASE e.pollin
    <3>1. logged[t] \in Nat /\ unread[t] \in Nat /\ logged[t] + unread[t] \in Nat /\ piped[t] \in Nat /\ 0 \in 0 .. MaxLines
      BY <1>6, <1>9
    <3>2. /\ logged' \in [Task -> Nat] /\ unread' \in [Task -> 0 .. MaxLines]
          /\ logged'[t] = logged[t] + unread[t] /\ unread'[t] = 0
          /\ \A u \in Task : u # t => logged'[u] = logged[u] /\ unread'[u] = unread[u]
      BY <1>6, <1>7, <1>9, <2>1, <3>1
    <3> QED
      BY <1>6, <1>9, <3>1, <3>2
  <2>2. CASE ~e.pollin
    BY <1>7, <1>9, <2>2
  <2> QED
    BY <2>1, <2>2
<1>11. ended' = ended \cup (IF ~e.pollin /\ e.hup THEN {t} ELSE {}) /\ alive' = alive \ (IF ~e.pollin /\ e.hup THEN {t} ELSE {})
  BY <1>7
<1>12. FleetTypes'
  <2>1. alive' \subseteq Range(monitors')
    BY <1>2, <1>11 DEF FleetInv, FleetTypes
  <2> QED
    BY <1>1, <1>2, <1>3, <1>5, <2>1 DEF FleetInv, FleetTypes
<1>13. Pipes'
  <2>1. Pipes
    BY DEF FleetInv
  <2>2. ended' \subseteq Started
    BY <1>8, <1>11, <2>1 DEF Pipes
  <2>3. \A u \in ended' : u \notin open /\ unread'[u] = 0
    BY <1>3, <1>8, <1>10, <1>11, <2>1, <2>2 DEF Pipes
  <2>4. ASSUME NEW n \in DOMAIN events', events'[n].hup
        PROVE  /\ events'[n].task \notin open /\ events'[n].task \in Started
               /\ ~events'[n].pollin => unread'[events'[n].task] = 0
    <3>1. n + 1 \in DOMAIN events /\ events'[n] = events[n + 1]
      BY <1>5
    <3>2. /\ events[n + 1].task \notin open /\ events[n + 1].task \in Started
          /\ ~events[n + 1].pollin => unread[events[n + 1].task] = 0
      BY <2>1, <2>4, <3>1 DEF Pipes
    <3> QED
      BY <1>3, <1>10, <3>1, <3>2
  <2> QED
    BY <1>1, <1>2, <1>3, <1>10, <2>1, <2>2, <2>3, <2>4 DEF Pipes
<1>14. Watched'
  <2>1. Watched
    BY DEF FleetInv
  <2>2. Started = alive \cup ended => Started = alive' \cup ended'
    BY <1>8, <1>11
  <2> QED
    BY <1>1, <1>2, <1>3, <2>1, <2>2 DEF Watched
<1>15. Machines'
  BY <1>1, <1>2, <1>3 DEF FleetInv, Machines
<1>16. Results'
  BY <1>1, <1>2 DEF FleetInv, Results, OldResultsKept
<1> QED
  BY <1>12, <1>13, <1>14, <1>15, <1>16 DEF FleetInv

\* The monitors that did not survive give their workers back.
LEMMA ReapStep ==
    ASSUME FleetInv, phase \in {"loop", "events"}, events = <<>>, Reap,
           UNCHANGED <<config, next, alive, events, logged, ended, logfiles, remote, pulled>>
    PROVE  FleetInv'
<1> DEFINE dead == Filter(monitors, Task \ alive)
           back == WorkersOf(dead)
<1>1. /\ suite' = suite /\ mode' = mode /\ dryRun' = dryRun /\ regexes' = regexes /\ outfiles' = outfiles /\ before' = before
      /\ NTasks' = NTasks /\ Task' = Task /\ Workers' = Workers
  BY ConfigFixed
<1>2. /\ idle' = (IF mode = "sequenced" THEN Reverse(back) \o idle ELSE idle)
      /\ monitors' = Filter(monitors, alive)
      /\ phase' = IF mode = "sequenced" THEN "assign" ELSE "loop"
  BY DEF Reap
<1>3. /\ monitors \in Seq(Task) /\ IsInjective(monitors) /\ alive \subseteq Range(monitors)
      /\ idle \in Seq(Machine) /\ where \in [Task -> Machine]
  BY DEF FleetInv, FleetTypes
<1>4. dead \in Seq(Task) /\ Range(dead) = Range(monitors) \cap (Task \ alive) /\ IsInjective(dead)
  BY <1>3, FilterIs
<1>5. monitors' \in Seq(Task) /\ Range(monitors') = Range(monitors) \cap alive /\ IsInjective(monitors')
  BY <1>2, <1>3, FilterIs
<1>6. /\ NTasks \in Nat /\ Task = 1 .. NTasks /\ Started \subseteq Task /\ Range(monitors) \subseteq Started /\ Started' = Started
  BY StartedIs DEF Started
<1>7. /\ back \in Seq(Machine) /\ DOMAIN back = DOMAIN dead
      /\ \A i \in DOMAIN dead : back[i] = where[dead[i]] /\ dead[i] \in Range(monitors) /\ dead[i] \in Task /\ dead[i] \notin alive
  <2> HIDE DEF dead
  <2>1. DOMAIN dead = 1 .. Len(dead) /\ Len(dead) \in Nat
    BY <1>4
  <2>2. \A i \in DOMAIN dead : dead[i] \in Range(dead)
    BY DEF Range
  <2>3. \A i \in DOMAIN dead : dead[i] \in Range(monitors) /\ dead[i] \in Task /\ dead[i] \notin alive
    BY <1>4, <2>2
  <2>4. \A i \in DOMAIN dead : where[dead[i]] \in Machine
    BY <1>3, <2>3
  <2> QED
    BY <2>1, <2>3, <2>4 DEF WorkersOf
<1> HIDE DEF back, dead
<1>8. /\ Reverse(back) \o idle \in Seq(Machine) /\ Range(Reverse(back) \o idle) = Range(back) \cup Range(idle)
      /\ IsInjective(back) /\ IsInjective(idle) /\ Range(back) \cap Range(idle) = {} => IsInjective(Reverse(back) \o idle)
  BY <1>3, <1>7, ReverseAhead
<1> USE DEF remote
<1>9. FleetTypes'
  <2>1. idle' \in Seq(Machine)
    BY <1>2, <1>3, <1>8
  <2>2. alive' \subseteq Range(monitors') /\ Range(monitors') \subseteq Started'
    BY <1>3, <1>5, <1>6
  <2>3. phase' \in {"assign", "loop"}
    BY <1>2
  <2> QED
    BY <1>1, <1>5, <1>6, <2>1, <2>2, <2>3 DEF FleetInv, FleetTypes
<1>10. Pipes'
  BY <1>1, <1>6 DEF FleetInv, Pipes
<1>11. Watched'
  BY <1>1, <1>2, <1>6 DEF FleetInv, Watched
<1>12. Machines'
  <2>1. ASSUME mode = "sequenced", IsInjective(Workers)
        PROVE  /\ IsInjective(idle')
               /\ \A t, u \in Range(monitors') : t # u => where[t] # where[u]
               /\ \A t \in Range(monitors') : where[t] \notin Range(idle')
    <3>1. /\ IsInjective(idle)
          /\ \A t, u \in Range(monitors) : t # u => where[t] # where[u]
          /\ \A t \in Range(monitors) : where[t] \notin Range(idle)
      BY <2>1 DEF FleetInv, Machines
    <3>2. IsInjective(back)
      BY <1>4, <1>7, <3>1 DEF IsInjective
    <3>3. \A x \in Range(back) : \E i \in DOMAIN dead : x = where[dead[i]]
      BY <1>7 DEF Range
    <3>4. Range(back) \cap Range(idle) = {}
      BY <1>7, <3>1, <3>3
    <3>5. \A t \in Range(monitors') : where[t] \notin Range(back)
      BY <1>5, <1>7, <3>1, <3>3
    <3> QED
      BY <1>2, <1>5, <1>8, <2>1, <3>1, <3>2, <3>4, <3>5
  <2>2. mode = "pipes" => phase' # "assign"
    BY <1>2
  <2>3. where' = where
    OBVIOUS
  <2> QED
    BY <1>1, <1>6, <2>1, <2>2, <2>3 DEF FleetInv, Machines
<1>13. Results'
  <2>1. phase' \in {"assign", "loop"}
    BY <1>2
  <2>2. ~before /\ pulled = {}
    BY DEF FleetInv, Results
  <2> QED
    BY <1>1, <2>1, <2>2 DEF FleetInv, Results
<1> QED
  BY <1>9, <1>10, <1>11, <1>12, <1>13 DEF FleetInv

\* The end of a round, and the end of a dry run.
LEMMA FinishPollStep == FleetInv /\ (FinishPoll \/ ReapDryRun) => FleetInv'
<1> SUFFICES ASSUME FleetInv, FinishPoll \/ ReapDryRun PROVE FleetInv'
  OBVIOUS
<1>1. phase \in {"loop", "events"} /\ Reap /\ UNCHANGED <<config, next, alive, events, logged, ended, logfiles, remote, pulled>>
  BY DEF FinishPoll, ReapDryRun
<1>2. events = <<>>
  BY DEF FinishPoll, ReapDryRun, FleetInv, Pipes
<1> QED
  BY <1>1, <1>2, ReapStep

\* Pulling the results from every worker.
LEMMA PullResultsStep == FleetInv /\ PullResults => FleetInv'
<1> SUFFICES ASSUME FleetInv, PullResults PROVE FleetInv'
  OBVIOUS
<1> DEFINE there == UNION {files[m] : m \in Machine}
<1>1. /\ suite' = suite /\ mode' = mode /\ dryRun' = dryRun /\ regexes' = regexes /\ outfiles' = outfiles /\ before' = before
      /\ NTasks' = NTasks /\ Task' = Task /\ Workers' = Workers
  BY ConfigFixed DEF PullResults
<1>2. phase = "done" /\ UNCHANGED <<config, launcher, remote>>
  BY DEF PullResults
<1>3. /\ pulled' \subseteq there
      /\ {f.out : f \in pulled'} = {f.out : f \in there}
  BY DEF PullResults
<1>4. Started' = Started /\ DOMAIN outfiles = Task
  BY <1>2, StartedIs DEF launcher, Started
<1> USE DEF launcher, remote
<1>5. FleetTypes'
  BY <1>1, <1>2, <1>4 DEF FleetInv, FleetTypes
<1>6. Pipes'
  BY <1>1, <1>2, <1>4 DEF FleetInv, Pipes
<1>7. Watched'
  BY <1>1, <1>2, <1>4 DEF FleetInv, Watched
<1>8. Machines'
  BY <1>1, <1>2, <1>4 DEF FleetInv, Machines
<1>9. Results'
  <2>1. Results /\ where \in [Task -> Machine]
    BY DEF FleetInv, FleetTypes
  <2>2. ~before
    BY <1>2, <2>1 DEF Results
  <2>3. ASSUME IsInjective(outfiles), NEW t \in Task, job[t] \in Began
        PROVE  [out |-> outfiles[t], by |-> t] \in pulled'
    <3> DEFINE mine == [out |-> outfiles[t], by |-> t]
    <3>1. mine \in files[where[t]] /\ where[t] \in Machine
      BY <2>1, <2>3 DEF Results
    <3>2. mine \in there /\ mine.out = outfiles[t]
      BY <3>1
    <3>3. PICK g \in pulled' : g.out = outfiles[t]
      BY <1>3, <3>2
    <3>4. PICK m \in Machine : g \in files[m]
      BY <1>3, <3>3
    <3>5. g.by \in Task /\ g = [out |-> outfiles[g.by], by |-> g.by]
      BY <2>1, <2>2, <3>4 DEF Results
    <3>6. outfiles[g.by] = outfiles[t]
      BY <3>3, <3>5
    <3>7. g.by = t
      BY <1>4, <2>3, <3>5, <3>6 DEF IsInjective
    <3> QED
      BY <3>3, <3>5, <3>7
  <2> QED
    BY <1>1, <1>2, <2>1, <2>2, <2>3 DEF Results
<1> QED
  BY <1>5, <1>6, <1>7, <1>8, <1>9 DEF FleetInv

\* A stuttering step changes nothing.
LEMMA FleetStutter == FleetInv /\ UNCHANGED fleetVars => FleetInv'
<1> SUFFICES ASSUME FleetInv, UNCHANGED fleetVars PROVE FleetInv'
  OBVIOUS
<1>1. /\ suite' = suite /\ mode' = mode /\ dryRun' = dryRun /\ regexes' = regexes /\ outfiles' = outfiles /\ before' = before
      /\ NTasks' = NTasks /\ Task' = Task /\ Workers' = Workers
  BY ConfigFixed DEF fleetVars
<1>2. UNCHANGED <<launcher, remote, pulled>> /\ Started' = Started
  BY DEF fleetVars, launcher, Started
<1> USE DEF launcher, remote
<1>3. FleetTypes'
  BY <1>1, <1>2 DEF FleetInv, FleetTypes
<1>4. Pipes'
  BY <1>1, <1>2 DEF FleetInv, Pipes
<1>5. Watched'
  BY <1>1, <1>2 DEF FleetInv, Watched
<1>6. Machines'
  BY <1>1, <1>2 DEF FleetInv, Machines
<1>7. Results'
  BY <1>1, <1>2 DEF FleetInv, Results, OldResultsKept
<1> QED
  BY <1>3, <1>4, <1>5, <1>6, <1>7 DEF FleetInv

\* Every step preserves the invariant.
LEMMA FleetNextInv == FleetInv /\ [FleetNext]_fleetVars => FleetInv'
<1> SUFFICES ASSUME FleetInv, [FleetNext]_fleetVars PROVE FleetInv'
  OBVIOUS
<1>1. CASE LauncherStep
  BY <1>1, SetLogfileStep, RetrieveStep, LaunchWorkerPipeStep, DispatchOneStep, FinishAssignStep,
     PollStep, HandleEventStep, FinishPollStep, AllJobsCompleteStep DEF LauncherStep
<1>2. CASE PullResults
  BY <1>2, PullResultsStep
<1>3. CASE \E t \in Task : PrintLine(t) \/ FinishJob(t) \/ DropConnection(t)
  BY <1>3, PrintLineStep, FinishJobStep, DropConnectionStep
<1>4. CASE \E m \in Machine : KillJobs(m)
  BY <1>4, KillJobsStep
<1>5. CASE UNCHANGED fleetVars
  BY <1>5, FleetStutter
<1> QED
  BY <1>1, <1>2, <1>3, <1>4, <1>5 DEF FleetNext

\* The inductive invariant of launch_worker_pipes, sequenced_launcher and the jobs they start
\* (automation.py, suite.py), for all suites, workers, failures and interleavings.
THEOREM FleetInvariant == FleetSpec => []FleetInv
  BY FleetInitInv, FleetNextInv, PTL DEF FleetSpec

\* The invariant keeps the logs complete.
LEMMA LogCompleteNow == FleetInv => LogComplete
<1> SUFFICES ASSUME FleetInv PROVE LogComplete
  OBVIOUS
<1>1. Started \subseteq Task
  BY StartedIs
<1>2. FleetTypeOK
  BY DEF FleetInv, FleetTypes, Pipes, FleetTypeOK
<1>3. NothingLost
  <2> SUFFICES ASSUME NEW t \in ended PROVE logged[t] = piped[t]
    BY DEF NothingLost
  <2>1. t \in Task /\ unread[t] = 0 /\ logged[t] \in Nat /\ logged[t] + unread[t] = piped[t]
    BY <1>1 DEF FleetInv, Pipes
  <2> QED
    BY <2>1
<1> QED
  BY <1>2, <1>3 DEF LogComplete

\* The invariant keeps the tasks on workers of their own.
LEMMA OneJobNow == FleetInv => OneJobPerMachine
<1> SUFFICES ASSUME FleetInv, drops = 0, IsInjective(Workers),
                    NEW t \in Task, NEW u \in Task, t # u, job[t] = "running", job[u] = "running"
             PROVE  where[t] # where[u]
  BY DEF OneJobPerMachine, FleetInv, FleetTypes
<1>1. t \in Started /\ u \in Started /\ ~dryRun
  BY DEF FleetInv, Watched
<1>2. CASE mode = "pipes"
  <2>1. t <= Len(Workers) /\ u <= Len(Workers) /\ where[t] = Workers[t] /\ where[u] = Workers[u]
    BY <1>1, <1>2 DEF FleetInv, Machines
  <2>2. Workers \in Seq(Machine)
    BY WorkersAre DEF FleetInv, FleetTypes
  <2>3. t \in Nat /\ t >= 1 /\ u \in Nat /\ u >= 1
    BY StartedIs
  <2>4. t \in DOMAIN Workers /\ u \in DOMAIN Workers
    <3> DEFINE W == Workers
    <3>1. W \in Seq(Machine) /\ t <= Len(W) /\ u <= Len(W)
      BY <2>1, <2>2
    <3> HIDE DEF W
    <3>2. t \in DOMAIN W /\ u \in DOMAIN W
      BY <2>3, <3>1
    <3> QED
      BY <3>2 DEF W
  <2> QED
    BY <2>1, <2>4 DEF IsInjective
<1>3. CASE mode # "pipes"
  <2> DEFINE A == {x \in Task : job[x] = "running" /\ x \notin open}
  <2>1. Cardinality(A) <= 0 /\ A \in SUBSET Task
    BY DEF FleetInv, Watched
  <2> HIDE DEF A
  <2>2. Cardinality(A) = 0 /\ IsFiniteSet(A)
    BY <2>1, RunningFinite
  <2>3. A = {}
    BY <2>2, FS_EmptySet
  <2>4. t \in open /\ u \in open
    BY <2>3 DEF A
  <2>5. t \in alive /\ u \in alive
    BY <1>1, <2>4 DEF FleetInv, Watched, Pipes
  <2>6. t \in Range(monitors) /\ u \in Range(monitors) /\ mode = "sequenced"
    BY <1>3, <2>5 DEF FleetInv, FleetTypes
  <2> QED
    BY <2>6 DEF FleetInv, Machines
<1> QED
  BY <1>2, <1>3

\* The invariant makes the last message true.
LEMMA CompleteNow == FleetInv => CompleteMeansOver
<1> SUFFICES ASSUME FleetInv, phase = "done", ~dryRun
             PROVE  ended = Task /\ Cardinality({t \in Task : job[t] \in {"none", "running"}}) <= drops
  BY DEF CompleteMeansOver
<1>1. NTasks \in Nat /\ Task = 1 .. NTasks
  BY StartedIs
<1>2. alive = {} /\ next = NTasks + 1 /\ Started = alive \cup ended /\ \A t \in Started : job[t] # "none"
  BY DEF FleetInv, Watched
<1>3. Started = Task
  BY <1>1, <1>2 DEF Started
<1>4. ended = Task
  BY <1>2, <1>3
<1>5. {t \in Task : job[t] \in {"none", "running"}} = {t \in Task : job[t] = "running" /\ t \notin open}
  BY <1>2, <1>3, <1>4 DEF FleetInv, Pipes
<1> QED
  BY <1>4, <1>5 DEF FleetInv, Watched

\* The invariant keeps the results apart.
LEMMA ResultsNow == FleetInv => ResultsKept
<1> SUFFICES ASSUME FleetInv PROVE ResultsKept
  OBVIOUS
<1>1. OldResultsKept
  BY DEF FleetInv, Results, OldResultsKept
<1>2. WellLabelled(suite) => IsInjective(outfiles)
  BY OutfilesDistinct DEF FleetInv, FleetTypes
<1>3. ResultsArrive
  BY <1>2 DEF ResultsArrive, FleetInv, Results, Began
<1> QED
  BY <1>1, <1>3 DEF ResultsKept

\* A launcher's log holds every line a job printed before the job's end is logged, however
\* printing, hang-ups, poll and the handling of events interleave.
THEOREM LogsAlwaysComplete == FleetSpec => []LogComplete
  BY FleetInvariant, LogCompleteNow, PTL

\* Two jobs run on one machine only after a broken connection or when .awsworkers names the
\* machine twice, with either launcher, however the workers free up.
THEOREM MachinesNeverShared == FleetSpec => []OneJobPerMachine
  BY FleetInvariant, OneJobNow, PTL

\* "All jobs complete." is printed only when every task was started and its end was logged,
\* and only jobs whose connection broke can still run.
THEOREM CompleteIsSaidInTruth == FleetSpec => []CompleteMeansOver
  BY FleetInvariant, CompleteNow, PTL

\* An earlier run's results are never overwritten, and a suite whose labels tell its variants
\* apart gets the results of every finished task back, because make_label then gives each variant
\* a name of its own.
THEOREM ResultsAlwaysKept == FleetSpec => []ResultsKept
  BY FleetInvariant, ResultsNow, PTL

----------------------------------------------------------------------------
(* Traces and plots *)

\* keys lists the integers of S in ascending order.
Ascending(keys, S) ==
    /\ keys \in Seq(S)
    /\ \A i, j \in 1 .. Len(keys) : i < j => keys[i] < keys[j]
    /\ \A k \in S : \E i \in 1 .. Len(keys) : keys[i] = k

\* A nonempty set of natural numbers has a smallest element.
LEMMA SmallestNat ==
    ASSUME NEW S \in SUBSET Nat, S # {}
    PROVE  \E x \in S : \A y \in S : x <= y
<1>1. PICK x \in S : \A y \in S : ~ (<<y, x>> \in OpToRel(<, Nat))
  BY NatLessThanWellFounded, WFMin
<1>2. ASSUME NEW y \in S PROVE x <= y
  <2>1. ~ (y < x)
    BY <1>1, <1>2 DEF OpToRel
  <2> QED
    BY <2>1
<1> QED
  BY <1>2

\* How many elements of a finite set are smaller than one of them.
LEMMA RanksDiffer ==
    ASSUME NEW S \in SUBSET Int, IsFiniteSet(S), NEW a \in S, NEW b \in S, a < b
    PROVE  Cardinality({j \in S : j < a}) < Cardinality({j \in S : j < b})
<1> DEFINE A == {j \in S : j < a}
           B == {j \in S : j < b}
<1>1. IsFiniteSet(A) /\ IsFiniteSet(B)
  BY FS_Subset
<1>2. A \in SUBSET B /\ a \in B /\ a \notin A
  <2>1. ASSUME NEW j \in S, j < a PROVE j < b
    BY <2>1
  <2>2. a \in Int /\ ~ (a < a)
    OBVIOUS
  <2> QED
    BY <2>1, <2>2
<1>3. Cardinality(A) <= Cardinality(B) /\ Cardinality(A) # Cardinality(B)
  BY <1>1, <1>2, FS_Subset
<1>4. Cardinality(A) \in Nat /\ Cardinality(B) \in Nat
  BY <1>1, FS_CardinalityType
<1> QED
  BY <1>3, <1>4

\* sortedKeys lists the keys in ascending order.
LEMMA SortedIs ==
    ASSUME NEW S \in SUBSET Int, IsFiniteSet(S)
    PROVE  Ascending(Sorted(S), S)
<1> DEFINE n == Cardinality(S)
           Rank(k) == Cardinality({j \in S : j < k})
           r == [k \in S |-> Rank(k) + 1]
<1>1. n \in Nat
  BY FS_CardinalityType
<1>2. ASSUME NEW k \in S PROVE Rank(k) \in 0 .. n - 1
  <2>1. {j \in S : j < k} \in SUBSET (S \ {k})
    OBVIOUS
  <2>2. IsFiniteSet(S \ {k}) /\ Cardinality(S \ {k}) = n - 1
    BY FS_RemoveElement
  <2>3. IsFiniteSet({j \in S : j < k}) /\ Rank(k) <= n - 1
    BY <2>1, <2>2, FS_Subset
  <2>4. Rank(k) \in Nat
    BY <2>3, FS_CardinalityType
  <2> QED
    BY <1>1, <2>3, <2>4
<1>3. ASSUME NEW a \in S, NEW b \in S, a < b PROVE Rank(a) < Rank(b)
  BY <1>3, RanksDiffer
<1> HIDE DEF Rank
<1>4. r \in [S -> 1 .. n]
  BY <1>1, <1>2
<1>5. \A a, b \in S : r[a] = r[b] => a = b
  BY <1>2, <1>3
<1>6. r \in Injection(S, 1 .. n)
  BY <1>4, <1>5 DEF Injection, IsInjective
<1>7. IsFiniteSet(1 .. n) /\ Cardinality(1 .. n) = n
  BY <1>1, FS_Interval
<1>8. r \in Surjection(S, 1 .. n)
  BY <1>6, <1>7, FS_Injection
<1>9. \A i \in 1 .. n : \E k \in S : Rank(k) = i - 1
  <2>1. \A i \in 1 .. n : \E k \in S : r[k] = i
    BY <1>8 DEF Surjection
  <2> QED
    BY <2>1, <1>1, <1>2
<1>10. Sorted(S) = [i \in 1 .. n |-> CHOOSE k \in S : Rank(k) = i - 1]
  BY DEF Sorted, Rank
<1>11. \A i \in 1 .. n : Sorted(S)[i] \in S /\ Rank(Sorted(S)[i]) = i - 1
  BY <1>9, <1>10
<1>12. Sorted(S) \in Seq(S) /\ Len(Sorted(S)) = n
  <2>1. Sorted(S) \in [1 .. n -> S]
    BY <1>10, <1>11
  <2> QED
    BY <2>1, <1>1
<1>13. ASSUME NEW i \in 1 .. n, NEW j \in 1 .. n, i < j PROVE Sorted(S)[i] < Sorted(S)[j]
  <2>1. Sorted(S)[i] \in S /\ Sorted(S)[j] \in S
    BY <1>11
  <2>2. Rank(Sorted(S)[i]) < Rank(Sorted(S)[j])
    BY <1>11, <1>13, <1>1
  <2>3. ASSUME NEW x \in S, NEW y \in S, Rank(x) < Rank(y) PROVE x < y
    <3>1. ~ (y < x)
      BY <2>3, <1>2, <1>3
    <3>2. x # y
      BY <2>3, <1>2
    <3> QED
      BY <3>1, <3>2
  <2> QED
    BY <2>1, <2>2, <2>3
<1>14. ASSUME NEW k \in S PROVE \E i \in 1 .. n : Sorted(S)[i] = k
  <2>1. Rank(k) + 1 \in 1 .. n
    BY <1>1, <1>2
  <2>2. Sorted(S)[Rank(k) + 1] \in S /\ Rank(Sorted(S)[Rank(k) + 1]) = Rank(k)
    BY <2>1, <1>11, <1>2
  <2>3. Sorted(S)[Rank(k) + 1] = k
    BY <2>2, <1>5, <1>2
  <2> QED
    BY <2>1, <2>3
<1> QED
  BY <1>12, <1>13, <1>14 DEF Ascending

\* bisect finds the keys on both sides of an operation count.
LEMMA BisectIs ==
    ASSUME NEW S \in SUBSET Int, NEW keys, Ascending(keys, S),
           NEW op \in Int, op \notin S, NEW a \in S, a < op, NEW b \in S, b > op
    PROVE  /\ Bisect(keys, op) \in 1 .. Len(keys) - 1
           /\ keys[Bisect(keys, op)] < op /\ keys[Bisect(keys, op) + 1] > op
<1> DEFINE n == Len(keys)
           After == {i \in 1 .. n : keys[i] > op}
<1>1. n \in Nat /\ DOMAIN keys = 1 .. n /\ \A i \in 1 .. n : keys[i] \in Int /\ keys[i] # op
  <2>1. keys \in Seq(S)
    BY DEF Ascending
  <2>2. n \in Nat /\ DOMAIN keys = 1 .. n /\ \A i \in 1 .. n : keys[i] \in S
    BY <2>1
  <2> QED
    BY <2>2
<1>2. PICK ia \in 1 .. n : keys[ia] < op
  BY DEF Ascending
<1>3. After # {}
  BY DEF Ascending
<1>4. After \in SUBSET Nat
  BY <1>1
<1>5. PICK l \in After : \A y \in After : l <= y
  BY <1>3, <1>4, SmallestNat
<1>6. l \in 1 .. n /\ keys[l] > op
  OBVIOUS
<1> HIDE DEF After
<1>7. ia < l
  <2>1. ia # l
    BY <1>2, <1>6, <1>1
  <2>2. ~ (l < ia)
    BY <1>2, <1>6, <1>1 DEF Ascending
  <2> QED
    BY <1>1, <1>6, <2>1, <2>2
<1>8. ASSUME NEW i \in 1 .. n PROVE keys[i] <= op <=> i \in 1 .. l - 1
  <2>1. CASE i < l
    <3>1. i \notin After
      BY <1>4, <1>5, <2>1
    <3> QED
      BY <3>1, <2>1, <1>1, <1>6 DEF After
  <2>2. CASE i = l
    BY <2>2, <1>6, <1>1
  <2>3. CASE i > l
    <3>1. keys[l] < keys[i]
      BY <2>3, <1>6 DEF Ascending
    <3> QED
      BY <3>1, <2>3, <1>6, <1>1
  <2> QED
    BY <2>1, <2>2, <2>3, <1>1, <1>6
<1>9. {i \in DOMAIN keys : keys[i] <= op} = 1 .. l - 1
  <2>1. 1 .. l - 1 \subseteq 1 .. n
    BY <1>1, <1>6
  <2> QED
    BY <1>1, <1>8, <2>1
<1>10. Bisect(keys, op) = l - 1
  <2>1. Cardinality(1 .. l - 1) = l - 1
    BY <1>6, <1>7, <1>1, FS_Interval
  <2> QED
    BY <2>1, <1>9 DEF Bisect
<1>11. l - 1 \in 1 .. n - 1 /\ l - 1 + 1 = l
  BY <1>1, <1>6, <1>7
<1>12. keys[l - 1] < op
  BY <1>1, <1>8, <1>11
<1> QED
  BY <1>6, <1>10, <1>11, <1>12

\* A trace of integers whose cached keys, if there are any, are the present ones.
GoodTrace(trace) ==
    /\ trace = [data |-> trace.data, keys |-> trace.keys]
    /\ DOMAIN trace.data \subseteq Nat /\ IsFiniteSet(DOMAIN trace.data)
    /\ trace.data \in [DOMAIN trace.data -> Int]
    /\ trace.keys \in {<<>>, Sorted(DOMAIN trace.data)}

\* The keys in which a lookup searches are all keys, in ascending order.
LEMMA SortedKeysAre ==
    ASSUME NEW trace, GoodTrace(trace)
    PROVE  Ascending(SortedKeys(trace), DOMAIN trace.data)
<1>1. DOMAIN trace.data \in SUBSET Int /\ IsFiniteSet(DOMAIN trace.data)
  BY DEF GoodTrace
<1>2. SortedKeys(trace) = Sorted(DOMAIN trace.data)
  BY DEF GoodTrace, SortedKeys
<1> QED
  BY <1>1, <1>2, SortedIs

\* A lookup between two keys takes the nearest ones.
LEMMA LookupBetween ==
    ASSUME NEW trace, GoodTrace(trace), NEW op \in Int, op \notin DOMAIN trace.data,
           Below(trace, op) # {}, Above(trace, op) # {}
    PROVE  LET l == Max(Below(trace, op))
               r == Min(Above(trace, op))
           IN /\ l \in DOMAIN trace.data /\ r \in DOMAIN trace.data
              /\ l < op /\ op < r
              /\ \A k \in DOMAIN trace.data : k <= l \/ k >= r
              /\ Lookup(trace, op) = Between(l, r, trace.data[l], trace.data[r], op)
<1> DEFINE S == DOMAIN trace.data
           keys == SortedKeys(trace)
           n == Len(keys)
           i == Bisect(keys, op)
<1>1. S \in SUBSET Int /\ Ascending(keys, S)
  BY SortedKeysAre DEF GoodTrace
<1>2. PICK a \in S, b \in S : a < op /\ b > op
  BY DEF Below, Above
<1>3. i \in 1 .. n - 1 /\ keys[i] < op /\ keys[i + 1] > op
  BY <1>1, <1>2, BisectIs
<1>4. n \in Nat /\ keys \in Seq(S) /\ \A j \in 1 .. n : keys[j] \in S /\ keys[j] \in Int
  <2>1. keys \in Seq(S)
    BY <1>1 DEF Ascending
  <2>2. n \in Nat /\ \A j \in 1 .. n : keys[j] \in S
    BY <2>1
  <2> QED
    BY <2>1, <2>2, <1>1
<1>0. \A j, k \in 1 .. n : j < k => keys[j] < keys[k]
  BY <1>1 DEF Ascending
<1> HIDE DEF keys, i, S
<1>5. i \in 1 .. n /\ i + 1 \in 1 .. n
  BY <1>3, <1>4
<1>6. keys[i] \in S /\ keys[i + 1] \in S /\ keys[i] \in Int /\ keys[i + 1] \in Int
  BY <1>4, <1>5
<1>7. ASSUME NEW k \in S PROVE k <= keys[i] \/ k >= keys[i + 1]
  <2>1. PICK j \in 1 .. n : keys[j] = k
    BY <1>1 DEF Ascending
  <2>2. CASE j < i
    BY <2>1, <2>2, <1>0, <1>4, <1>5, <1>6
  <2>3. CASE j > i + 1
    BY <2>1, <2>3, <1>0, <1>4, <1>5, <1>6
  <2> QED
    BY <2>1, <2>2, <2>3, <1>4, <1>5, <1>6
<1>8. Max(Below(trace, op)) = keys[i]
  <2>1. keys[i] \in Below(trace, op) /\ \A k \in Below(trace, op) : keys[i] >= k
    BY <1>1, <1>3, <1>6, <1>7 DEF Below, S
  <2>2. \A x, y \in Below(trace, op) : x >= y /\ y >= x => x = y
    BY <1>1 DEF Below, S
  <2> QED
    BY <2>1, <2>2 DEF Max
<1>9. Min(Above(trace, op)) = keys[i + 1]
  <2>1. keys[i + 1] \in Above(trace, op) /\ \A k \in Above(trace, op) : keys[i + 1] =< k
    BY <1>1, <1>3, <1>6, <1>7 DEF Above, S
  <2>2. \A x, y \in Above(trace, op) : x =< y /\ y =< x => x = y
    BY <1>1 DEF Above, S
  <2> QED
    BY <2>1, <2>2 DEF Min
<1>10. keys # <<>> /\ ~ (op < keys[1]) /\ ~ (op > keys[Len(keys)]) /\ i # 0 /\ ~ (i >= Len(keys))
  <2>1. 1 \in 1 .. n /\ n \in 1 .. n /\ keys[1] \in S /\ keys[n] \in S
    BY <1>4, <1>5
  <2>2. keys[1] <= keys[i] /\ keys[n] >= keys[i + 1]
    <3>1. i = 1 \/ keys[1] < keys[i]
      BY <1>0, <1>4, <1>5, <2>1
    <3>2. i + 1 = n \/ keys[n] > keys[i + 1]
      BY <1>0, <1>4, <1>5, <2>1
    <3> QED
      BY <3>1, <3>2, <2>1, <1>4, <1>6
  <2>3. keys # <<>>
    BY <2>1
  <2>4. ~ (op < keys[1]) /\ ~ (op > keys[n])
    BY <2>1, <2>2, <1>4, <1>3, <1>6
  <2>5. i # 0 /\ ~ (i >= n)
    BY <1>3, <1>4
  <2> QED
    BY <2>3, <2>4, <2>5
<1>11. Lookup(trace, op) = Between(keys[i], keys[i + 1], trace.data[keys[i]], trace.data[keys[i + 1]], op)
  BY <1>10 DEF Lookup, keys, i
<1> QED
  BY <1>3, <1>6, <1>7, <1>8, <1>9, <1>11 DEF S

\* A lookup outside of the keys has no value.
LEMMA LookupOutside ==
    ASSUME NEW trace, GoodTrace(trace), NEW op \in Int, op \notin DOMAIN trace.data,
           Below(trace, op) = {} \/ Above(trace, op) = {}
    PROVE  Lookup(trace, op) = NoValue
<1> DEFINE S == DOMAIN trace.data
           keys == SortedKeys(trace)
           n == Len(keys)
<1>1. S \in SUBSET Int /\ keys \in Seq(S)
  BY SortedKeysAre DEF GoodTrace, Ascending
<1> HIDE DEF keys
<1>2. CASE keys = <<>>
  BY <1>2 DEF Lookup, keys
<1>3. CASE keys # <<>>
  <2>1. keys[1] \in S /\ keys[n] \in S
    BY <1>1, <1>3
  <2>2. op < keys[1] \/ op > keys[n]
    BY <2>1, <1>1 DEF Below, Above
  <2> QED
    BY <2>2 DEF Lookup, keys
<1> QED
  BY <1>2, <1>3

\* A lookup of a key gives the value stored.
LEMMA LookupExact ==
    ASSUME NEW trace, NEW op, op \in DOMAIN trace.data
    PROVE  Lookup(trace, op) = Exact(trace.data[op])
BY DEF Lookup

\* A lookup that has a value is of a key or between two keys.
LEMMA LookupInside ==
    ASSUME NEW trace, GoodTrace(trace), NEW op \in Int, Lookup(trace, op) # NoValue,
           op \notin DOMAIN trace.data
    PROVE  Below(trace, op) # {} /\ Above(trace, op) # {}
BY LookupOutside

\* Fractions as __getitem__ computes them.
Fraction == [num : Int, den : Nat \ {0}]

\* Products of integers are integers, and positive if the factors are.
LEMMA Product == \A x, y \in Int : x * y \in Int /\ (x > 0 /\ y > 0 => x * y > 0)
OBVIOUS

\* The factors of a product can be exchanged.
LEMMA ProductSwap == \A x, y, z \in Int : (x * y) * z = (x * z) * y
OBVIOUS

\* The line through two points of x + c.
LEMMA LineThrough ==
    ASSUME NEW l \in Int, NEW r \in Int, NEW c \in Int, NEW op \in Int
    PROVE  (l + c) * (r - l) + (op - l) * ((r + c) - (l + c)) = (op + c) * (r - l)
<1>1. (r + c) - (l + c) = r - l
  OBVIOUS
<1>2. ASSUME NEW x \in Int, NEW y \in Int, NEW z \in Int PROVE x * z + y * z = (x + y) * z
  OBVIOUS
<1>3. (l + c) * (r - l) + (op - l) * (r - l) = ((l + c) + (op - l)) * (r - l)
  BY <1>2
<1>4. (l + c) + (op - l) = op + c
  OBVIOUS
<1> QED
  BY <1>1, <1>3, <1>4

\* Multiplication with a positive number keeps the order.
LEMMA ProductGrows == \A x, y, z \in Int : z > 0 => (x < y => x * z < y * z) /\ (x <= y => x * z <= y * z)
<1> SUFFICES ASSUME NEW x \in Int, NEW y \in Int, NEW z \in Int, z > 0
             PROVE  (x < y => x * z < y * z) /\ (x <= y => x * z <= y * z)
  OBVIOUS
<1>1. y * z - x * z = (y - x) * z
  OBVIOUS
<1>2. y - x > 0 => (y - x) * z > 0
  BY Product
<1>3. x * z \in Int /\ y * z \in Int /\ (y - x) * z \in Int
  BY Product
<1> QED
  BY <1>1, <1>2, <1>3

\* An interpolated value is a fraction.
LEMMA BetweenFraction ==
    ASSUME NEW l \in Int, NEW r \in Int, NEW op \in Int, l < r, NEW a \in Int, NEW b \in Int
    PROVE  Between(l, r, a, b, op) \in Fraction
<1>1. a * (r - l) \in Int /\ (op - l) * (b - a) \in Int
  BY Product
<1> QED
  BY <1>1 DEF Between, Fraction

\* A product of a positive and a nonnegative integer is not negative.
LEMMA ProductSign == \A x, y \in Int : x > 0 /\ y >= 0 => x * y >= 0
<1> SUFFICES ASSUME NEW x \in Int, NEW y \in Int, x > 0, y >= 0 PROVE x * y >= 0
  OBVIOUS
<1>1. CASE y = 0
  <2>1. x * 0 = 0
    OBVIOUS
  <2> QED
    BY <1>1, <2>1
<1>2. CASE y > 0
  <2>1. x * y \in Int /\ x * y > 0
    BY <1>2, Product
  <2> QED
    BY <2>1
<1> QED
  BY <1>1, <1>2

\* A value between two others lies between them.
LEMMA BetweenBounds ==
    ASSUME NEW l \in Int, NEW r \in Int, NEW op \in Int, l < op, op < r,
           NEW a \in Int, NEW b \in Int, a <= b
    PROVE  LET f == Between(l, r, a, b, op)
           IN f \in Fraction /\ a * f.den <= f.num /\ f.num <= b * f.den
<1> DEFINE f == Between(l, r, a, b, op)
<1>1. f.den = r - l /\ f.num = a * (r - l) + (op - l) * (b - a)
  BY DEF Between
<1>2. a * (r - l) \in Int /\ (op - l) * (b - a) \in Int /\ b * (r - l) \in Int /\ (r - op) * (b - a) \in Int
  BY Product
<1>3. f \in Fraction
  <2>1. l < r
    OBVIOUS
  <2> QED
    BY <2>1, BetweenFraction
<1>4. (op - l) * (b - a) >= 0 /\ (r - op) * (b - a) >= 0
  BY ProductSign
<1>5. b * (r - l) = a * (r - l) + (op - l) * (b - a) + (r - op) * (b - a)
  OBVIOUS
<1> QED
  BY <1>1, <1>2, <1>3, <1>4, <1>5

\* The values of a trace never fall as the operation count grows.
GrowingTrace(trace) ==
    \A a, b \in DOMAIN trace.data : a < b => trace.data[a] <= trace.data[b]

\* What is looked up lies between the values of the keys before and after.
LEMMA LookupOrdered ==
    ASSUME NEW trace, GoodTrace(trace), GrowingTrace(trace),
           NEW op \in Int, Lookup(trace, op) # NoValue
    PROVE  LET f == Lookup(trace, op)
           IN /\ f \in Fraction
              /\ \A k \in DOMAIN trace.data :
                    /\ k <= op => trace.data[k] * f.den <= f.num
                    /\ k >= op => f.num <= trace.data[k] * f.den
<1> DEFINE S == DOMAIN trace.data
           f == Lookup(trace, op)
<1>1. \A k \in S : k \in Int /\ trace.data[k] \in Int
  BY DEF GoodTrace
<1>2. CASE op \in S
  <2>1. f = [num |-> trace.data[op], den |-> 1]
    BY <1>2, LookupExact DEF Exact
  <2>2. \A k \in S : (k <= op => trace.data[k] <= trace.data[op]) /\ (k >= op => trace.data[op] <= trace.data[k])
    BY <1>1, <1>2 DEF GrowingTrace
  <2>3. \A k \in S : trace.data[k] * 1 = trace.data[k]
    BY <1>1
  <2> QED
    BY <2>1, <2>2, <2>3, <1>1, <1>2 DEF Fraction
<1>3. CASE op \notin S
  <2> DEFINE l == Max(Below(trace, op))
             r == Min(Above(trace, op))
  <2>1. Below(trace, op) # {} /\ Above(trace, op) # {}
    BY <1>3, LookupInside
  <2>2. /\ l \in S /\ r \in S /\ l < op /\ op < r
        /\ \A k \in S : k <= l \/ k >= r
        /\ f = Between(l, r, trace.data[l], trace.data[r], op)
    BY <1>3, <2>1, LookupBetween
  <2> HIDE DEF l, r, f
  <2>3. l \in Int /\ r \in Int /\ trace.data[l] \in Int /\ trace.data[r] \in Int
    BY <1>1, <2>2
  <2>4. trace.data[l] <= trace.data[r]
    BY <2>2, <2>3 DEF GrowingTrace
  <2>5. f \in Fraction /\ trace.data[l] * f.den <= f.num /\ f.num <= trace.data[r] * f.den
    BY <2>2, <2>3, <2>4, BetweenBounds
  <2>6. f.den \in Int /\ f.den > 0 /\ f.num \in Int
    BY <2>5 DEF Fraction
  <2>7. ASSUME NEW k \in S
        PROVE  /\ k <= op => trace.data[k] * f.den <= f.num
               /\ k >= op => f.num <= trace.data[k] * f.den
    <3>1. k \in Int /\ trace.data[k] \in Int
      BY <1>1
    <3>2. CASE k <= l
      <4>1. trace.data[k] <= trace.data[l]
        BY <3>1, <3>2, <2>2, <2>3 DEF GrowingTrace
      <4>2. trace.data[k] * f.den <= trace.data[l] * f.den
        BY <4>1, <3>1, <2>3, <2>6, ProductGrows
      <4>3. trace.data[k] * f.den \in Int /\ trace.data[l] * f.den \in Int
        BY <3>1, <2>3, <2>6, Product
      <4> QED
        BY <4>2, <4>3, <2>5, <2>6, <2>2, <2>3, <3>1, <3>2
    <3>3. CASE k >= r
      <4>1. trace.data[r] <= trace.data[k]
        BY <3>1, <3>3, <2>2, <2>3 DEF GrowingTrace
      <4>2. trace.data[r] * f.den <= trace.data[k] * f.den
        BY <4>1, <3>1, <2>3, <2>6, ProductGrows
      <4>3. trace.data[k] * f.den \in Int /\ trace.data[r] * f.den \in Int
        BY <3>1, <2>3, <2>6, Product
      <4> QED
        BY <4>2, <4>3, <2>5, <2>6, <2>2, <2>3, <3>1, <3>3
    <3> QED
      BY <2>2, <3>2, <3>3
  <2> QED
    BY <2>5, <2>7, <1>3 DEF f
<1> QED
  BY <1>2, <1>3

\* A trace that never falls does not fall when it is interpolated.
LEMMA LookupGrows ==
    ASSUME NEW trace, GoodTrace(trace), GrowingTrace(trace),
           NEW x \in Int, NEW y \in Int, x < y,
           Lookup(trace, x) # NoValue, Lookup(trace, y) # NoValue
    PROVE  Minus(Lookup(trace, y), Lookup(trace, x)).num \in Nat
<1> DEFINE S == DOMAIN trace.data
           fx == Lookup(trace, x)
           fy == Lookup(trace, y)
<1>1. \A k \in S : k \in Int /\ trace.data[k] \in Int
  BY DEF GoodTrace
<1>2. /\ fx \in Fraction
      /\ \A k \in S : k >= x => fx.num <= trace.data[k] * fx.den
  BY LookupOrdered
<1>3. /\ fy \in Fraction
      /\ \A k \in S : k <= y => trace.data[k] * fy.den <= fy.num
  BY LookupOrdered
<1>4. /\ fx.num \in Int /\ fx.den \in Int /\ fx.den > 0
      /\ fy.num \in Int /\ fy.den \in Int /\ fy.den > 0
  BY <1>2, <1>3 DEF Fraction
<1>5. SUFFICES fx.num * fy.den <= fy.num * fx.den
  BY <1>4, Product DEF Minus
<1> HIDE DEF fx, fy
<1>6. fx.num * fy.den \in Int /\ fy.num * fx.den \in Int
  BY <1>4, Product
<1>7. CASE \E k \in S : x <= k /\ k <= y
  <2>1. PICK k \in S : x <= k /\ k <= y
    BY <1>7
  <2> DEFINE v == trace.data[k]
  <2>2. v \in Int /\ k \in Int
    BY <1>1, <2>1
  <2>3. fx.num <= v * fx.den /\ v * fy.den <= fy.num
    BY <1>2, <1>3, <2>1, <2>2
  <2> HIDE DEF v
  <2>4. v * fx.den \in Int /\ v * fy.den \in Int
    BY <2>2, <1>4, Product
  <2>5. fx.num * fy.den <= (v * fx.den) * fy.den
    BY <2>3, <2>4, <1>4, ProductGrows
  <2>6. (v * fy.den) * fx.den <= fy.num * fx.den
    BY <2>3, <2>4, <1>4, ProductGrows
  <2>7. (v * fx.den) * fy.den = (v * fy.den) * fx.den /\ (v * fx.den) * fy.den \in Int
    BY <2>2, <2>4, <1>4, ProductSwap, Product
  <2> QED
    BY <2>5, <2>6, <2>7, <1>6
<1>8. CASE \A k \in S : k < x \/ k > y
  <2>1. x \notin S /\ y \notin S
    BY <1>8
  <2>2. Below(trace, x) # {} /\ Above(trace, x) # {}
    BY <2>1, LookupInside DEF fx
  <2>3. Below(trace, x) = Below(trace, y) /\ Above(trace, x) = Above(trace, y)
    BY <1>1, <1>8 DEF Below, Above
  <2> DEFINE l == Max(Below(trace, x))
             r == Min(Above(trace, x))
             a == trace.data[l]
             b == trace.data[r]
  <2>4. l \in S /\ r \in S /\ l < x /\ x < r /\ fx = Between(l, r, a, b, x)
    BY <2>1, <2>2, LookupBetween DEF fx
  <2>5. l < y /\ y < r /\ fy = Between(l, r, a, b, y)
    BY <2>1, <2>2, <2>3, LookupBetween DEF fy
  <2>6. l \in Int /\ r \in Int /\ a \in Int /\ b \in Int
    BY <2>4, <1>1
  <2>7. a <= b
    BY <2>4, <2>6 DEF GrowingTrace
  <2> HIDE DEF l, r, a, b
  <2>8. /\ fx.num = a * (r - l) + (x - l) * (b - a) /\ fx.den = r - l
        /\ fy.num = a * (r - l) + (y - l) * (b - a) /\ fy.den = r - l
    BY <2>4, <2>5 DEF Between
  <2>9. fx.num <= fy.num
    <3>1. (y - l) * (b - a) = (x - l) * (b - a) + (y - x) * (b - a)
      BY <2>6
    <3>2. (y - x) * (b - a) >= 0
      BY <2>6, <2>7, ProductSign
    <3>3. (x - l) * (b - a) \in Int /\ (y - x) * (b - a) \in Int /\ a * (r - l) \in Int
      BY <2>6, Product
    <3> QED
      BY <2>8, <3>1, <3>2, <3>3
  <2> QED
    BY <2>8, <2>9, <1>4, ProductGrows
<1> QED
  BY <1>7, <1>8, <1>1

\* What is looked up in a trace with values k + c under the keys k.
LEMMA LookupLinear ==
    ASSUME NEW trace, GoodTrace(trace), NEW c \in Int,
           \A k \in DOMAIN trace.data : trace.data[k] = k + c,
           NEW op \in Int, Lookup(trace, op) # NoValue
    PROVE  Lookup(trace, op) \in Fraction /\ Lookup(trace, op).num = (op + c) * Lookup(trace, op).den
<1> DEFINE S == DOMAIN trace.data
           f == Lookup(trace, op)
<1>1. CASE op \in S
  <2>1. f = [num |-> op + c, den |-> 1]
    BY <1>1, LookupExact DEF Exact
  <2>2. (op + c) * 1 = op + c
    OBVIOUS
  <2> QED
    BY <2>1, <2>2 DEF Fraction
<1>2. CASE op \notin S
  <2> DEFINE l == Max(Below(trace, op))
             r == Min(Above(trace, op))
  <2>1. Below(trace, op) # {} /\ Above(trace, op) # {}
    BY <1>2, LookupInside
  <2>2. /\ l \in S /\ r \in S /\ l < op /\ op < r
        /\ f = Between(l, r, trace.data[l], trace.data[r], op)
    BY <1>2, <2>1, LookupBetween
  <2> HIDE DEF l, r, f
  <2>3. l \in Int /\ r \in Int /\ trace.data[l] = l + c /\ trace.data[r] = r + c
    BY <2>2 DEF GoodTrace
  <2>4. f = Between(l, r, l + c, r + c, op)
    BY <2>2, <2>3
  <2>5. f \in Fraction
    <3>1. l + c \in Int /\ r + c \in Int /\ l < r
      BY <2>2, <2>3
    <3>2. Between(l, r, l + c, r + c, op) \in Fraction
      BY <2>3, <3>1, BetweenFraction
    <3> QED
      BY <2>4, <3>2
  <2>6. f.den = r - l /\ f.num = (l + c) * (r - l) + (op - l) * ((r + c) - (l + c))
    BY <2>4 DEF Between
  <2>7. (l + c) * (r - l) + (op - l) * ((r + c) - (l + c)) = (op + c) * (r - l)
    BY <2>3, LineThrough
  <2> QED
    BY <2>5, <2>6, <2>7 DEF f
<1> QED
  BY <1>1, <1>2

\* The difference of two fractions that are whole numbers.
LEMMA MinusWhole ==
    ASSUME NEW f \in Fraction, NEW g \in Fraction, NEW v \in Int, NEW w \in Int,
           f.num = v * f.den, g.num = w * g.den
    PROVE  /\ Minus(f, g).den \in Int
           /\ Minus(f, g).num = (v - w) * Minus(f, g).den
<1> DEFINE a == f.den
           b == g.den
<1>1. a \in Int /\ b \in Int
  BY DEF Fraction
<1>2. Minus(f, g).den = a * b /\ Minus(f, g).num = (v * a) * b - (w * b) * a
  BY DEF Minus
<1> HIDE DEF a, b
<1>3. a * b \in Int
  BY <1>1, Product
<1>4. (v * a) * b = v * (a * b) /\ (w * b) * a = w * (a * b)
  <2>1. \A x, y, z \in Int : (x * y) * z = x * (y * z) /\ (x * z) * y = x * (y * z)
    OBVIOUS
  <2> QED
    BY <2>1, <1>1
<1>5. v * (a * b) - w * (a * b) = (v - w) * (a * b)
  <2>1. \A x, y, z \in Int : x * z - y * z = (x - y) * z
    OBVIOUS
  <2> QED
    BY <2>1, <1>3
<1> QED
  BY <1>2, <1>3, <1>4, <1>5

\* Time and operations since the start after j reports.
Total(j) == IF j = 0 THEN <<0, 0>> ELSE history[j]
ReportCount == Len(history)

\* The types of the parser's variables.
ParserTypes ==
    /\ stage \in {"parse", "plot", "skipped"}
    /\ repPhase \in Nat \ {0} /\ repT \in Nat /\ repOp \in Nat /\ merged \in BOOLEAN
    /\ history \in Seq(Nat \X Nat)
    /\ cur_op \in Nat /\ cur_t \in Nat /\ phase_op_base \in Nat /\ phase_t_base \in Nat

\* The parser knows the name of the phase that reported last.
PhaseInv ==
    /\ ReportCount = 0 => cur_phase = NoValue /\ repT = 0 /\ repOp = 0
    /\ ReportCount > 0 => repPhase \in DOMAIN Phases /\ cur_phase = Phases[repPhase]

\* The traces can be looked up in, whatever was reported.
StoredInv ==
    /\ GoodTrace(operation) /\ GoodTrace(elapsed) /\ GoodTrace(measure)
    /\ stage = "parse" => operation.keys = <<>> /\ elapsed.keys = <<>> /\ measure.keys = <<>>
    /\ \A k \in DOMAIN operation.data : operation.data[k] = k

\* The program's totals never fall, and the parser has them although each phase counts from zero.
TotalsInv ==
    /\ \A i, j \in 0 .. ReportCount : i < j => Total(i)[1] <= Total(j)[1] /\ Total(i)[2] <= Total(j)[2]
    /\ cur_t = Total(ReportCount)[1] /\ cur_op = Total(ReportCount)[2]
    /\ ReportCount > 0 => cur_t = phase_t_base + repT /\ cur_op = phase_op_base + repOp

\* Which values are stored under which operation counts: a time under the count of the report
\* before, unless the next report has overwritten it.
RecordedInv ==
    /\ DOMAIN elapsed.data = {Total(j)[2] : j \in 0 .. ReportCount - 1}
    /\ \A j \in 1 .. ReportCount :
          Total(j)[2] # Total(j - 1)[2] => elapsed.data[Total(j - 1)[2]] = Total(j)[1]
    /\ GrowingTrace(elapsed)
    /\ \A k \in DOMAIN elapsed.data : k <= cur_op /\ elapsed.data[k] <= cur_t
    /\ measure.data = measured
    /\ \A p \in DOMAIN phase_starts : \E j \in 0 .. ReportCount : phase_starts[p] = Total(j)[2]

\* Up to the first phase that comes after one of the same name.
JoinedInv == ~merged => TotalsInv /\ RecordedInv

TraceInv == ParserTypes /\ PhaseInv /\ StoredInv /\ JoinedInv

\* The totals are pairs of numbers.
LEMMA TotalsAre ==
    ASSUME ParserTypes
    PROVE  /\ ReportCount \in Nat
           /\ \A j \in 0 .. ReportCount : Total(j) \in Nat \X Nat /\ Total(j)[1] \in Nat /\ Total(j)[2] \in Nat
<1>1. history \in Seq(Nat \X Nat)
  BY DEF ParserTypes
<1>2. ReportCount \in Nat /\ \A j \in 1 .. ReportCount : history[j] \in Nat \X Nat
  BY <1>1 DEF ReportCount
<1>3. ASSUME NEW j \in 0 .. ReportCount PROVE Total(j) \in Nat \X Nat
  <2>1. CASE j = 0
    BY <2>1 DEF Total
  <2>2. CASE j # 0
    <3>1. j \in 1 .. ReportCount
      BY <2>2, <1>2
    <3> QED
      BY <2>2, <3>1, <1>2 DEF Total
  <2> QED
    BY <2>1, <2>2
<1> QED
  BY <1>2, <1>3

\* Storing a number under an operation count before the plots keeps a trace good.
LEMMA StoredGood ==
    ASSUME NEW trace, GoodTrace(trace), trace.keys = <<>>, NEW op \in Nat, NEW value \in Int
    PROVE  /\ GoodTrace(Stored(trace, op, value))
           /\ Stored(trace, op, value).keys = <<>>
           /\ DOMAIN Stored(trace, op, value).data = DOMAIN trace.data \cup {op}
           /\ Stored(trace, op, value).data[op] = value
           /\ \A k \in DOMAIN trace.data \ {op} : Stored(trace, op, value).data[k] = trace.data[k]
           /\ Stored(trace, op, value).data = Put(trace.data, op, value)
<1> DEFINE new == Put(trace.data, op, value)
<1>1. Stored(trace, op, value) = [data |-> new, keys |-> <<>>]
  BY DEF Stored, GoodTrace
<1>2. /\ DOMAIN new = DOMAIN trace.data \cup {op}
      /\ \A k \in DOMAIN trace.data \cup {op} : new[k] = IF k = op THEN value ELSE trace.data[k]
  BY DEF Put
<1>3. new \in [DOMAIN new -> Int]
  <2>1. new = [k \in DOMAIN new |-> new[k]]
    BY DEF Put
  <2>2. \A k \in DOMAIN new : new[k] \in Int
    BY <1>2 DEF GoodTrace
  <2> QED
    BY <2>1, <2>2
<1>4. DOMAIN new \subseteq Nat /\ IsFiniteSet(DOMAIN new)
  BY <1>2, FS_AddElement DEF GoodTrace
<1> HIDE DEF new
<1>5. GoodTrace([data |-> new, keys |-> <<>>])
  BY <1>3, <1>4 DEF GoodTrace
<1> QED
  BY <1>1, <1>2, <1>5 DEF new

\* A lookup that caches the keys keeps a trace good, and its values.
LEMMA QueriedGood ==
    ASSUME NEW trace, GoodTrace(trace)
    PROVE  GoodTrace(Queried(trace)) /\ Queried(trace).data = trace.data
<1>1. SortedKeys(trace) \in {<<>>, Sorted(DOMAIN trace.data)}
  BY DEF SortedKeys, GoodTrace
<1>2. Queried(trace) = [data |-> trace.data, keys |-> SortedKeys(trace)]
  BY DEF Queried, GoodTrace
<1> QED
  BY <1>1, <1>2 DEF GoodTrace

\* The invariant holds before the first line is read.
LEMMA TraceInitInv == TraceInit => TraceInv
<1> SUFFICES ASSUME TraceInit PROVE TraceInv
  OBVIOUS
<1> USE DEF TraceInit
<1>1. ReportCount = 0 /\ Total(0) = <<0, 0>>
  BY DEF ReportCount, Total
<1>8. merged \in BOOLEAN
  OBVIOUS
<1>2. ParserTypes /\ PhaseInv
  BY <1>1, <1>8 DEF ParserTypes, PhaseInv
<1>3. TotalsInv
  BY <1>1 DEF TotalsInv
<1>4. GoodTrace(EmptyTrace) /\ EmptyTrace.keys = <<>> /\ DOMAIN EmptyTrace.data = {}
  <2>1. EmptyTrace.data = <<>> /\ EmptyTrace.keys = <<>> /\ DOMAIN EmptyTrace.data = {}
    BY DEF EmptyTrace
  <2>2. EmptyTrace.data \in [DOMAIN EmptyTrace.data -> Int]
    BY <2>1
  <2> QED
    BY <2>1, <2>2, FS_EmptySet DEF GoodTrace, EmptyTrace
<1>5. measure.data = measured /\ DOMAIN phase_starts = {}
  BY DEF EmptyTrace
<1>6. StoredInv
  BY <1>4 DEF StoredInv
<1>7. RecordedInv
  BY <1>1, <1>4, <1>5 DEF RecordedInv, GrowingTrace
<1> QED
  BY <1>2, <1>3, <1>6, <1>7 DEF TraceInv, JoinedInv

\* What a progress report does; the parser's totals follow the program's unless the phase has the
\* name of the one before it.
LEMMA ReadProgressIs ==
    ASSUME TraceInv, ReadProgress
    PROVE  /\ stage = "parse" /\ stage' = stage /\ measured' = measured /\ measure' = measure
           /\ repPhase' \in DOMAIN Phases /\ cur_phase' = Phases[repPhase']
           /\ repPhase' \in Nat \ {0} /\ repT' \in Nat /\ repOp' \in Nat /\ merged' \in BOOLEAN
           /\ phase_t_base' \in Nat /\ phase_op_base' \in Nat
           /\ cur_t' \in Nat /\ cur_op' \in Nat
           /\ elapsed' = Stored(elapsed, cur_op, cur_t')
           /\ operation' = Stored(operation, cur_op', cur_op')
           /\ phase_starts' \in {phase_starts, Put(phase_starts, cur_phase', cur_op)}
           /\ \E total \in Nat \X Nat :
                 /\ history' = Append(history, total)
                 /\ ~merged' => /\ ~merged /\ total = <<cur_t', cur_op'>>
                                /\ cur_t' >= cur_t /\ cur_op' >= cur_op
                                /\ cur_t' = phase_t_base' + repT' /\ cur_op' = phase_op_base' + repOp'
<1>1. PICK p \in repPhase .. Len(Phases), dt \in Steps, dop \in Steps :
          LET t == IF p = repPhase THEN repT + dt ELSE dt
              op == IF p = repPhase THEN repOp + dop ELSE dop
          IN Advances(p, dt, dop) /\ Report(p, t, op) /\ ProcessElapsed(Phases[p], t, op)
  BY DEF ReadProgress
<1> DEFINE t == IF p = repPhase THEN repT + dt ELSE dt
           op == IF p = repPhase THEN repOp + dop ELSE dop
           tb == TimeBase(Phases[p])
           ob == OpBase(Phases[p])
           total == <<Total(ReportCount)[1] + dt, Total(ReportCount)[2] + dop>>
<1>2. Report(p, t, op) /\ ProcessElapsed(Phases[p], t, op)
  BY <1>1
<1>3. dt \in Nat /\ dop \in Nat
  BY TraceConstants
<1>4. /\ repPhase \in Nat \ {0} /\ repT \in Nat /\ repOp \in Nat /\ cur_t \in Nat /\ cur_op \in Nat
      /\ phase_t_base \in Nat /\ phase_op_base \in Nat /\ ReportCount \in Nat /\ merged \in BOOLEAN
      /\ Total(ReportCount)[1] \in Nat /\ Total(ReportCount)[2] \in Nat
  <2>1. ParserTypes /\ ReportCount \in Nat
    BY TotalsAre DEF TraceInv
  <2>2. ReportCount \in 0 .. ReportCount
    BY <2>1
  <2> QED
    BY <2>1, <2>2, TotalsAre DEF ParserTypes
<1>5. p \in DOMAIN Phases /\ p \in Nat \ {0}
  <2>1. Len(Phases) \in Nat /\ DOMAIN Phases = 1 .. Len(Phases)
    BY TraceConstants
  <2> QED
    BY <2>1, <1>4
<1>6. t \in Nat /\ op \in Nat /\ tb \in Nat /\ ob \in Nat
  BY <1>3, <1>4 DEF TimeBase, OpBase
<1>7. cur_t' = t + tb /\ cur_op' = op + ob /\ phase_t_base' = tb /\ phase_op_base' = ob /\ cur_phase' = Phases[p]
  BY <1>2 DEF ProcessElapsed
<1>8. /\ repPhase' = p /\ repT' = t /\ repOp' = op
      /\ merged' = (merged \/ (history # <<>> /\ p # repPhase /\ Phases[p] = Phases[repPhase]))
  BY <1>2 DEF Report
<1>9. history = <<>> <=> ReportCount = 0
  BY DEF TraceInv, ParserTypes, ReportCount
<1>10. history' = Append(history, total) /\ total \in Nat \X Nat
  <2> DEFINE prior == IF history = <<>> THEN <<0, 0>> ELSE history[Len(history)]
             d1 == IF p = repPhase THEN t - repT ELSE t
             d2 == IF p = repPhase THEN op - repOp ELSE op
  <2>1. history' = Append(history, <<prior[1] + d1, prior[2] + d2>>)
    BY <1>2 DEF Report
  <2>2. d1 = dt /\ d2 = dop
    BY <1>3, <1>4
  <2>3. prior = Total(ReportCount)
    BY <1>9 DEF Total, ReportCount
  <2> HIDE DEF prior, d1, d2
  <2>4. history' = Append(history, total)
    BY <2>1, <2>2, <2>3
  <2>5. total \in Nat \X Nat
    <3>1. Total(ReportCount)[1] + dt \in Nat /\ Total(ReportCount)[2] + dop \in Nat
      BY <1>3, <1>4
    <3> QED
      BY <3>1
  <2> QED
    BY <2>4, <2>5
<1>11. /\ elapsed' = Stored(elapsed, cur_op, t + tb) /\ operation' = Stored(operation, op + ob, op + ob)
       /\ phase_starts' \in {phase_starts, Put(phase_starts, Phases[p], cur_op)}
       /\ measure' = measure
  BY <1>2 DEF ProcessElapsed
<1>12. stage = "parse" /\ stage' = stage /\ measured' = measured
  BY DEF ReadProgress
<1>13. ASSUME ~merged'
       PROVE  /\ ~merged /\ total = <<cur_t', cur_op'>> /\ cur_t' >= cur_t /\ cur_op' >= cur_op
  <2>1. ~merged /\ (history = <<>> \/ p = repPhase \/ Phases[p] # Phases[repPhase])
    BY <1>8, <1>13
  <2>2. cur_t = Total(ReportCount)[1] /\ cur_op = Total(ReportCount)[2]
        /\ (ReportCount > 0 => cur_t = phase_t_base + repT /\ cur_op = phase_op_base + repOp)
    BY <2>1 DEF TraceInv, JoinedInv, TotalsInv
  <2>3. cur_phase = Phases[p] <=> ReportCount > 0 /\ p = repPhase
    <3>1. Phases[p] # NoValue
      BY <1>5, TraceConstants DEF Range
    <3>2. CASE ReportCount = 0
      BY <3>1, <3>2 DEF TraceInv, PhaseInv
    <3>3. CASE ReportCount > 0
      <4>1. cur_phase = Phases[repPhase] /\ history # <<>>
        BY <3>3, <1>9 DEF TraceInv, PhaseInv
      <4> QED
        BY <2>1, <3>3, <4>1
    <3> QED
      BY <3>2, <3>3, <1>4
  <2>4. t + tb = cur_t + dt /\ op + ob = cur_op + dop
    <3>1. CASE ReportCount > 0 /\ p = repPhase
      <4>1. tb = phase_t_base /\ ob = phase_op_base
        BY <2>3, <3>1 DEF TimeBase, OpBase
      <4> QED
        BY <2>2, <3>1, <4>1, <1>3, <1>4, SMTT(30)
    <3>2. CASE ~ (ReportCount > 0 /\ p = repPhase)
      <4>1. tb = cur_t /\ ob = cur_op
        BY <2>3, <3>2 DEF TimeBase, OpBase
      <4>2. t = dt /\ op = dop
        BY <3>2, <1>3, <1>4 DEF TraceInv, PhaseInv
      <4> QED
        BY <4>1, <4>2, <1>3, <1>4
    <3> QED
      BY <3>1, <3>2
  <2> HIDE DEF t, op, tb, ob
  <2> QED
    <3>1. cur_t' = cur_t + dt /\ cur_op' = cur_op + dop
      BY <2>4, <1>7
    <3> QED
      BY <2>1, <2>2, <3>1, <1>3, <1>4, SMTT(30)
<1> HIDE DEF t, op, tb, ob, total
<1>14. cur_t' = phase_t_base' + repT' /\ cur_op' = phase_op_base' + repOp' /\ cur_t' \in Nat /\ cur_op' \in Nat
  BY <1>6, <1>7, <1>8
<1>15. /\ repPhase' \in DOMAIN Phases /\ cur_phase' = Phases[repPhase']
       /\ repPhase' \in Nat \ {0} /\ repT' \in Nat /\ repOp' \in Nat
       /\ phase_t_base' \in Nat /\ phase_op_base' \in Nat
  BY <1>5, <1>6, <1>7, <1>8
<1>16. /\ elapsed' = Stored(elapsed, cur_op, cur_t')
       /\ operation' = Stored(operation, cur_op', cur_op')
       /\ phase_starts' \in {phase_starts, Put(phase_starts, cur_phase', cur_op)}
  BY <1>7, <1>11
<1>17. merged' \in BOOLEAN
  BY <1>8
<1>18. \E c \in Nat \X Nat :
          /\ history' = Append(history, c)
          /\ ~merged' => /\ ~merged /\ c = <<cur_t', cur_op'>>
                         /\ cur_t' >= cur_t /\ cur_op' >= cur_op
                         /\ cur_t' = phase_t_base' + repT' /\ cur_op' = phase_op_base' + repOp'
  BY <1>10, <1>13, <1>14
<1> QED
  BY <1>11, <1>12, <1>14, <1>15, <1>16, <1>17, <1>18

\* What a progress report leaves in the traces.
LEMMA StoredProgress ==
    ASSUME StoredInv, stage = "parse", cur_op \in Nat, cur_t' \in Nat, cur_op' \in Nat,
           elapsed' = Stored(elapsed, cur_op, cur_t'), operation' = Stored(operation, cur_op', cur_op'),
           measure' = measure
    PROVE  /\ StoredInv'
           /\ DOMAIN elapsed'.data = DOMAIN elapsed.data \cup {cur_op}
           /\ elapsed'.data[cur_op] = cur_t'
           /\ \A k \in DOMAIN elapsed.data \ {cur_op} : elapsed'.data[k] = elapsed.data[k]
<1>1. /\ GoodTrace(operation) /\ GoodTrace(elapsed) /\ GoodTrace(measure)
      /\ operation.keys = <<>> /\ elapsed.keys = <<>> /\ measure.keys = <<>>
      /\ \A k \in DOMAIN operation.data : operation.data[k] = k
  BY DEF StoredInv
<1>2. cur_t' \in Int /\ cur_op' \in Int
  OBVIOUS
<1>3. /\ GoodTrace(elapsed') /\ elapsed'.keys = <<>>
      /\ DOMAIN elapsed'.data = DOMAIN elapsed.data \cup {cur_op}
      /\ elapsed'.data[cur_op] = cur_t'
      /\ \A k \in DOMAIN elapsed.data \ {cur_op} : elapsed'.data[k] = elapsed.data[k]
  <2> DEFINE new == Stored(elapsed, cur_op, cur_t')
  <2>0. GoodTrace(elapsed) /\ elapsed.keys = <<>> /\ cur_op \in Nat /\ cur_t' \in Int
    BY <1>1, <1>2
  <2>1. GoodTrace(new) /\ new.keys = <<>>
    BY ONLY <2>0, StoredGood, ZenonT(30)
  <2>2. new.data = Put(elapsed.data, cur_op, cur_t')
    BY ONLY <2>0, StoredGood, ZenonT(30)
  <2>3. /\ DOMAIN new.data = DOMAIN elapsed.data \cup {cur_op}
        /\ new.data[cur_op] = cur_t'
        /\ \A k \in DOMAIN elapsed.data \ {cur_op} : new.data[k] = elapsed.data[k]
    BY <2>2 DEF Put
  <2> QED
    BY <2>1, <2>3
<1>4. /\ GoodTrace(operation') /\ operation'.keys = <<>>
      /\ DOMAIN operation'.data = DOMAIN operation.data \cup {cur_op'}
      /\ operation'.data[cur_op'] = cur_op'
      /\ \A k \in DOMAIN operation.data \ {cur_op'} : operation'.data[k] = operation.data[k]
  <2> DEFINE new == Stored(operation, cur_op', cur_op')
  <2>0. GoodTrace(operation) /\ operation.keys = <<>> /\ cur_op' \in Nat /\ cur_op' \in Int
    BY <1>1, <1>2
  <2>1. GoodTrace(new) /\ new.keys = <<>>
    BY ONLY <2>0, StoredGood, ZenonT(30)
  <2>2. new.data = Put(operation.data, cur_op', cur_op')
    BY ONLY <2>0, StoredGood, ZenonT(30)
  <2>3. /\ DOMAIN new.data = DOMAIN operation.data \cup {cur_op'}
        /\ new.data[cur_op'] = cur_op'
        /\ \A k \in DOMAIN operation.data \ {cur_op'} : new.data[k] = operation.data[k]
    BY <2>2 DEF Put
  <2> QED
    BY <2>1, <2>3
<1>5. GoodTrace(measure') /\ measure'.keys = <<>>
  BY <1>1
<1>6. \A k \in DOMAIN operation'.data : operation'.data[k] = k
  BY <1>1, <1>4
<1>7. StoredInv'
  BY <1>3, <1>4, <1>5, <1>6 DEF StoredInv
<1> QED
  BY <1>3, <1>7

\* A progress report keeps the invariant.
LEMMA ReadProgressInv == ASSUME TraceInv, ReadProgress PROVE TraceInv'
<1>1. /\ stage = "parse" /\ stage' = stage /\ measured' = measured /\ measure' = measure
      /\ repPhase' \in DOMAIN Phases /\ cur_phase' = Phases[repPhase']
      /\ repPhase' \in Nat \ {0} /\ repT' \in Nat /\ repOp' \in Nat /\ merged' \in BOOLEAN
      /\ phase_t_base' \in Nat /\ phase_op_base' \in Nat
      /\ cur_t' \in Nat /\ cur_op' \in Nat
      /\ elapsed' = Stored(elapsed, cur_op, cur_t')
      /\ operation' = Stored(operation, cur_op', cur_op')
      /\ phase_starts' \in {phase_starts, Put(phase_starts, cur_phase', cur_op)}
  BY ReadProgressIs
<1>2. PICK total \in Nat \X Nat :
         /\ history' = Append(history, total)
         /\ ~merged' => /\ ~merged /\ total = <<cur_t', cur_op'>>
                        /\ cur_t' >= cur_t /\ cur_op' >= cur_op
                        /\ cur_t' = phase_t_base' + repT' /\ cur_op' = phase_op_base' + repOp'
  BY ReadProgressIs
<1>0. PICK n \in Nat : n = ReportCount
  BY TotalsAre DEF TraceInv
<1>3. /\ history \in Seq(Nat \X Nat) /\ cur_t \in Nat /\ cur_op \in Nat
      /\ \A j \in 0 .. n : Total(j)[1] \in Nat /\ Total(j)[2] \in Nat
  BY <1>0, TotalsAre DEF TraceInv, ParserTypes
<1>4. history' \in Seq(Nat \X Nat) /\ ReportCount' = n + 1
  BY <1>0, <1>2, <1>3 DEF ReportCount
<1>5. ParserTypes'
  BY <1>1, <1>4 DEF ParserTypes
<1>6. PhaseInv'
  <2>1. ReportCount' > 0 /\ ReportCount' # 0
    BY <1>0, <1>4
  <2> QED
    BY <1>1, <2>1 DEF PhaseInv
<1>7. /\ StoredInv'
      /\ DOMAIN elapsed'.data = DOMAIN elapsed.data \cup {cur_op}
      /\ elapsed'.data[cur_op] = cur_t'
      /\ \A k \in DOMAIN elapsed.data \ {cur_op} : elapsed'.data[k] = elapsed.data[k]
  BY <1>1, <1>3, StoredProgress DEF TraceInv
<1>9. cur_t' \in Nat /\ cur_op' \in Nat
  BY <1>1
<1>8. ASSUME ~merged' PROVE TotalsInv' /\ RecordedInv'
  <2>0. cur_t' >= cur_t /\ cur_op' >= cur_op
    BY <1>2, <1>8
  <2>1. /\ total = <<cur_t', cur_op'>> /\ cur_t' >= cur_t /\ cur_op' >= cur_op
        /\ cur_t' = phase_t_base' + repT' /\ cur_op' = phase_op_base' + repOp'
        /\ TotalsInv /\ RecordedInv
    BY <1>2, <1>8 DEF TraceInv, JoinedInv
  <2>2. /\ cur_t = Total(n)[1] /\ cur_op = Total(n)[2]
        /\ \A i, j \in 0 .. n : i < j => Total(i)[1] <= Total(j)[1] /\ Total(i)[2] <= Total(j)[2]
    BY <1>0, <2>1 DEF TotalsInv
  <2>3. ASSUME NEW j \in 0 .. n PROVE Total(j)' = Total(j)
    <3>1. CASE j = 0
      BY <3>1 DEF Total
    <3>2. CASE j # 0
      <4>1. j \in 1 .. Len(history)
        BY <3>2, <1>0 DEF ReportCount
      <4>2. history'[j] = history[j]
        BY <4>1, <1>2, <1>3
      <4> QED
        BY <3>2, <4>2 DEF Total
    <3> QED
      BY <3>1, <3>2
  <2>4. Total(n + 1)' = <<cur_t', cur_op'>>
    <3>1. history'[n + 1] = total
      BY <1>0, <1>2, <1>3 DEF ReportCount
    <3> QED
      BY <2>1, <3>1 DEF Total
  <2>5. Total(n + 1)'[1] = cur_t' /\ Total(n + 1)'[2] = cur_op'
    BY <2>4
  <2>6. ASSUME NEW i \in 0 .. n PROVE Total(i)[1] <= cur_t /\ Total(i)[2] <= cur_op
    <3>1. i = n \/ i < n
      OBVIOUS
    <3> QED
      BY <3>1, <1>3, <2>2
  <2>7. ASSUME NEW i \in 0 .. n + 1, NEW j \in 0 .. n + 1, i < j
        PROVE  Total(i)'[1] <= Total(j)'[1] /\ Total(i)'[2] <= Total(j)'[2]
    <3>1. i \in 0 .. n /\ Total(i)' = Total(i)
      BY <2>3, <2>7
    <3>2. CASE j \in 0 .. n
      BY <3>1, <3>2, <2>2, <2>3, <2>7
    <3>3. CASE j = n + 1
      <4>1. Total(i)[1] <= cur_t /\ Total(i)[2] <= cur_op /\ Total(i)[1] \in Nat /\ Total(i)[2] \in Nat
        BY <3>1, <2>6, <1>3
      <4>2. Total(i)[1] <= cur_t' /\ Total(i)[2] <= cur_op'
        BY <4>1, <1>9, <1>3, <2>0
      <4> QED
        BY <3>1, <3>3, <4>2, <2>5
    <3> QED
      BY <3>2, <3>3
  <2>8. TotalsInv'
    <3>1. \A i, j \in 0 .. ReportCount' : i < j => Total(i)'[1] <= Total(j)'[1] /\ Total(i)'[2] <= Total(j)'[2]
      BY <1>4, <2>7
    <3>2. (Total(ReportCount))' = Total(n + 1)'
      BY <1>0, <1>4 DEF Total
    <3> QED
      BY <2>1, <2>5, <3>1, <3>2 DEF TotalsInv
  <2>9. DOMAIN elapsed.data = {Total(j)[2] : j \in 0 .. n - 1}
    BY <1>0, <2>1 DEF RecordedInv
  <2>10. DOMAIN elapsed'.data = {Total(j)'[2] : j \in 0 .. n}
    <3>1. {Total(j)'[2] : j \in 0 .. n} = {Total(j)[2] : j \in 0 .. n}
      BY <2>3
    <3>2. 0 .. n = (0 .. n - 1) \cup {n}
      OBVIOUS
    <3>3. {Total(j)[2] : j \in 0 .. n} = {Total(j)[2] : j \in 0 .. n - 1} \cup {Total(n)[2]}
      BY <3>2
    <3> QED
      BY <3>1, <3>3, <2>2, <2>9, <1>7
  <2>11. ASSUME NEW j \in 1 .. n + 1, Total(j)'[2] # Total(j - 1)'[2]
         PROVE  elapsed'.data[Total(j - 1)'[2]] = Total(j)'[1]
    <3>1. j - 1 \in 0 .. n /\ Total(j - 1)' = Total(j - 1)
      BY <2>3
    <3>2. CASE j = n + 1
      <4>1. Total(j - 1)[2] = cur_op /\ Total(j)'[1] = cur_t'
        BY <3>2, <2>2, <2>5
      <4> QED
        BY <3>1, <4>1, <1>7
    <3>3. CASE j \in 1 .. n
      <4>1. Total(j)' = Total(j) /\ j \in 0 .. n /\ j - 1 < j
        BY <3>3, <2>3
      <4>2. Total(j - 1)[2] <= Total(j)[2] /\ Total(j)[2] <= cur_op /\ Total(j - 1)[2] # Total(j)[2]
        BY <3>1, <4>1, <2>2, <2>6, <2>11
      <4>3. Total(j - 1)[2] # cur_op
        BY <3>1, <4>1, <4>2, <1>3
      <4>4. Total(j - 1)[2] \in DOMAIN elapsed.data
        BY <2>9, <3>3
      <4>5. elapsed.data[Total(j - 1)[2]] = Total(j)[1]
        BY <1>0, <2>1, <3>3, <4>2 DEF RecordedInv
      <4> QED
        BY <3>1, <4>1, <4>3, <4>4, <4>5, <1>7
    <3> QED
      BY <3>2, <3>3
  <2>12. ASSUME NEW k \in DOMAIN elapsed.data
         PROVE  k \in Nat /\ elapsed.data[k] \in Int /\ k <= cur_op /\ elapsed.data[k] <= cur_t
    BY <2>1 DEF RecordedInv, TraceInv, StoredInv, GoodTrace
  <2>13. ASSUME NEW k \in DOMAIN elapsed'.data PROVE k <= cur_op' /\ elapsed'.data[k] <= cur_t'
    <3>1. CASE k = cur_op
      BY <3>1, <1>9, <1>3, <1>7, <2>0
    <3>2. CASE k # cur_op
      <4>1. k \in DOMAIN elapsed.data /\ elapsed'.data[k] = elapsed.data[k]
        BY <3>2, <1>7
      <4> QED
        BY <4>1, <2>12, <2>0, <1>9, <1>3
    <3> QED
      BY <3>1, <3>2
  <2>14. ASSUME NEW a \in DOMAIN elapsed'.data, NEW b \in DOMAIN elapsed'.data, a < b
         PROVE  elapsed'.data[a] <= elapsed'.data[b]
    <3>1. CASE b = cur_op
      BY <3>1, <2>13, <1>7
    <3>2. CASE b # cur_op
      <4>1. b \in DOMAIN elapsed.data /\ elapsed'.data[b] = elapsed.data[b]
        BY <3>2, <1>7
      <4>2. a # cur_op
        BY <4>1, <2>12, <2>14, <1>3
      <4>3. a \in DOMAIN elapsed.data /\ elapsed'.data[a] = elapsed.data[a]
        BY <4>2, <1>7
      <4> QED
        BY <4>1, <4>3, <2>1, <2>14 DEF RecordedInv, GrowingTrace
    <3> QED
      BY <3>1, <3>2
  <2>15. ASSUME NEW p \in DOMAIN phase_starts' PROVE \E j \in 0 .. n + 1 : phase_starts'[p] = Total(j)'[2]
    <3>1. PICK j \in 0 .. n : phase_starts'[p] = Total(j)[2]
      <4>1. \A q \in DOMAIN phase_starts : \E j \in 0 .. n : phase_starts[q] = Total(j)[2]
        BY <1>0, <2>1 DEF RecordedInv
      <4>2. CASE phase_starts' = phase_starts
        BY <4>1, <4>2
      <4>3. CASE phase_starts' = Put(phase_starts, cur_phase', cur_op)
        <5>1. /\ p \in DOMAIN phase_starts \cup {cur_phase'}
              /\ phase_starts'[p] = IF p = cur_phase' THEN cur_op ELSE phase_starts[p]
          BY <4>3 DEF Put
        <5>2. n \in 0 .. n
          OBVIOUS
        <5> QED
          BY <5>1, <5>2, <4>1, <2>2
      <4> QED
        BY <4>2, <4>3, <1>1
    <3>2. j \in 0 .. n + 1
      OBVIOUS
    <3> QED
      BY <3>1, <3>2, <2>3
  <2>16. measure'.data = measured'
    BY <1>1, <2>1 DEF RecordedInv
  <2>17. RecordedInv'
    <3>1. ReportCount' - 1 = n /\ ReportCount' = n + 1
      BY <1>4
    <3>2. GrowingTrace(elapsed)'
      BY <2>14 DEF GrowingTrace
    <3> QED
      BY <3>1, <3>2, <2>10, <2>11, <2>13, <2>15, <2>16 DEF RecordedInv
  <2> QED
    BY <2>8, <2>17
<1> QED
  BY <1>5, <1>6, <1>7, <1>8 DEF TraceInv, JoinedInv

\* What the totals depend on.
LEMMA TotalsKept ==
    ASSUME TraceInv, UNCHANGED <<program, parser>>
    PROVE  /\ ReportCount' = ReportCount /\ \A j : Total(j)' = Total(j)
           /\ PhaseInv' /\ (TotalsInv => TotalsInv')
<1>1. ReportCount' = ReportCount /\ \A j : Total(j)' = Total(j)
  BY DEF program, ReportCount, Total
<1> QED
  BY <1>1 DEF program, parser, TraceInv, TotalsInv, PhaseInv

\* A measurement keeps the invariant.
LEMMA ReadMeasurementInv == ASSUME TraceInv, ReadMeasurement PROVE TraceInv'
<1>1. PICK v \in Values :
          /\ measure' = Stored(measure, MeasureKey, v)
          /\ measured' = LET total == IF history = <<>> THEN 0 ELSE history[Len(history)][2]
                         IN Put(measured, total, v)
  BY DEF ReadMeasurement
<1>2. stage = "parse" /\ UNCHANGED <<stage, program, parser, operation, elapsed>>
  BY DEF ReadMeasurement
<1>3. ReportCount' = ReportCount /\ (\A j : Total(j)' = Total(j)) /\ PhaseInv' /\ (TotalsInv => TotalsInv')
  BY <1>2, TotalsKept
<1>4. ParserTypes'
  BY <1>2 DEF TraceInv, ParserTypes, program, parser
<1>5. v \in Int /\ cur_op \in Nat
  BY TraceConstants DEF TraceInv, ParserTypes
<1>6. GoodTrace(measure) /\ measure.keys = <<>>
  BY <1>2 DEF TraceInv, StoredInv
<1>7. GoodTrace(measure') /\ measure'.keys = <<>> /\ measure'.data = Put(measure.data, cur_op, v)
  BY <1>1, <1>5, <1>6, StoredGood DEF MeasureKey
<1>8. StoredInv'
  BY <1>2, <1>7 DEF TraceInv, StoredInv
<1>9. ASSUME ~merged' PROVE TotalsInv' /\ RecordedInv'
  <2>1. TotalsInv /\ RecordedInv
    BY <1>2, <1>9 DEF TraceInv, JoinedInv, program
  <2>2. history = <<>> <=> ReportCount = 0
    BY DEF TraceInv, ParserTypes, ReportCount
  <2>3. cur_op = IF history = <<>> THEN 0 ELSE history[Len(history)][2]
    BY <2>1, <2>2 DEF TotalsInv, Total, ReportCount
  <2>4. measure'.data = measured'
    BY <1>1, <1>7, <2>1, <2>3 DEF RecordedInv
  <2> QED
    BY <1>2, <1>3, <2>1, <2>4 DEF RecordedInv, GrowingTrace, parser
<1> QED
  BY <1>3, <1>4, <1>8, <1>9 DEF TraceInv, JoinedInv

\* The end of the parse keeps the invariant, and so does a step that changes nothing.
LEMMA FinishParseInv == ASSUME TraceInv, FinishParse \/ UNCHANGED traceVars PROVE TraceInv'
<1>1. UNCHANGED <<program, parser>> /\ UNCHANGED traces /\ stage' \in {stage, "skipped", "plot"}
  BY DEF FinishParse, traceVars
<1>2. ReportCount' = ReportCount /\ (\A j : Total(j)' = Total(j)) /\ PhaseInv' /\ (TotalsInv => TotalsInv')
  BY <1>1, TotalsKept
<1>3. ParserTypes' /\ StoredInv'
  BY <1>1 DEF TraceInv, ParserTypes, StoredInv, program, parser, traces
<1>4. RecordedInv => RecordedInv'
  BY <1>1, <1>2 DEF RecordedInv, GrowingTrace, parser, traces
<1> QED
  BY <1>1, <1>2, <1>3, <1>4 DEF TraceInv, JoinedInv, program

\* A lookup of the plots keeps the invariant.
LEMMA QueryInv == ASSUME TraceInv, Query PROVE TraceInv'
<1>1. stage = "plot" /\ UNCHANGED <<stage, program, parser, measured>>
  BY DEF Query, MayQuery
<1>2. ReportCount' = ReportCount /\ (\A j : Total(j)' = Total(j)) /\ PhaseInv' /\ (TotalsInv => TotalsInv')
  BY <1>1, TotalsKept
<1>3. ParserTypes'
  BY <1>1 DEF TraceInv, ParserTypes, program, parser
<1>4. GoodTrace(operation) /\ GoodTrace(elapsed) /\ GoodTrace(measure)
  BY DEF TraceInv, StoredInv
<1>5. /\ GoodTrace(operation') /\ GoodTrace(elapsed') /\ GoodTrace(measure')
      /\ operation'.data = operation.data /\ elapsed'.data = elapsed.data /\ measure'.data = measure.data
  BY <1>4, QueriedGood DEF Query
<1>6. StoredInv'
  BY <1>1, <1>5 DEF TraceInv, StoredInv
<1>7. RecordedInv => RecordedInv'
  BY <1>1, <1>2, <1>5 DEF RecordedInv, GrowingTrace, parser
<1> QED
  BY <1>1, <1>2, <1>3, <1>6, <1>7 DEF TraceInv, JoinedInv, program

\* Every step keeps the invariant.
LEMMA TraceNextInv == TraceInv /\ [TraceNext]_traceVars => TraceInv'
  BY ReadProgressInv, ReadMeasurementInv, FinishParseInv, QueryInv DEF TraceNext

(***************************************************************************)
(* __getitem__ finds the value on the line between the nearest operation   *)
(* counts in every trace, whenever the plots ask and whatever was          *)
(* reported: the keys cached by sortedKeys are never out of date.          *)
(***************************************************************************)
THEOREM LookupsAlwaysSound == TraceSpec => []LookupSound
<1>1. TraceInv => LookupSound
  <2> SUFFICES ASSUME TraceInv, NEW trace \in {operation, elapsed, measure},
                      NEW opn \in DOMAIN operation.data, NEW op \in opn - Window .. opn + 1
               PROVE  Lookup(trace, op) =
                          IF op \in DOMAIN trace.data THEN Exact(trace.data[op])
                          ELSE IF Below(trace, op) = {} \/ Above(trace, op) = {} THEN NoValue
                          ELSE LET l == Max(Below(trace, op))
                                   r == Min(Above(trace, op))
                               IN Between(l, r, trace.data[l], trace.data[r], op)
    BY DEF LookupSound
  <2>1. GoodTrace(trace) /\ GoodTrace(operation)
    BY DEF TraceInv, StoredInv
  <2>2. op \in Int
    <3>1. opn - Window \in Int /\ opn + 1 \in Int
      BY <2>1, TraceConstants DEF GoodTrace
    <3> QED
      BY <3>1
  <2>3. CASE op \in DOMAIN trace.data
    BY <2>3, LookupExact
  <2>4. CASE op \notin DOMAIN trace.data /\ (Below(trace, op) = {} \/ Above(trace, op) = {})
    BY <2>1, <2>2, <2>4, LookupOutside
  <2>5. CASE op \notin DOMAIN trace.data /\ Below(trace, op) # {} /\ Above(trace, op) # {}
    BY <2>1, <2>2, <2>5, LookupBetween
  <2> QED
    BY <2>3, <2>4, <2>5
<1> QED
  BY <1>1, TraceInitInv, TraceNextInv, PTL DEF TraceSpec

(***************************************************************************)
(* The phases of a benchmark, each of which counts time and operations     *)
(* from zero, become one run until one comes after another of its name:    *)
(* times do not go back as the operation counts grow, a rate is never      *)
(* negative, and measurements are found under the totals.  Reports may     *)
(* come at one time, and the first of a phase at no operations.            *)
(***************************************************************************)
THEOREM PhasesAlwaysJoined == TraceSpec => []PhasesJoined
<1>1. TraceInv => PhasesJoined
  <2> SUFFICES ASSUME TraceInv, ~merged PROVE TimeGrows /\ MeasuredAtTotal
    BY DEF PhasesJoined
  <2>0. TotalsInv /\ RecordedInv
    BY DEF TraceInv, JoinedInv
  <2>1. GrowingTrace(elapsed) /\ GoodTrace(elapsed) /\ GoodTrace(operation)
    BY <2>0 DEF TraceInv, StoredInv, RecordedInv
  <2>2. ASSUME NEW op \in DOMAIN operation.data, Throughput(op) # NoValue
        PROVE  Throughput(op).time.num > 0 /\ Throughput(op).ops.num > 0
    <3> DEFINE start == op - Window
    <3>1. /\ op \in Int /\ start \in Int /\ start < op /\ WindowStart(op) = start
          /\ Window \in Int /\ Window > 0 /\ op - start = Window
      BY <2>1, TraceConstants DEF GoodTrace, WindowStart
    <3>2. /\ Lookup(operation, op) # NoValue /\ Lookup(operation, start) # NoValue
          /\ Lookup(elapsed, op) # NoValue /\ Lookup(elapsed, start) # NoValue
          /\ Throughput(op) = [ops |-> Minus(Lookup(operation, op), Lookup(operation, start)),
                               time |-> Minus(Lookup(elapsed, op), Lookup(elapsed, start))]
          /\ Minus(Lookup(elapsed, op), Lookup(elapsed, start)).num # 0
      BY <2>2, <3>1 DEF Throughput
    <3> HIDE DEF start
    <3>3. Minus(Lookup(operation, op), Lookup(operation, start)).num > 0
      <4>1. \A k \in DOMAIN operation.data : operation.data[k] = k + 0
        BY <2>1 DEF TraceInv, StoredInv, GoodTrace
      <4>2. /\ Lookup(operation, op) \in Fraction /\ Lookup(operation, op).num = (op + 0) * Lookup(operation, op).den
            /\ Lookup(operation, start) \in Fraction
            /\ Lookup(operation, start).num = (start + 0) * Lookup(operation, start).den
        BY <2>1, <3>1, <3>2, <4>1, LookupLinear
      <4> DEFINE ops == Minus(Lookup(operation, op), Lookup(operation, start))
      <4>3. op + 0 \in Int /\ start + 0 \in Int /\ (op + 0) - (start + 0) = Window
        BY <3>1
      <4>4. ops.den \in Int /\ ops.num = Window * ops.den
        BY <4>2, <4>3, MinusWhole
      <4>5. ops.den > 0
        BY <4>2, Product DEF Minus, Fraction
      <4> HIDE DEF ops
      <4>6. ops.num > 0
        BY <3>1, <4>4, <4>5, Product
      <4> QED
        BY <4>6 DEF ops
    <3>4. Minus(Lookup(elapsed, op), Lookup(elapsed, start)).num \in Nat
      BY <2>1, <3>1, <3>2, LookupGrows
    <3> QED
      BY <3>2, <3>3, <3>4
  <2>3. TimeGrows
    BY <2>1, <2>2 DEF TimeGrows, GrowingTrace
  <2>4. measure.data = measured
    BY <2>0 DEF RecordedInv
  <2>5. ASSUME NEW p \in DOMAIN phase_starts
        PROVE  phase_starts[p] \in {0} \cup {history[j][2] : j \in DOMAIN history}
    <3>1. PICK j \in 0 .. ReportCount : phase_starts[p] = Total(j)[2]
      BY <2>0 DEF RecordedInv
    <3>2. DOMAIN history = 1 .. ReportCount /\ ReportCount \in Nat
      BY DEF TraceInv, ParserTypes, ReportCount
    <3>3. CASE j = 0
      BY <3>1, <3>3 DEF Total
    <3>4. CASE j # 0
      <4>1. j \in DOMAIN history
        BY <3>2, <3>4
      <4> QED
        BY <3>1, <3>4, <4>1 DEF Total
    <3> QED
      BY <3>3, <3>4
  <2>6. MeasuredAtTotal
    BY <2>4, <2>5 DEF MeasuredAtTotal
  <2> QED
    BY <2>3, <2>6
<1> QED
  BY <1>1, TraceInitInv, TraceNextInv, PTL DEF TraceSpec

(***************************************************************************)
(* A program that works at a constant rate and reports at equal times is   *)
(* plotted at that rate, although process_elapsed stores a time under the  *)
(* operation count of the report before, until a phase comes after one of  *)
(* the same name.                                                          *)
(***************************************************************************)
THEOREM EvenReportsAlwaysShown == TraceSpec => []EvenReportsShown
<1>1. TraceInv => EvenReportsShown
  <2> SUFFICES ASSUME TraceInv, ~merged, \A i \in DOMAIN history : Rate(i) /\ history[i][1] = i * history[1][1],
                      NEW op \in DOMAIN operation.data, Throughput(op) # NoValue
               PROVE  LET rate == Throughput(op)
                      IN rate.ops.num * rate.time.den = rate.time.num * rate.ops.den
    BY DEF EvenReportsShown
  <2> DEFINE n == ReportCount
             d == history[1][1]
             start == op - Window
  <2>1. GoodTrace(elapsed) /\ GoodTrace(operation) /\ \A k \in DOMAIN operation.data : operation.data[k] = k
    BY DEF TraceInv, StoredInv
  <2>2. op \in Int /\ Window \in Int /\ start \in Int /\ WindowStart(op) = start
    BY <2>1, TraceConstants DEF GoodTrace, WindowStart
  <2>3. /\ Lookup(operation, op) # NoValue /\ Lookup(operation, start) # NoValue
        /\ Lookup(elapsed, op) # NoValue /\ Lookup(elapsed, start) # NoValue
        /\ Throughput(op) = [ops |-> Minus(Lookup(operation, op), Lookup(operation, start)),
                             time |-> Minus(Lookup(elapsed, op), Lookup(elapsed, start))]
    BY <2>2 DEF Throughput
  <2>4. /\ DOMAIN elapsed.data = {Total(j)[2] : j \in 0 .. n - 1}
        /\ \A j \in 1 .. n : Total(j)[2] # Total(j - 1)[2] => elapsed.data[Total(j - 1)[2]] = Total(j)[1]
    BY DEF TraceInv, JoinedInv, RecordedInv
  <2>5. n \in Nat /\ DOMAIN history = 1 .. n /\ \A j \in 0 .. n : Total(j)[1] \in Nat /\ Total(j)[2] \in Nat
    BY TotalsAre DEF TraceInv, ParserTypes, ReportCount
  <2>6. n > 0
    <3>1. DOMAIN elapsed.data # {}
      <4>1. op \in DOMAIN elapsed.data \/ (Below(elapsed, op) # {} /\ Above(elapsed, op) # {})
        BY <2>1, <2>2, <2>3, LookupInside
      <4> QED
        BY <4>1 DEF Below
    <3> QED
      BY <3>1, <2>4, <2>5
  <2>7. d \in Int
    <3>1. 1 \in 0 .. n /\ Total(1) = history[1]
      BY <2>5, <2>6 DEF Total
    <3> QED
      BY <3>1, <2>5
  <2>8. ASSUME NEW j \in 0 .. n PROVE Total(j)[1] = j * d /\ Total(j)[2] = j * d
    <3>1. CASE j = 0
      <4>1. 0 * d = 0
        BY <2>7
      <4> QED
        BY <3>1, <4>1 DEF Total
    <3>2. CASE j # 0
      <4>1. j \in DOMAIN history
        BY <3>2, <2>5
      <4>2. history[j][1] = j * d /\ history[j][2] = history[j][1]
        BY <4>1 DEF Rate
      <4> QED
        BY <3>2, <4>2 DEF Total
    <3> QED
      BY <3>1, <3>2
  <2> HIDE DEF d, n, start
  <2>17. d # 0
    <3> SUFFICES ASSUME d = 0 PROVE FALSE
      OBVIOUS
    <3>1. \A j \in Int : j * 0 = 0
      OBVIOUS
    <3>2. ASSUME NEW k \in DOMAIN elapsed.data PROVE k = 0
      <4>1. PICK j \in 0 .. n - 1 : k = Total(j)[2]
        BY <2>4
      <4>2. j \in 0 .. n /\ j \in Int
        BY <2>5
      <4> QED
        BY <4>1, <4>2, <3>1, <2>8
    <3>3. ASSUME NEW x \in Int, Lookup(elapsed, x) # NoValue PROVE x = 0
      <4>1. x \in DOMAIN elapsed.data \/ (Below(elapsed, x) # {} /\ Above(elapsed, x) # {})
        BY <3>3, <2>1, LookupInside
      <4>2. CASE Below(elapsed, x) # {} /\ Above(elapsed, x) # {}
        BY <4>2, <3>2 DEF Below, Above
      <4> QED
        BY <4>1, <4>2, <3>2
    <3> QED
      BY <3>3, <2>2, <2>3, TraceConstants DEF start
  <2>9. ASSUME NEW k \in DOMAIN elapsed.data PROVE elapsed.data[k] = k + d
    <3>1. PICK j \in 0 .. n - 1 : k = Total(j)[2]
      BY <2>4
    <3>2. j \in 0 .. n /\ j + 1 \in 0 .. n /\ j + 1 \in 1 .. n /\ (j + 1) - 1 = j
      BY <2>5
    <3>3. (j + 1) * d = j * d + d /\ j * d \in Int /\ (j + 1) * d # j * d
      BY <3>2, <2>7, <2>17
    <3>4. Total(j + 1)[1] = (j + 1) * d /\ Total(j + 1)[2] = (j + 1) * d /\ Total(j)[2] = j * d
      BY <3>2, <2>8
    <3>5. elapsed.data[Total((j + 1) - 1)[2]] = Total(j + 1)[1]
      BY <3>2, <3>3, <3>4, <2>4
    <3> QED
      BY <3>1, <3>2, <3>3, <3>4, <3>5
  <2>10. /\ Lookup(elapsed, op) \in Fraction /\ Lookup(elapsed, op).num = (op + d) * Lookup(elapsed, op).den
         /\ Lookup(elapsed, start) \in Fraction /\ Lookup(elapsed, start).num = (start + d) * Lookup(elapsed, start).den
    BY <2>1, <2>2, <2>3, <2>7, <2>9, LookupLinear
  <2>11. /\ Lookup(operation, op) \in Fraction /\ Lookup(operation, op).num = (op + 0) * Lookup(operation, op).den
         /\ Lookup(operation, start) \in Fraction /\ Lookup(operation, start).num = (start + 0) * Lookup(operation, start).den
    <3>1. \A k \in DOMAIN operation.data : operation.data[k] = k + 0
      BY <2>1 DEF GoodTrace
    <3> QED
      BY <2>1, <2>2, <2>3, <3>1, LookupLinear
  <2> DEFINE ops == Minus(Lookup(operation, op), Lookup(operation, start))
             time == Minus(Lookup(elapsed, op), Lookup(elapsed, start))
  <2>12. ops.den \in Int /\ ops.num = ((op + 0) - (start + 0)) * ops.den
    <3>1. op + 0 \in Int /\ start + 0 \in Int
      BY <2>2
    <3> QED
      BY <2>11, <3>1, MinusWhole
  <2>13. time.den \in Int /\ time.num = ((op + d) - (start + d)) * time.den
    <3>1. op + d \in Int /\ start + d \in Int
      BY <2>2, <2>7
    <3> QED
      BY <2>10, <3>1, MinusWhole
  <2>14. (op + 0) - (start + 0) = Window /\ (op + d) - (start + d) = Window
    BY <2>2, <2>7 DEF start
  <2>15. Throughput(op).ops = ops /\ Throughput(op).time = time
    BY <2>3
  <2> HIDE DEF ops, time
  <2>16. (Window * ops.den) * time.den = (Window * time.den) * ops.den
    BY <2>2, <2>12, <2>13, ProductSwap
  <2> QED
    BY <2>12, <2>13, <2>14, <2>15, <2>16
<1> QED
  BY <1>1, TraceInitInv, TraceNextInv, PTL DEF TraceSpec
=============================================================================
