----------------------------- MODULE BetreeSpec -----------------------------
(***************************************************************************)
(* The nodes of a B-epsilon-tree and the operations on it, each written as *)
(* the nodes it has to read and the list of node allocations and writes it *)
(* makes as one transaction.  A partial map from references to nodes       *)
(* ("nodes" below: a whole tree, or the part of it a cache holds) is a     *)
(* function that is None where there is no node.                           *)
(***************************************************************************)
EXTENDS ViewOp, FiniteSets

SeqExt == INSTANCE SequencesExt

CONSTANTS
    Ref,   \* references, the names of nodes
    Root,  \* the reference of the root
    None

ASSUME RootAssumption == Root \in Ref /\ None \notin Ref
\* Keys are at most so many bytes long (KeyType), references are 64-bit numbers.
ASSUME FiniteAssumption == IsFiniteSet(Key) /\ IsFiniteSet(Ref)

-----------------------------------------------------------------------------
(***************************************************************************)
(* Messages.  The only delta of ValueMessage is the one that changes       *)
(* nothing, so Update carries no value.                                    *)
(***************************************************************************)
Define(v) == [type |-> "Define", value |-> v]
IdentityMessage == [type |-> "Update"]
Message == {Define(v) : v \in Value} \cup {IdentityMessage}

Defines(msg) == msg.type = "Define"

Merge(new, old) == IF Defines(new) THEN new ELSE old

-----------------------------------------------------------------------------
Node == [children : [Key -> Ref \cup {None}], buffer : [Key -> Message]]

Successors(node) == {node.children[k] : k \in Key} \ {None}

EmptyNode == [children |-> [k \in Key |-> None],
              buffer   |-> [k \in Key |-> Define(EmptyValue)]]

\* A key without a child must be decided by the node itself.
WFNode(node) == \A k \in Key : node.children[k] = None => Defines(node.buffer[k])

NodesIn(nodes) == {r \in Ref : nodes[r] # None}

-----------------------------------------------------------------------------
(***************************************************************************)
(* Lookups: the paths of readable, well-formed nodes from the root, and    *)
(* what the messages on such a path make of a key.  A path is no longer    *)
(* than there are nodes; one with a cycle finds nothing else.              *)
(***************************************************************************)
Lookups(nodes) ==
    LET wf == {r \in NodesIn(nodes) : WFNode(nodes[r])}
        paths[n \in 1..Cardinality(Ref)] ==
          IF n = 1 THEN {<<Root>>} \cap [1..1 -> wf]
          ELSE UNION {{Append(p, r) : r \in Successors(nodes[p[n-1]]) \cap wf} : p \in paths[n-1]}
    IN  UNION {paths[n] : n \in 1..Cardinality(Ref)}

FollowsChildRefs(nodes, p, k) ==
    \A i \in 1..(Len(p) - 1) : nodes[p[i]].children[k] = p[i + 1]

InterpretLookup(nodes, p, k) ==
    LET msg[n \in 0..Len(p)] ==
          IF n = 0 THEN IdentityMessage ELSE Merge(msg[n-1], nodes[p[n]].buffer[k])
    IN  msg[Len(p)]

\* The values that some lookup gives a key: one, in a tree that can be used.
ValuesOf(nodes, k) ==
    {msg.value : msg \in {m \in {InterpretLookup(nodes, p, k) :
                                  p \in {q \in Lookups(nodes) : FollowsChildRefs(nodes, q, k)}} :
                            Defines(m)}}

KeyHasSatisfyingLookup(nodes, k) == ValuesOf(nodes, k) # {}

\* IView: the dictionary a tree stands for.
IView(nodes) == [k \in Key |-> CHOOSE v \in ValuesOf(nodes, k) : TRUE]

-----------------------------------------------------------------------------
(***************************************************************************)
(* What makes a graph of nodes a tree that can be used.                    *)
(***************************************************************************)
RefGraphIsClosed(nodes) == \A r \in NodesIn(nodes) : Successors(nodes[r]) \subseteq NodesIn(nodes)

\* The references that can be reached from those of R.
ReachableFrom(nodes, R) ==
    LET Below(r) == IF nodes[r] = None THEN {} ELSE Successors(nodes[r])
        reach[n \in 0..Cardinality(Ref)] ==
          IF n = 0 THEN R ELSE UNION {{r} \cup Below(r) : r \in reach[n-1]}
    IN  reach[Cardinality(Ref)]

IsAcyclic(nodes) ==
    \A r \in NodesIn(nodes) : r \notin ReachableFrom(nodes, Successors(nodes[r]))

BetreeInv(nodes) ==
    /\ RefGraphIsClosed(nodes)
    /\ IsAcyclic(nodes)
    /\ \A k \in Key : KeyHasSatisfyingLookup(nodes, k)
    /\ \A r \in NodesIn(nodes) : Root \notin Successors(nodes[r])

-----------------------------------------------------------------------------
(***************************************************************************)
(* The operations.  A transaction is [uiop, ops]: what the user sees of    *)
(* it, and the list of its allocations and writes.                         *)
(***************************************************************************)
AllocOp(r, node) == [type |-> "AllocOp", ref |-> r, node |-> node]
WriteOp(r, node) == [type |-> "WriteOp", ref |-> r, node |-> node]
Transaction(uiop, ops) == [uiop |-> uiop, ops |-> ops]

BetreeQuery(nodes) ==
    UNION {{Transaction(GetOp(k, v), << >>) : v \in ValuesOf(nodes, k)} : k \in Key}

\* One path must answer the query for every key of the range.
BetreeSuccQuery(nodes) ==
    LET KeysIn(r) == {k \in Key : InRange(r[1], k, r[2])}
        Answers(r) == {p \in Lookups(nodes) : \A k \in KeysIn(r) :
                         FollowsChildRefs(nodes, p, k) /\ Defines(InterpretLookup(nodes, p, k))}
        Found(p, r) == [k \in Key |-> IF k \in KeysIn(r) THEN InterpretLookup(nodes, p, k).value
                                      ELSE EmptyValue]
    IN  UNION {{Transaction(SuccOp(r[1], SuccResults(Found(p, r), r[1], r[2]), r[2]), << >>) :
                  p \in Answers(r)} :
               r \in {q \in Ranges : NonEmptyRange(q[1], q[2])}}

AddMessageToNode(node, k, msg) == [node EXCEPT !.buffer[k] = Merge(msg, @)]

BetreeInsert(nodes) ==
    IF nodes[Root] = None \/ ~WFNode(nodes[Root]) THEN {}
    ELSE {Transaction(PutOp(k, v), <<WriteOp(Root, AddMessageToNode(nodes[Root], k, Define(v)))>>) :
            k \in Key, v \in Value}

\* Faulty variant: the child's messages survive the newer ones of its parent.
FlushedChild_KeepsOld(parent, child, flushed) ==
    [child EXCEPT !.buffer = [k \in Key |-> IF k \in flushed
                                            THEN Merge(child.buffer[k], parent.buffer[k])
                                            ELSE child.buffer[k]]]

\* The child with the messages of the flushed keys moved into it.
FlushedChild(parent, child, flushed) ==
    [child EXCEPT !.buffer = [k \in Key |-> IF k \in flushed
                                            THEN Merge(parent.buffer[k], child.buffer[k])
                                            ELSE child.buffer[k]]]

FlushedParent(parent, newref, moved, flushed) ==
    [children |-> [k \in Key |-> IF k \in moved THEN newref ELSE parent.children[k]],
     buffer   |-> [k \in Key |-> IF k \in flushed THEN IdentityMessage ELSE parent.buffer[k]]]

\* The keys a flush redirects to the new child, and those among them whose
\* messages it moves.
FlushMoves(nodes, parent, child) ==
    {mf \in (SUBSET Key) \X (SUBSET Key) :
       /\ mf[2] \subseteq mf[1]
       /\ \A k \in mf[1] : nodes[parent].children[k] = child}

\* Moves the messages of some keys to a new copy of the child they lead to.
BetreeFlush(nodes) ==
    LET wf == {r \in NodesIn(nodes) : WFNode(nodes[r])}
    IN  UNION {{Transaction(NoOp,
                   <<AllocOp(newref, FlushedChild(nodes[parent], nodes[child], mf[2])),
                     WriteOp(parent, FlushedParent(nodes[parent], newref, mf[1], mf[2]))>>) :
                  newref \in Ref, mf \in FlushMoves(nodes, parent, child)} :
               parent, child \in wf}

\* A new, empty root above the old one.
BetreeGrow(nodes) ==
    IF nodes[Root] = None THEN {}
    ELSE {Transaction(NoOp, <<AllocOp(newref, nodes[Root]),
                              WriteOp(Root, [children |-> [k \in Key |-> newref],
                                             buffer   |-> [k \in Key |-> IdentityMessage]])>>) :
            newref \in Ref}

\* A new child that takes over the keys routed to it, with the messages and
\* the children the old one had for them, and nothing for the others.
RedirectedChild(nodes, parent, routed) ==
    [children |-> [k \in Key |-> IF k \in routed THEN nodes[parent.children[k]].children[k]
                                 ELSE None],
     buffer   |-> [k \in Key |-> IF k \in routed THEN nodes[parent.children[k]].buffer[k]
                                 ELSE Define(EmptyValue)]]

RedirectedParent(parent, route) ==
    [parent EXCEPT !.children = [k \in Key |-> IF k \in DOMAIN route THEN route[k] ELSE @[k]]]

\* Replaces the children that some keys lead to by new ones; splitting and
\* merging children, and moving pivots, are special cases.  route names the
\* new child of every key concerned.
RedirectOps(nodes, parent, route) ==
    LET RoutedTo(r) == {k \in DOMAIN route : route[k] = r}
        allocs == [r \in {route[k] : k \in DOMAIN route} |->
                     AllocOp(r, RedirectedChild(nodes, nodes[parent], RoutedTo(r)))]
    IN  SeqExt!SetToSeq({allocs[r] : r \in DOMAIN allocs})
          \o <<WriteOp(parent, RedirectedParent(nodes[parent], route))>>

BetreeRedirect(nodes) ==
    UNION {LET routable == {k \in Key : nodes[parent].children[k] \in NodesIn(nodes)}
           IN  {Transaction(NoOp, RedirectOps(nodes, parent, route)) :
                  route \in UNION {[keys -> Ref] : keys \in SUBSET routable \ {{}}}} :
           parent \in {r \in NodesIn(nodes) : \A s \in {r} \cup (Successors(nodes[r]) \cap NodesIn(nodes)) :
                                                 WFNode(nodes[s])}}

BetreeSteps(nodes) ==
    BetreeQuery(nodes) \cup BetreeSuccQuery(nodes) \cup BetreeInsert(nodes)
       \cup BetreeFlush(nodes) \cup BetreeGrow(nodes) \cup BetreeRedirect(nodes)
=============================================================================
