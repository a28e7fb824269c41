----------------------------- MODULE BlockCache -----------------------------
(***************************************************************************)
(* The machine's side of the tree: a cache of nodes over the disk, and     *)
(* three indirection tables that say where the nodes of the persistent,    *)
(* the frozen and the ephemeral tree are.  Nodes are never overwritten in  *)
(* place: a changed node loses its location and gets a new one when it is  *)
(* written back.  An operation that talks to the disk has what it sends or *)
(* receives as parameters.                                                 *)
(***************************************************************************)
EXTENDS BlockDisk

VARIABLE machine

Unready == machine.phase = "Unready"
Loading == machine.phase = "LoadingIndirectionTable"
Ready == machine.phase = "Ready"

\* The machine as it starts, the first time and after every crash.
StartState == [phase |-> "Unready"]

MInit == machine = StartState

-----------------------------------------------------------------------------
(***************************************************************************)
(* Indirection tables.                                                     *)
(***************************************************************************)
Refs(table) == {r \in Ref : table.graph[r] # None}
Placed(table) == {r \in Ref : table.locs[r] # None}

GraphClosed(table) == \A r \in Refs(table) : table.graph[r] \subseteq Refs(table)

WFCompleteIndirectionTable(table) ==
    /\ Refs(table) = Placed(table)
    /\ Root \in Refs(table)
    /\ GraphClosed(table)

AllLocationsForDifferentRefsDontOverlap(table) ==
    \A r, s \in Placed(table) : table.locs[r] = table.locs[s] => r = s

\* A location is entered only for a node that is still without one.
AssignRefToLocation(table, r, loc) ==
    IF r \in Refs(table) \ Placed(table) THEN [table EXCEPT !.locs[r] = loc] ELSE table

\* A node that a frozen tree contains must have been written for it before it
\* is changed, dropped or deallocated.
FrozenHas(r) ==
    machine.frozen # None /\ r \in Refs(machine.frozen) => r \in Placed(machine.frozen)

LocsOf(table) == {table.locs[r] : r \in Placed(table)}

\* Faulty variant: takes a place that an earlier write is still under way to.
ValidAllocation_NotWritten(loc) ==
    /\ loc \notin LocsOf(machine.persistent) \cup LocsOf(machine.ephemeral)
    /\ machine.frozen # None => loc \notin LocsOf(machine.frozen)

\* The places a node may be written to.
ValidAllocation(loc) ==
    /\ loc \notin LocsOf(machine.persistent) \cup LocsOf(machine.ephemeral)
    /\ machine.frozen # None => loc \notin LocsOf(machine.frozen)
    /\ \A id \in ReqId : machine.blockWrites[id] # None => machine.blockWrites[id].loc # loc

-----------------------------------------------------------------------------
(***************************************************************************)
(* Start-up.                                                               *)
(***************************************************************************)
ReceiveLoc(loc) ==
    /\ Unready
    /\ machine' = [phase |-> "LoadingIndirectionTable", loc |-> loc, read |-> None]

PageInIndirectionTableReq(id, loc) ==
    /\ Loading
    /\ machine.read = None
    /\ loc = machine.loc
    /\ machine' = [machine EXCEPT !.read = id]

PageInIndirectionTableResp(id, table) ==
    /\ Loading
    /\ table # None
    /\ WFCompleteIndirectionTable(table)
    /\ AllLocationsForDifferentRefsDontOverlap(table)
    /\ machine.read = id
    /\ machine' = [phase         |-> "Ready",
                   persistent    |-> table,
                   frozen        |-> None,
                   ephemeral     |-> table,
                   persistentLoc |-> machine.loc,
                   frozenLoc     |-> NoLoc,
                   tableWrite    |-> None,
                   blockWrites   |-> NoRequests,
                   blockReads    |-> NoRequests,
                   cache         |-> [r \in Ref |-> None]]

-----------------------------------------------------------------------------
(***************************************************************************)
(* Nodes between the cache and the disk.                                   *)
(***************************************************************************)
WriteBackNodeReq(id, r, loc, node) ==
    /\ Ready
    /\ machine.cache[r] # None
    /\ node = machine.cache[r]
    /\ machine.tableWrite = None
    /\ ValidAllocation(loc)
    /\ machine' = [machine EXCEPT
                     !.ephemeral = AssignRefToLocation(@, r, loc),
                     !.frozen = IF @ = None THEN None ELSE AssignRefToLocation(@, r, loc),
                     !.blockWrites[id] = [ref |-> r, loc |-> loc]]

WriteBackNodeResp(id) ==
    /\ Ready
    /\ machine.blockWrites[id] # None
    /\ machine' = [machine EXCEPT !.blockWrites[id] = None]

PageInNodeReq(id, r, loc) ==
    /\ Ready
    /\ r \in Refs(machine.ephemeral) \cap Placed(machine.ephemeral)
    /\ machine.cache[r] = None
    /\ loc = machine.ephemeral.locs[r]
    /\ \A i \in ReqId : machine.blockReads[i] # r
    /\ machine' = [machine EXCEPT !.blockReads[id] = r]

PageInNodeResp(id, node) ==
    /\ Ready
    /\ machine.blockReads[id] # None
    /\ LET r == machine.blockReads[id]
       IN  /\ machine.cache[r] = None
           /\ node # None
           /\ r \in Refs(machine.ephemeral)
           /\ machine.ephemeral.graph[r] = Successors(node)
           /\ machine' = [machine EXCEPT !.cache[r] = node, !.blockReads[id] = None]

\* Faulty variant: does not wait for the write that puts the node on disk.
MayEvict_Early(r) ==
    /\ r \in Refs(machine.ephemeral) => r \in Placed(machine.ephemeral)
    /\ FrozenHas(r)

MayEvict(r) ==
    /\ r \in Refs(machine.ephemeral) =>
          /\ r \in Placed(machine.ephemeral)
          /\ \A id \in ReqId :
                machine.blockWrites[id] # [ref |-> r, loc |-> machine.ephemeral.locs[r]]
    /\ FrozenHas(r)

Evict(r) ==
    /\ Ready
    /\ machine.cache[r] # None
    /\ MayEvict(r)
    /\ machine' = [machine EXCEPT !.cache[r] = None]

-----------------------------------------------------------------------------
(***************************************************************************)
(* Freezing the tree and making the frozen tree persistent.                *)
(***************************************************************************)
Freeze ==
    /\ Ready
    /\ machine.tableWrite = None
    /\ machine' = [machine EXCEPT !.frozen = machine.ephemeral, !.frozenLoc = NoLoc]

WriteBackIndirectionTableReq(id, loc, table) ==
    /\ Ready
    /\ machine.frozen # None
    /\ table = machine.frozen
    /\ Refs(machine.frozen) \subseteq Placed(machine.frozen)
    /\ machine.blockWrites = NoRequests
    /\ machine.frozenLoc = NoLoc
    /\ loc # machine.persistentLoc
    /\ machine' = [machine EXCEPT !.tableWrite = id, !.frozenLoc = loc]

WriteBackIndirectionTableResp(id) ==
    /\ Ready
    /\ machine.tableWrite = id
    /\ machine' = [machine EXCEPT !.tableWrite = None]

CleanUp ==
    /\ Ready
    /\ machine.tableWrite = None
    /\ machine.frozenLoc # NoLoc
    /\ machine.frozen # None
    /\ machine' = [machine EXCEPT !.persistent = machine.frozen,
                                  !.persistentLoc = machine.frozenLoc,
                                  !.frozen = None,
                                  !.frozenLoc = NoLoc]

-----------------------------------------------------------------------------
(***************************************************************************)
(* Changes to the tree.  A transaction is a list of allocations and writes *)
(* of which every one must be allowed; m is the machine, or None once one  *)
(* was not.                                                                *)
(***************************************************************************)
\* Faulty variant: looks at the root's children only.
NoPredecessors_Root(r) == r \notin machine.ephemeral.graph[Root]

NoPredecessors(r) ==
    \A p \in Refs(machine.ephemeral) : r \notin machine.ephemeral.graph[p]

Unalloc(r) ==
    /\ Ready
    /\ r \in Refs(machine.ephemeral) \ {Root}
    /\ NoPredecessors(r)
    /\ FrozenHas(r)
    /\ \A id \in ReqId : machine.blockReads[id] # r
    /\ machine' = [machine EXCEPT !.ephemeral.locs[r] = None,
                                  !.ephemeral.graph[r] = None,
                                  !.cache[r] = None]

Dirtied(m, op) ==
    [m EXCEPT !.cache[op.ref] = op.node,
              !.ephemeral.locs[op.ref] = None,
              !.ephemeral.graph[op.ref] = Successors(op.node)]

\* (FrozenHas looks at the machine before the transaction: no operation of a
\* transaction changes the frozen table.)
MayDirty(m, op) ==
    /\ op.ref \in Refs(m.ephemeral)
    /\ m.cache[op.ref] # None
    /\ FrozenHas(op.ref)

MayAlloc(m, op) == op.ref \notin Refs(m.ephemeral) /\ m.cache[op.ref] = None

OpStep(m, op) ==
    IF /\ m # None
       /\ Successors(op.node) \subseteq Refs(m.ephemeral)
       /\ IF op.type = "AllocOp" THEN MayAlloc(m, op) ELSE MayDirty(m, op)
    THEN Dirtied(m, op)
    ELSE None

OpTransaction(m, ops) ==
    LET path[n \in 0..Len(ops)] == IF n = 0 THEN m ELSE OpStep(path[n-1], ops[n])
    IN  path[Len(ops)]

\* The nodes a step of the tree can read: allocated, and in the cache.
Readable == [r \in Ref |-> IF r \in Refs(machine.ephemeral) THEN machine.cache[r] ELSE None]

BetreeMove(t) ==
    /\ OpTransaction(machine, t.ops) # None
    /\ machine' = OpTransaction(machine, t.ops)
=============================================================================
