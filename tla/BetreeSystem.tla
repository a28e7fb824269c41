---------------------------- MODULE BetreeSystem ----------------------------
(***************************************************************************)
(* The tree in the cache, attached to the disk: an operation of the        *)
(* machine that sends or receives a disk request happens together with the *)
(* disk's side of it.  vop is the label of the last step, as in StatesView.*)
(***************************************************************************)
EXTENDS BlockCache

VARIABLE vop

vars == <<machine, dvars, vop>>

(***************************************************************************)
(* What the state means as a StatesView: the trees that the tables on disk *)
(* and in memory stand for.                                                *)
(***************************************************************************)
\* DiskCacheLookup: a node that has a location is what the disk holds there.
LookupNode(table, r) ==
    IF r \in Placed(table) THEN nodes[table.locs[r]] ELSE machine.cache[r]

DiskCacheGraph(table) ==
    [r \in Ref |-> IF r \in Refs(table) THEN LookupNode(table, r) ELSE None]

DiskGraph(table) ==
    [r \in Ref |-> IF r \in Refs(table) THEN nodes[table.locs[r]] ELSE None]

SuccessorsAgree(table, graph) ==
    \A r \in Refs(table) : graph[r] # None /\ table.graph[r] = Successors(graph[r])

\* The table at a location is complete and agrees with the nodes it names.
WFSuccs(loc) ==
    /\ tables[loc] # None
    /\ WFCompleteIndirectionTable(tables[loc])
    /\ SuccessorsAgree(tables[loc], DiskGraph(tables[loc]))

\* The dictionary that a graph of nodes stands for, if it is a tree.  (The one
\* member of a set of one, so that TLC computes the graph once.)
Interp(graph) ==
    CHOOSE d \in {IF BetreeInv(g) THEN IView(g) ELSE NoState : g \in {graph}} : TRUE

DiskState == [loc \in Loc |-> IF WFSuccs(loc) THEN Interp(DiskGraph(tables[loc])) ELSE NoState]

PersistentLoc ==
    CASE Ready -> machine.persistentLoc
      [] Loading -> machine.loc
      [] Unready -> NoLoc

FrozenLoc == IF Ready /\ machine.tableWrite = None THEN machine.frozenLoc ELSE NoLoc

FrozenState ==
    IF Ready /\ machine.frozen # None THEN Interp(DiskCacheGraph(machine.frozen)) ELSE NoState

EphemeralState ==
    CASE Ready -> Interp(DiskCacheGraph(machine.ephemeral))
      [] Loading -> DiskState[machine.loc]
      [] Unready -> NoState

-----------------------------------------------------------------------------
\* A disk with one table that names a root without children, as mkfs leaves it.
InitWithLoc(loc) ==
    /\ MInit
    /\ reqReadTables = NoRequests
    /\ reqReadNodes = NoRequests
    /\ reqWriteTables = NoRequests
    /\ reqWriteNodes = NoRequests
    /\ \E place \in NodeLoc :
          /\ nodes = [l \in NodeLoc |-> IF l = place THEN EmptyNode ELSE None]
          /\ tables = [l \in Loc |-> IF l # loc THEN None
                                     ELSE [locs  |-> [r \in Ref |-> IF r = Root THEN place ELSE None],
                                           graph |-> [r \in Ref |-> IF r = Root THEN {} ELSE None]]]
    /\ vop = JournalInternalOp

Init == \E loc \in Loc : InitWithLoc(loc)

\* The journal's side knows which table to load; all this side relies on is
\* that it leads to a tree.
ReceiveLocStep ==
    /\ \E loc \in Loc :
          /\ DiskState[loc] # NoState
          /\ ReceiveLoc(loc)
          /\ vop' = SendPersistentLocOp(loc)
    /\ UNCHANGED dvars

PageInIndirectionTableReqStep ==
    /\ \E id \in ReqId, loc \in Loc : PageInIndirectionTableReq(id, loc) /\ RecvReadTable(id, loc)
    /\ vop' = StatesInternalOp

PageInIndirectionTableRespStep ==
    /\ \E id \in ReqId : \E table \in {tables[l] : l \in Loc} :
          PageInIndirectionTableResp(id, table) /\ AckReadTable(id, table)
    /\ vop' = StatesInternalOp

WriteBackNodeReqStep ==
    /\ Ready
    /\ \E id \in ReqId, r \in Ref, loc \in NodeLoc :
          /\ WriteBackNodeReq(id, r, loc, machine.cache[r])
          /\ RecvWriteNode(id, loc, machine.cache[r])
    /\ vop' = StatesInternalOp

WriteBackNodeRespStep ==
    /\ \E id \in ReqId : WriteBackNodeResp(id) /\ AckWriteNode(id)
    /\ vop' = StatesInternalOp

PageInNodeReqStep ==
    /\ \E id \in ReqId, r \in Ref, loc \in NodeLoc :
          PageInNodeReq(id, r, loc) /\ RecvReadNode(id, loc)
    /\ vop' = StatesInternalOp

\* BetreeCache adds that what is read is a well-formed node.
PageInNodeRespStep ==
    /\ \E id \in ReqId : \E node \in {nodes[l] : l \in NodeLoc} \ {None} :
          WFNode(node) /\ PageInNodeResp(id, node) /\ AckReadNode(id, node)
    /\ vop' = StatesInternalOp

EvictStep ==
    (\E r \in Ref : Evict(r)) /\ vop' = StatesInternalOp /\ UNCHANGED dvars

FreezeStep == Freeze /\ vop' = FreezeOp /\ UNCHANGED dvars

WriteBackIndirectionTableReqStep ==
    /\ Ready
    /\ \E id \in ReqId, loc \in Loc :
          /\ WriteBackIndirectionTableReq(id, loc, machine.frozen)
          /\ RecvWriteTable(id, loc, machine.frozen)
    /\ vop' = StatesInternalOp

WriteBackIndirectionTableRespStep ==
    \E id \in ReqId :
       /\ WriteBackIndirectionTableResp(id)
       /\ AckWriteTable(id)
       /\ vop' = SendFrozenLocOp(machine.frozenLoc)

CleanUpStep == CleanUp /\ vop' = CleanUpOp /\ UNCHANGED dvars

\* This side does not know whether the journal is being replayed.
AdvanceLabel(op) == \E replay \in BOOLEAN : vop' = AdvanceOp(op, replay)

UnallocStep == (\E r \in Ref : Unalloc(r)) /\ AdvanceLabel(NoOp) /\ UNCHANGED dvars

BetreeMoveStep(steps) ==
    /\ \E t \in steps : BetreeMove(t) /\ AdvanceLabel(t.uiop)
    /\ UNCHANGED dvars

\* The journal's side works, or the machine ignores a response to a read.  (It
\* may also ignore responses to writes it has no record of: there are none, see
\* WritesAvoidTrees.)
NoOpStep ==
    /\ UNCHANGED machine
    /\ vop' \in {StatesInternalOp, JournalInternalOp}
                \cup {PushSyncVOp(id) : id \in SyncId} \cup {PopSyncVOp(id) : id \in SyncId}
    /\ \/ UNCHANGED dvars
       \/ \E id \in ReqId : AckReadTable(id, None) \/ AckReadNode(id, None)

Crash == machine' = StartState /\ DCrash /\ vop' = CrashVOp

Next ==
    \/ ReceiveLocStep
    \/ PageInIndirectionTableReqStep
    \/ PageInIndirectionTableRespStep
    \/ WriteBackNodeReqStep
    \/ WriteBackNodeRespStep
    \/ PageInNodeReqStep
    \/ PageInNodeRespStep
    \/ EvictStep
    \/ FreezeStep
    \/ WriteBackIndirectionTableReqStep
    \/ WriteBackIndirectionTableRespStep
    \/ CleanUpStep
    \/ UnallocStep
    \/ Ready /\ BetreeMoveStep(BetreeInsert(Readable))
    \/ Ready /\ BetreeMoveStep(BetreeFlush(Readable))
    \/ Ready /\ BetreeMoveStep(BetreeGrow(Readable))
    \/ Ready /\ BetreeMoveStep(BetreeRedirect(Readable))
    \/ Ready /\ BetreeMoveStep(BetreeQuery(Readable) \cup BetreeSuccQuery(Readable))
    \/ NoOpStep
    \/ Crash

Spec == Init /\ [][Next]_vars

-----------------------------------------------------------------------------
\* The trees that are needed are always there: the one a crash would recover,
\* the frozen one and the ephemeral one, each gathered from the disk and the
\* cache, are usable whatever writes, evictions and deallocations are under
\* way (BlockSystem.Inv with BetreeSystem.Inv).
TreesUsable ==
    /\ PersistentLoc # NoLoc => DiskState[PersistentLoc] # NoState
    /\ FrozenLoc # NoLoc => DiskState[FrozenLoc] # NoState
    /\ Ready => EphemeralState # NoState
    /\ Ready /\ machine.frozen # None => FrozenState # NoState

\* A cached node that has a location is what the disk holds there, so that it
\* may be dropped and read again; a read under way is of the place the node
\* still has, and no write to that place is under way, whose outcome the read
\* could miss (CleanCacheEntriesAreCorrect, CorrectInflightBlockReads,
\* ReadWritesDontOverlap).
CacheCoherent ==
    Ready =>
       /\ \A r \in Placed(machine.ephemeral) :
             machine.cache[r] # None => machine.cache[r] = nodes[machine.ephemeral.locs[r]]
       /\ \A id \in ReqId : reqReadNodes[id] # None =>
             /\ machine.blockReads[id] # None
             /\ machine.cache[machine.blockReads[id]] = None
             /\ reqReadNodes[id] = machine.ephemeral.locs[machine.blockReads[id]]
             /\ \A w \in ReqId : reqReadNodes[id] # reqWriteNodes[w]

\* A write under way touches nothing that a crash at this moment would need:
\* no node of the persistent tree or of a frozen tree that may become
\* persistent, nor another write; and every write is one the machine waits for
\* (CorrectInflightNodeWrites, RecordedWriteRequestsNode).
WritesAvoidTrees ==
    /\ \A id \in ReqId : reqWriteNodes[id] # None =>
          /\ Ready
          /\ machine.blockWrites[id] # None
          /\ reqWriteNodes[id] = machine.blockWrites[id].loc
          /\ reqWriteNodes[id] \notin LocsOf(machine.persistent)
          /\ machine.frozenLoc # NoLoc => reqWriteNodes[id] \notin LocsOf(machine.frozen)
          /\ \A other \in ReqId \ {id} : reqWriteNodes[other] # reqWriteNodes[id]
    /\ \A id \in ReqId : reqWriteTables[id] # None =>
          /\ Ready
          /\ machine.tableWrite = id
          /\ reqWriteTables[id] # machine.persistentLoc

\* The system is a StatesView: what the tables on disk and the cache hold
\* together changes only as the user asks, a frozen tree stays what it was
\* when it was frozen until it is persistent, and neither writes nor crashes
\* touch the persistent tree or a frozen one that is complete.
SV == INSTANCE StatesView
        WITH disk <- DiskState, persistentLoc <- PersistentLoc, frozenLoc <- FrozenLoc,
             frozenState <- FrozenState, ephemeralState <- EphemeralState

RefinesStatesView ==
    /\ \E loc \in Loc : SV!SInit(loc)
    /\ [][\/ SV!ObtainPersistentLoc
          \/ vop'.type = "AdvanceOp" /\ SV!Advance(vop'.uiop)
          \/ SV!SCrash
          \/ SV!Freeze
          \/ SV!DiskChange
          \/ SV!ProvideFrozenLoc
          \/ SV!ForgetOld
          \/ SV!SStutter]_vars
=============================================================================
