----------------------------- MODULE BlockDisk -----------------------------
(***************************************************************************)
(* The part of the disk that holds the nodes and the two indirection       *)
(* tables, with the requests the machine has made of it.  A write is put   *)
(* in place at the request, but a crash before the response may leave      *)
(* anything there; a read may return nothing (the sector does not match    *)
(* its checksum).                                                          *)
(*                                                                         *)
(* Two node locations overlap only if they have the same address, and so   *)
(* do two table locations (overlappingNodesSameAddr and                    *)
(* overlappingIndirectionTablesSameAddr), so a location is its address.    *)
(***************************************************************************)
EXTENDS BetreeSpec

CONSTANTS
    NodeLoc,     \* where nodes are stored; tables are stored at the members of Loc
    ReqId,
    HavocNode,   \* bound: what a crash may leave where a node was being written,
    HavocTable   \*   and where a table was, apart from what was written

VARIABLES
    reqReadTables,   \* id -> location, or None; likewise the other requests
    reqReadNodes,
    reqWriteTables,
    reqWriteNodes,
    tables,          \* location -> indirection table, or None
    nodes            \* location -> node, or None

requests == <<reqReadTables, reqReadNodes, reqWriteTables, reqWriteNodes>>
dvars == <<reqReadTables, reqReadNodes, reqWriteTables, reqWriteNodes, tables, nodes>>

NoRequests == [id \in ReqId |-> None]

\* IndirectionTable: where the nodes are, as far as they have been written,
\* and the successors of each.
Table == [locs : [Ref -> NodeLoc \cup {None}], graph : [Ref -> (SUBSET Ref) \cup {None}]]

\* None is none of the things it may stand in for; a crash leaves a node, a
\* table or nothing.
ASSUME NoneAssumption ==
    /\ None \notin Loc \cup NodeLoc \cup ReqId \cup Node \cup Table \cup [ref : Ref, loc : NodeLoc]
    /\ \A refs \in SUBSET Ref : refs # None
ASSUME HavocAssumption == HavocNode \subseteq Node \cup {None} /\ HavocTable \subseteq Table \cup {None}

RecvReadTable(id, loc) ==
    /\ reqReadTables[id] = None
    /\ reqReadTables' = [reqReadTables EXCEPT ![id] = loc]
    /\ UNCHANGED <<reqReadNodes, reqWriteTables, reqWriteNodes, tables, nodes>>

RecvReadNode(id, loc) ==
    /\ reqReadNodes[id] = None
    /\ reqReadNodes' = [reqReadNodes EXCEPT ![id] = loc]
    /\ UNCHANGED <<reqReadTables, reqWriteTables, reqWriteNodes, tables, nodes>>

RecvWriteTable(id, loc, table) ==
    /\ reqWriteTables[id] = None
    /\ reqWriteTables' = [reqWriteTables EXCEPT ![id] = loc]
    /\ tables' = [tables EXCEPT ![loc] = table]
    /\ UNCHANGED <<reqReadTables, reqReadNodes, reqWriteNodes, nodes>>

RecvWriteNode(id, loc, node) ==
    /\ reqWriteNodes[id] = None
    /\ reqWriteNodes' = [reqWriteNodes EXCEPT ![id] = loc]
    /\ nodes' = [nodes EXCEPT ![loc] = node]
    /\ UNCHANGED <<reqReadTables, reqReadNodes, reqWriteTables, tables>>

AckReadTable(id, table) ==
    /\ reqReadTables[id] # None
    /\ table \in {None, tables[reqReadTables[id]]}
    /\ reqReadTables' = [reqReadTables EXCEPT ![id] = None]
    /\ UNCHANGED <<reqReadNodes, reqWriteTables, reqWriteNodes, tables, nodes>>

AckReadNode(id, node) ==
    /\ reqReadNodes[id] # None
    /\ node \in {None, nodes[reqReadNodes[id]]}
    /\ reqReadNodes' = [reqReadNodes EXCEPT ![id] = None]
    /\ UNCHANGED <<reqReadTables, reqWriteTables, reqWriteNodes, tables, nodes>>

AckWriteTable(id) ==
    /\ reqWriteTables[id] # None
    /\ reqWriteTables' = [reqWriteTables EXCEPT ![id] = None]
    /\ UNCHANGED <<reqReadTables, reqReadNodes, reqWriteNodes, tables, nodes>>

AckWriteNode(id) ==
    /\ reqWriteNodes[id] # None
    /\ reqWriteNodes' = [reqWriteNodes EXCEPT ![id] = None]
    /\ UNCHANGED <<reqReadTables, reqReadNodes, reqWriteTables, tables, nodes>>

\* Sectors as they may be after a crash: those that were not being written
\* are as they were.
Havoc(sectors, reqs, junk) ==
    {t \in [DOMAIN sectors -> junk \cup {sectors[l] : l \in DOMAIN sectors}] :
       \A l \in DOMAIN sectors :
          t[l] \in {sectors[l]} \cup (IF \E id \in ReqId : reqs[id] = l THEN junk ELSE {})}

DCrash ==
    /\ reqReadTables' = NoRequests
    /\ reqReadNodes' = NoRequests
    /\ reqWriteTables' = NoRequests
    /\ reqWriteNodes' = NoRequests
    /\ tables' \in Havoc(tables, reqWriteTables, HavocTable)
    /\ nodes' \in Havoc(nodes, reqWriteNodes, HavocNode)
=============================================================================
