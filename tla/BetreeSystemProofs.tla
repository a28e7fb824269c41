------------------------- MODULE BetreeSystemProofs -------------------------
(***************************************************************************)
(* Tree, cache and disk of the block system, for any number of nodes,      *)
(* places, requests and crashes: what is in the cache is what the disk     *)
(* holds or will hold, no write under way touches a tree that a crash      *)
(* would need, every tree stays one, and the whole implements StatesView.  *)
(*                                                                         *)
(*  - The inductive invariant IInv of caches, places and requests, with    *)
(*    one lemma per step.                                                  *)
(*  - The operations of the tree as transactions, each a list of           *)
(*    allocations and writes, and what every one of these keeps; the       *)
(*    theorems CacheAlwaysCoherent and WritesAlwaysAvoidTrees.             *)
(*  - Trees: the value of a key as a least set of nodes (Decided) instead  *)
(*    of paths, ranks instead of acyclicity, and what insert, flush, grow, *)
(*    redirect and deallocation make of a tree.                            *)
(*  - Tables, and the trees they hold (Graph, Holds); the invariant        *)
(*    TreeInv of the three trees and of the tables on disk.                *)
(*  - The steps of cache and disk as steps of StatesView.                  *)
(*  - The transactions as steps of StatesView (TransInv).                  *)
(*  - The theorems TreesAlwaysUsable and BetreeSystemRefinesStatesView.    *)
(***************************************************************************)
EXTENDS BetreeSystem, JournalTheorems, FiniteSetTheorems

(***************************************************************************)
(* The machine in each of its phases, and the types of machine and disk.   *)
(***************************************************************************)
\* The machine before it knows which table to load.
UnreadyState == [phase : {"Unready"}]

\* The machine while it reads the indirection table.
LoadingState == [phase : {"LoadingIndirectionTable"}, loc : Loc, read : ReqId \cup {None}]

\* The machine once the table is loaded.
ReadyState ==
    [phase         : {"Ready"},
     persistent    : Table,
     frozen        : Table \cup {None},
     ephemeral     : Table,
     persistentLoc : Loc,
     frozenLoc     : Loc \cup {NoLoc},
     tableWrite    : ReqId \cup {None},
     blockWrites   : [ReqId -> [ref : Ref, loc : NodeLoc] \cup {None}],
     blockReads    : [ReqId -> Ref \cup {None}],
     cache         : [Ref -> Node \cup {None}]]

\* The types of the disk and of its requests.
DiskTypes ==
    /\ reqReadTables \in [ReqId -> Loc \cup {None}]
    /\ reqReadNodes \in [ReqId -> NodeLoc \cup {None}]
    /\ reqWriteTables \in [ReqId -> Loc \cup {None}]
    /\ reqWriteNodes \in [ReqId -> NodeLoc \cup {None}]
    /\ tables \in [Loc -> Table \cup {None}]
    /\ nodes \in [NodeLoc -> Node \cup {None}]

\* The types of the machine and of the disk.
Types == DiskTypes /\ machine \in UnreadyState \cup LoadingState \cup ReadyState

(***************************************************************************)
(* The inductive invariant of caches, places and requests.                 *)
(***************************************************************************)
\* Requests to read or write nodes, and to write tables, come from a machine that is ready.
IdleInv ==
    ~Ready => reqReadNodes = NoRequests /\ reqWriteNodes = NoRequests /\ reqWriteTables = NoRequests

\* The machine's record of the node writes under way is the disk's.
NodeWriteInv ==
    \A id \in ReqId :
       /\ machine.blockWrites[id] = None <=> reqWriteNodes[id] = None
       /\ machine.blockWrites[id] # None => reqWriteNodes[id] = machine.blockWrites[id].loc

\* So is its record of the table write, which is the one of the frozen table.
TableWriteInv ==
    /\ \A id \in ReqId : reqWriteTables[id] = IF machine.tableWrite = id THEN machine.frozenLoc ELSE None
    /\ machine.tableWrite # None => machine.frozenLoc # NoLoc
    /\ machine.frozenLoc # NoLoc =>
          /\ machine.frozenLoc # machine.persistentLoc
          /\ machine.frozen # None
          /\ Refs(machine.frozen) \subseteq Placed(machine.frozen)

\* Node writes go to places that are not in use, and no two go to the same place.
PlaceInv ==
    /\ \A id \in ReqId : reqWriteNodes[id] # None =>
          /\ reqWriteNodes[id] \notin LocsOf(machine.persistent)
          /\ machine.frozenLoc # NoLoc => reqWriteNodes[id] \notin LocsOf(machine.frozen)
    /\ \A id, other \in ReqId : id # other /\ reqWriteNodes[id] # None => reqWriteNodes[other] # reqWriteNodes[id]

\* The cache and the ephemeral table of machine m: a node that is being written is in the cache.
CacheOf(m) ==
    /\ Placed(m.ephemeral) \subseteq Refs(m.ephemeral)
    /\ \A r \in Placed(m.ephemeral) : m.cache[r] # None => m.cache[r] = nodes[m.ephemeral.locs[r]]
    /\ \A id \in ReqId, r \in Placed(m.ephemeral) :
          reqWriteNodes[id] = m.ephemeral.locs[r] => m.cache[r] # None /\ m.blockWrites[id].ref = r

\* A node is read at most once at a time, while it is not in the cache.
ReadsOf(m) ==
    /\ \A id, other \in ReqId : m.blockReads[id] # None /\ m.blockReads[other] = m.blockReads[id] => other = id
    /\ \A id \in ReqId : reqReadNodes[id] # None =>
          /\ m.blockReads[id] # None
          /\ m.cache[m.blockReads[id]] = None
          /\ reqReadNodes[id] = m.ephemeral.locs[m.blockReads[id]]

\* The cache of the machine as it is.
CacheInv == CacheOf(machine)

\* The reads of the machine as it is.
ReadInv == ReadsOf(machine)

\* What a machine that is ready and the disk have in common.
ReadyInv ==
    Ready => NodeWriteInv /\ TableWriteInv /\ PlaceInv /\ CacheInv /\ ReadInv

\* The inductive invariant.
IInv == Types /\ IdleInv /\ ReadyInv

-----------------------------------------------------------------------------
\* Phases are told apart by their name.
LEMMA Phases ==
    ASSUME Types
    PROVE  /\ Ready <=> machine \in ReadyState
           /\ Loading <=> machine \in LoadingState
           /\ Unready <=> machine \in UnreadyState
  BY DEF Types, Ready, Loading, Unready, ReadyState, LoadingState, UnreadyState

\* The reads under way are of places that no write is under way to.
LEMMA CacheCoherentFollows == IInv => CacheCoherent
<1> SUFFICES ASSUME IInv, Ready PROVE CacheCoherent
  BY DEF CacheCoherent
<1>1. NodeWriteInv /\ TableWriteInv /\ PlaceInv /\ CacheInv /\ ReadInv
  BY DEF IInv, ReadyInv
<1>2. machine \in ReadyState
  BY Phases DEF IInv
<1>3. ASSUME NEW id \in ReqId, reqReadNodes[id] # None, NEW w \in ReqId
      PROVE  reqReadNodes[id] # reqWriteNodes[w]
  <2> DEFINE r == machine.blockReads[id]
  <2>1. r \in Ref /\ machine.cache[r] = None /\ reqReadNodes[id] = machine.ephemeral.locs[r]
    BY <1>1, <1>2, <1>3 DEF ReadInv, ReadsOf, ReadyState
  <2>2. r \in Placed(machine.ephemeral)
    BY <1>3, <2>1 DEF Placed
  <2> QED
    BY <1>1, <1>3, <2>1, <2>2 DEF CacheInv, CacheOf
<1> QED
  BY <1>1, <1>3 DEF CacheCoherent, CacheInv, ReadInv, CacheOf, ReadsOf

\* Writes under way are recorded and touch no tree that a crash would need.
LEMMA WritesAvoidFollows == IInv => WritesAvoidTrees
<1> SUFFICES ASSUME IInv PROVE WritesAvoidTrees
  OBVIOUS
<1>1. CASE ~Ready
  BY <1>1 DEF IInv, IdleInv, WritesAvoidTrees, NoRequests
<1>2. CASE Ready
  <2>1. NodeWriteInv /\ TableWriteInv /\ PlaceInv
    BY <1>2 DEF IInv, ReadyInv
  <2>2. \A id \in ReqId : reqWriteTables[id] # None => machine.tableWrite = id /\ reqWriteTables[id] # machine.persistentLoc
    <3> SUFFICES ASSUME NEW id \in ReqId, reqWriteTables[id] # None
                 PROVE  machine.tableWrite = id /\ reqWriteTables[id] # machine.persistentLoc
      OBVIOUS
    <3>1. machine.tableWrite = id /\ id # None
      BY <2>1, NoneAssumption DEF TableWriteInv
    <3> QED
      BY <2>1, <3>1 DEF TableWriteInv
  <2> QED
    BY <1>2, <2>1, <2>2 DEF NodeWriteInv, PlaceInv, WritesAvoidTrees
<1> QED
  BY <1>1, <1>2

\* Nothing is under way at the start, and mkfs writes well-formed blocks.
LEMMA InitInv == Init => IInv
<1> SUFFICES ASSUME Init PROVE IInv
  OBVIOUS
<1>1. machine \in UnreadyState /\ ~Ready
  BY DEF Init, InitWithLoc, MInit, StartState, UnreadyState, Ready
<1>2. EmptyNode \in Node
  BY EmptyValueAssumption DEF EmptyNode, Node, Message, Define
<1>3. PICK loc \in Loc, place \in NodeLoc :
          /\ nodes = [l \in NodeLoc |-> IF l = place THEN EmptyNode ELSE None]
          /\ tables = [l \in Loc |-> IF l # loc THEN None
                                     ELSE [locs  |-> [r \in Ref |-> IF r = Root THEN place ELSE None],
                                           graph |-> [r \in Ref |-> IF r = Root THEN {} ELSE None]]]
  BY DEF Init, InitWithLoc
<1>4. nodes \in [NodeLoc -> Node \cup {None}] /\ tables \in [Loc -> Table \cup {None}]
  BY <1>2, <1>3 DEF Table
<1>5. DiskTypes
  BY <1>4 DEF Init, InitWithLoc, DiskTypes, NoRequests
<1> QED
  BY <1>1, <1>5 DEF Init, InitWithLoc, IInv, Types, IdleInv, ReadyInv

\* The fields of a machine that is ready.
LEMMA ReadyFields ==
    ASSUME NEW m \in ReadyState
    PROVE  /\ m.persistent \in Table /\ m.ephemeral \in Table /\ m.frozen \in Table \cup {None}
           /\ m.persistentLoc \in Loc /\ m.frozenLoc \in Loc \cup {NoLoc}
           /\ m.tableWrite \in ReqId \cup {None}
           /\ m.blockWrites \in [ReqId -> [ref : Ref, loc : NodeLoc] \cup {None}]
           /\ m.blockReads \in [ReqId -> Ref \cup {None}]
           /\ m.cache \in [Ref -> Node \cup {None}]
           /\ m.phase = "Ready"
  BY DEF ReadyState

\* What the invariant says of a machine that is ready.
LEMMA ReadyParts ==
    ASSUME IInv, Ready
    PROVE  /\ machine \in ReadyState
           /\ NodeWriteInv /\ TableWriteInv /\ PlaceInv /\ CacheInv /\ ReadInv
           /\ DiskTypes
  BY Phases DEF IInv, ReadyInv, Types

\* Putting it together again.
LEMMA ReadyMakes ==
    (machine \in ReadyState /\ NodeWriteInv /\ TableWriteInv /\ PlaceInv /\ CacheInv /\ ReadInv /\ DiskTypes) => IInv
  BY DEF IInv, ReadyInv, Types, IdleInv, Ready, ReadyState

\* While the machine is not ready.
LEMMA LoadingMakes ==
    /\ machine \in UnreadyState \cup LoadingState
    /\ DiskTypes
    /\ reqReadNodes = NoRequests /\ reqWriteNodes = NoRequests /\ reqWriteTables = NoRequests
    => IInv
  BY DEF IInv, ReadyInv, Types, IdleInv, Ready, UnreadyState, LoadingState

\* A crash leaves blocks and tables or nothing.
LEMMA HavocTypes ==
    ASSUME NEW L, NEW T, NEW junk, junk \subseteq T, NEW s \in [L -> T], NEW reqs, NEW t \in Havoc(s, reqs, junk)
    PROVE  t \in [L -> T]
<1>1. DOMAIN s = L
  OBVIOUS
<1>2. t \in [L -> junk \cup {s[l] : l \in L}]
  BY <1>1 DEF Havoc
<1> QED
  BY <1>2

\* A crash forgets the machine and the requests.
LEMMA CrashInv == IInv /\ Crash => IInv'
<1> SUFFICES ASSUME IInv, Crash PROVE IInv'
  OBVIOUS
<1>1. DiskTypes
  BY DEF IInv, Types
<1>2. machine' \in UnreadyState
  BY DEF Crash, StartState, UnreadyState
<1>3. tables' \in Havoc(tables, reqWriteTables, HavocTable) /\ nodes' \in Havoc(nodes, reqWriteNodes, HavocNode)
  BY DEF Crash, DCrash
<1>4. tables' \in [Loc -> Table \cup {None}]
  BY <1>1, <1>3, HavocTypes, HavocAssumption DEF DiskTypes
<1>5. nodes' \in [NodeLoc -> Node \cup {None}]
  BY <1>1, <1>3, HavocTypes, HavocAssumption DEF DiskTypes
<1>6. /\ reqReadTables' = NoRequests /\ reqReadNodes' = NoRequests
      /\ reqWriteTables' = NoRequests /\ reqWriteNodes' = NoRequests
  BY DEF Crash, DCrash
<1>7. DiskTypes'
  BY <1>4, <1>5, <1>6 DEF DiskTypes, NoRequests
<1>8. (/\ machine \in UnreadyState \cup LoadingState
       /\ DiskTypes
       /\ reqReadNodes = NoRequests /\ reqWriteNodes = NoRequests /\ reqWriteTables = NoRequests
       => IInv)'
  BY LoadingMakes, PTL
<1> QED
  BY <1>2, <1>6, <1>7, <1>8 DEF NoRequests

\* While loading nothing is under way but the read of a table.
LEMMA LoadingInv == IInv /\ (ReceiveLocStep \/ PageInIndirectionTableReqStep) => IInv'
<1> SUFFICES ASSUME IInv, ReceiveLocStep \/ PageInIndirectionTableReqStep PROVE IInv'
  OBVIOUS
<1>1. DiskTypes /\ ~Ready => reqReadNodes = NoRequests /\ reqWriteNodes = NoRequests /\ reqWriteTables = NoRequests
  BY DEF IInv, Types, IdleInv
<1>2. DiskTypes /\ ~Ready
  BY Phases DEF IInv, Types, ReceiveLocStep, PageInIndirectionTableReqStep, ReceiveLoc, PageInIndirectionTableReq,
     Ready, Unready, Loading
<1>3. CASE ReceiveLocStep
  <2>1. machine' \in LoadingState /\ UNCHANGED dvars
    BY <1>3 DEF ReceiveLocStep, ReceiveLoc, LoadingState
  <2>2. (/\ machine \in UnreadyState \cup LoadingState
         /\ DiskTypes
         /\ reqReadNodes = NoRequests /\ reqWriteNodes = NoRequests /\ reqWriteTables = NoRequests
         => IInv)'
    BY LoadingMakes, PTL
  <2>3. DiskTypes'
    BY <1>2, <2>1 DEF DiskTypes, dvars
  <2> QED
    BY <1>1, <1>2, <2>1, <2>2, <2>3 DEF dvars, NoRequests
<1>4. CASE PageInIndirectionTableReqStep
  <2>1. PICK id \in ReqId, loc \in Loc : PageInIndirectionTableReq(id, loc) /\ RecvReadTable(id, loc)
    BY <1>4 DEF PageInIndirectionTableReqStep
  <2>2. machine \in LoadingState
    BY <2>1, Phases DEF PageInIndirectionTableReq, IInv
  <2>3. machine' \in LoadingState
    BY <2>1, <2>2 DEF PageInIndirectionTableReq, LoadingState
  <2>4. (/\ machine \in UnreadyState \cup LoadingState
         /\ DiskTypes
         /\ reqReadNodes = NoRequests /\ reqWriteNodes = NoRequests /\ reqWriteTables = NoRequests
         => IInv)'
    BY LoadingMakes, PTL
  <2>5. DiskTypes'
    BY <1>2, <2>1 DEF DiskTypes, RecvReadTable
  <2> QED
    BY <1>1, <1>2, <2>1, <2>3, <2>4, <2>5 DEF RecvReadTable, NoRequests
<1> QED
  BY <1>3, <1>4

\* The table that is loaded is complete, and nothing is in the cache yet.
LEMMA PageInIndirectionTableRespInv == IInv /\ PageInIndirectionTableRespStep => IInv'
<1> SUFFICES ASSUME IInv, PageInIndirectionTableRespStep PROVE IInv'
  OBVIOUS
<1>1. PICK id \in ReqId : \E table \in {tables[l] : l \in Loc} :
              PageInIndirectionTableResp(id, table) /\ AckReadTable(id, table)
  BY DEF PageInIndirectionTableRespStep
<1>2. PICK table \in {tables[l] : l \in Loc} : PageInIndirectionTableResp(id, table) /\ AckReadTable(id, table)
  BY <1>1
<1>3. machine \in LoadingState /\ ~Ready
  BY <1>2, Phases DEF PageInIndirectionTableResp, IInv, Loading, Ready
<1>4. DiskTypes /\ reqReadNodes = NoRequests /\ reqWriteNodes = NoRequests /\ reqWriteTables = NoRequests
  BY <1>3 DEF IInv, Types, IdleInv
<1>5. table \in Table /\ Placed(table) = Refs(table)
  BY <1>2, <1>4 DEF PageInIndirectionTableResp, DiskTypes, WFCompleteIndirectionTable
<1>6. /\ machine' \in ReadyState
      /\ machine'.ephemeral = table /\ machine'.frozenLoc = NoLoc /\ machine'.tableWrite = None
      /\ machine'.blockWrites = NoRequests /\ machine'.blockReads = NoRequests
      /\ machine'.cache = [r \in Ref |-> None]
  BY <1>2, <1>3, <1>5 DEF PageInIndirectionTableResp, ReadyState, LoadingState, NoRequests
<1>7. /\ reqReadNodes' = NoRequests /\ reqWriteNodes' = NoRequests /\ reqWriteTables' = NoRequests
      /\ UNCHANGED <<tables, nodes>> /\ reqReadTables' = [reqReadTables EXCEPT ![id] = None]
  BY <1>2, <1>4 DEF AckReadTable
<1>8. DiskTypes'
  BY <1>4, <1>7 DEF DiskTypes, NoRequests
<1>9. NodeWriteInv' /\ PlaceInv'
  BY <1>6, <1>7 DEF NodeWriteInv, PlaceInv, NoRequests
<1>10. TableWriteInv'
  BY <1>6, <1>7, NoneAssumption DEF TableWriteInv, NoRequests
<1>11. ReadInv'
  BY <1>6, <1>7 DEF ReadInv, ReadsOf, NoRequests
<1>12. CacheInv'
  <2>1. \A r \in Placed(table) : table.locs[r] # None
    BY DEF Placed
  <2>2. \A r \in Ref : machine'.cache[r] = None
    BY <1>6
  <2>3. \A i \in ReqId : reqWriteNodes'[i] = None
    BY <1>7 DEF NoRequests
  <2>4. Placed(table) \subseteq Ref
    BY DEF Placed
  <2> QED
    BY <1>5, <1>6, <2>1, <2>2, <2>3, <2>4 DEF CacheInv, CacheOf
<1>13. (machine \in ReadyState /\ NodeWriteInv /\ TableWriteInv /\ PlaceInv /\ CacheInv /\ ReadInv /\ DiskTypes => IInv)'
  BY ReadyMakes, PTL
<1> QED
  BY <1>6, <1>8, <1>9, <1>10, <1>11, <1>12, <1>13

\* The places of a table.
LEMMA TableFields ==
    ASSUME NEW t \in Table
    PROVE  /\ t.locs \in [Ref -> NodeLoc \cup {None}] /\ t.graph \in [Ref -> (SUBSET Ref) \cup {None}]
           /\ Refs(t) \subseteq Ref /\ Placed(t) \subseteq Ref /\ LocsOf(t) \subseteq NodeLoc
           /\ \A r \in Placed(t) : t.locs[r] \in LocsOf(t)
  BY DEF Table, Refs, Placed, LocsOf

\* A node that has no place yet gets one.
LEMMA AssignFields ==
    ASSUME NEW t \in Table, NEW r \in Ref, NEW loc \in NodeLoc
    PROVE  LET u == AssignRefToLocation(t, r, loc)
           IN  /\ u \in Table /\ u.graph = t.graph /\ Refs(u) = Refs(t)
               /\ r \in Refs(t) \ Placed(t) => /\ u.locs = [t.locs EXCEPT ![r] = loc]
                                               /\ Placed(u) = Placed(t) \cup {r}
               /\ r \notin Refs(t) \ Placed(t) => u = t
<1>1. CASE r \notin Refs(t) \ Placed(t)
  BY <1>1 DEF AssignRefToLocation
<1>2. CASE r \in Refs(t) \ Placed(t)
  <2> DEFINE u == AssignRefToLocation(t, r, loc)
  <2>1. u = [t EXCEPT !.locs[r] = loc]
    BY <1>2 DEF AssignRefToLocation
  <2>2. u \in Table /\ u.graph = t.graph /\ u.locs = [t.locs EXCEPT ![r] = loc]
    BY <2>1 DEF Table
  <2>3. Refs(u) = Refs(t)
    BY <2>2 DEF Refs
  <2>4. Placed(u) = Placed(t) \cup {r}
    <3>1. loc # None
      BY NoneAssumption
    <3>2. t.locs \in [Ref -> NodeLoc \cup {None}]
      BY DEF Table
    <3> HIDE DEF u
    <3> QED
      BY <2>2, <3>1, <3>2 DEF Placed
  <2> QED
    BY <1>2, <2>2, <2>3, <2>4
<1> QED
  BY <1>1, <1>2

\* A node is written to a place that nothing uses.
LEMMA WriteBackNodeReqInv == IInv /\ WriteBackNodeReqStep => IInv'
<1> SUFFICES ASSUME IInv, WriteBackNodeReqStep PROVE IInv'
  OBVIOUS
<1>1. PICK id \in ReqId, r \in Ref, loc \in NodeLoc :
          /\ WriteBackNodeReq(id, r, loc, machine.cache[r])
          /\ RecvWriteNode(id, loc, machine.cache[r])
  BY DEF WriteBackNodeReqStep
<1>2. /\ machine \in ReadyState
      /\ NodeWriteInv /\ TableWriteInv /\ PlaceInv /\ CacheInv /\ ReadInv
      /\ DiskTypes
  BY ReadyParts DEF WriteBackNodeReqStep
<1> DEFINE E == machine.ephemeral
           F == machine.frozen
           E2 == AssignRefToLocation(E, r, loc)
           F2 == IF F = None THEN None ELSE AssignRefToLocation(F, r, loc)
           w == [ref |-> r, loc |-> loc]
<1>3. /\ machine.cache[r] # None /\ machine.tableWrite = None
      /\ loc \notin LocsOf(machine.persistent) /\ loc \notin LocsOf(E)
      /\ F # None => loc \notin LocsOf(F)
      /\ \A i \in ReqId : machine.blockWrites[i] # None => machine.blockWrites[i].loc # loc
      /\ machine' = [machine EXCEPT !.ephemeral = E2, !.frozen = F2, !.blockWrites[id] = w]
  BY <1>1 DEF WriteBackNodeReq, ValidAllocation
<1>4. /\ reqWriteNodes[id] = None /\ reqWriteNodes' = [reqWriteNodes EXCEPT ![id] = loc]
      /\ nodes' = [nodes EXCEPT ![loc] = machine.cache[r]]
      /\ UNCHANGED <<reqReadTables, reqReadNodes, reqWriteTables, tables>>
  BY <1>1 DEF RecvWriteNode
<1>5. E \in Table /\ F \in Table \cup {None} /\ machine.cache[r] \in Node /\ E2 \in Table /\ F2 \in Table \cup {None}
      /\ w \in [ref : Ref, loc : NodeLoc] /\ w # None /\ loc # None
  <2>1. E \in Table /\ F \in Table \cup {None} /\ machine.cache[r] \in Node
    BY <1>2, <1>3, ReadyFields
  <2>2. E2 \in Table /\ F2 \in Table \cup {None}
    BY <2>1, AssignFields
  <2>3. w \in [ref : Ref, loc : NodeLoc]
    OBVIOUS
  <2> HIDE DEF w
  <2> QED
    BY <2>1, <2>2, <2>3, NoneAssumption
<1> HIDE DEF E2, F2, w
<1>6. /\ machine' \in ReadyState
      /\ machine'.ephemeral = E2 /\ machine'.frozen = F2
      /\ machine'.blockWrites = [machine.blockWrites EXCEPT ![id] = w]
      /\ machine'.persistent = machine.persistent /\ machine'.persistentLoc = machine.persistentLoc
      /\ machine'.frozenLoc = machine.frozenLoc /\ machine'.tableWrite = machine.tableWrite
      /\ machine'.blockReads = machine.blockReads /\ machine'.cache = machine.cache
  BY <1>2, <1>3, <1>5 DEF ReadyState
<1>7. DiskTypes'
  BY <1>2, <1>4, <1>5 DEF DiskTypes
<1>8. \A i \in ReqId : /\ reqWriteNodes'[i] = IF i = id THEN loc ELSE reqWriteNodes[i]
                       /\ machine'.blockWrites[i] = IF i = id THEN w ELSE machine.blockWrites[i]
                       /\ reqWriteNodes[i] # None => reqWriteNodes[i] # loc
  <2>1. machine.blockWrites \in [ReqId -> [ref : Ref, loc : NodeLoc] \cup {None}] /\ reqWriteNodes \in [ReqId -> NodeLoc \cup {None}]
    BY <1>2, ReadyFields DEF DiskTypes
  <2> QED
    BY <1>2, <1>3, <1>4, <1>6, <2>1 DEF NodeWriteInv
<1>9. NodeWriteInv'
  <2>1. w.loc = loc
    BY DEF w
  <2> QED
    BY <1>2, <1>5, <1>8, <2>1 DEF NodeWriteInv
<1>10. machine.frozenLoc # NoLoc => F # None /\ F2 = F
  <2> SUFFICES ASSUME machine.frozenLoc # NoLoc PROVE F # None /\ F2 = F
    OBVIOUS
  <2>1. F # None /\ r \notin Refs(F) \ Placed(F)
    BY <1>2 DEF TableWriteInv
  <2>2. F \in Table
    BY <1>5, <2>1
  <2> HIDE DEF F
  <2>3. AssignRefToLocation(F, r, loc) = F
    BY <2>1, <2>2, AssignFields
  <2> QED
    BY <2>1, <2>3 DEF F2
<1>11. TableWriteInv'
  <2>1. \A i \in ReqId : reqWriteTables'[i] = IF machine'.tableWrite = i THEN machine'.frozenLoc ELSE None
    <3>1. \A i \in ReqId : reqWriteTables[i] = IF machine.tableWrite = i THEN machine.frozenLoc ELSE None
      BY <1>2 DEF TableWriteInv
    <3>2. reqWriteTables' = reqWriteTables
      BY <1>4
    <3>3. machine'.frozenLoc = machine.frozenLoc /\ machine'.tableWrite = machine.tableWrite
      BY <1>6
    <3> QED
      BY <3>1, <3>2, <3>3
  <2>2. machine'.frozenLoc # NoLoc => /\ machine'.frozenLoc # machine'.persistentLoc
                                      /\ machine'.frozen # None
                                      /\ Refs(machine'.frozen) \subseteq Placed(machine'.frozen)
    <3> HIDE DEF F
    <3> QED
      BY <1>2, <1>6, <1>10 DEF TableWriteInv, F
  <2> QED
    BY <1>3, <1>6, <2>1, <2>2 DEF TableWriteInv
<1>12. PlaceInv'
  BY <1>2, <1>3, <1>6, <1>8, <1>10 DEF PlaceInv
<1>13. /\ Refs(E2) = Refs(E)
       /\ \/ r \notin Refs(E) \ Placed(E) /\ E2 = E
          \/ /\ r \in Refs(E) \ Placed(E) /\ E2.locs = [E.locs EXCEPT ![r] = loc] /\ Placed(E2) = Placed(E) \cup {r}
  BY <1>5, AssignFields DEF E2
<1>14. E.locs \in [Ref -> NodeLoc \cup {None}] /\ Placed(E) \subseteq Ref /\ \A s \in Placed(E) : E.locs[s] \in LocsOf(E)
  BY <1>5, TableFields
<1>15. CacheInv'
  <2>1. \A s \in Placed(E2) : \/ s = r /\ E2.locs[s] = loc /\ r \notin Placed(E)
                              \/ s \in Placed(E) /\ E2.locs[s] = E.locs[s] /\ E.locs[s] # loc
    BY <1>3, <1>13, <1>14
  <2>2. Placed(E2) \subseteq Refs(E2)
    BY <1>2, <1>13 DEF CacheInv, CacheOf
  <2>3. \A s \in Placed(E2) : machine.cache[s] # None => machine.cache[s] = nodes'[E2.locs[s]]
    <3> SUFFICES ASSUME NEW s \in Placed(E2), machine.cache[s] # None
                 PROVE  machine.cache[s] = nodes'[E2.locs[s]]
      OBVIOUS
    <3>0. nodes \in [NodeLoc -> Node \cup {None}]
      BY <1>2 DEF DiskTypes
    <3>1. CASE s = r /\ E2.locs[s] = loc
      BY <1>4, <3>0, <3>1
    <3>2. CASE s \in Placed(E) /\ E2.locs[s] = E.locs[s] /\ E.locs[s] # loc
      <4>1. machine.cache[s] = nodes[E.locs[s]]
        BY <1>2, <3>2 DEF CacheInv, CacheOf
      <4>2. E.locs[s] \in NodeLoc
        BY <1>5, <3>2, TableFields
      <4> QED
        BY <1>4, <3>0, <3>2, <4>1, <4>2
    <3> QED
      BY <2>1, <3>1, <3>2
  <2>4. ASSUME NEW i \in ReqId, NEW s \in Placed(E2), reqWriteNodes'[i] = E2.locs[s]
        PROVE  machine.cache[s] # None /\ machine'.blockWrites[i].ref = s
    <3>1. CASE s = r /\ E2.locs[s] = loc /\ r \notin Placed(E)
      <4>1. i = id
        BY <1>5, <1>8, <2>4, <3>1
      <4> QED
        BY <1>3, <1>8, <3>1, <4>1 DEF w
    <3>2. CASE s \in Placed(E) /\ E2.locs[s] = E.locs[s] /\ E.locs[s] # loc
      <4>1. i # id
        BY <1>8, <2>4, <3>2
      <4>2. reqWriteNodes[i] = E.locs[s] /\ machine'.blockWrites[i] = machine.blockWrites[i]
        BY <1>8, <2>4, <3>2, <4>1
      <4> QED
        BY <1>2, <3>2, <4>2 DEF CacheInv, CacheOf
    <3> QED
      BY <2>1, <3>1, <3>2
  <2> QED
    BY <1>6, <2>2, <2>3, <2>4 DEF CacheInv, CacheOf
<1>16. ReadInv'
  <2>1. \A i \in ReqId : reqReadNodes[i] # None =>
             machine.blockReads[i] \in Ref /\ machine.cache[machine.blockReads[i]] = None
    BY <1>2, ReadyFields DEF ReadInv, ReadsOf
  <2>2. \A i \in ReqId : reqReadNodes[i] # None =>
             E2.locs[machine.blockReads[i]] = E.locs[machine.blockReads[i]]
    BY <1>3, <1>13, <1>14, <2>1
  <2> QED
    BY <1>2, <1>4, <1>6, <2>2 DEF ReadInv, ReadsOf
<1>17. (machine \in ReadyState /\ NodeWriteInv /\ TableWriteInv /\ PlaceInv /\ CacheInv /\ ReadInv /\ DiskTypes => IInv)'
  BY ReadyMakes, PTL
<1> QED
  BY <1>6, <1>7, <1>9, <1>11, <1>12, <1>15, <1>16, <1>17

\* A write that is done leaves both records.
LEMMA WriteBackNodeRespInv == IInv /\ WriteBackNodeRespStep => IInv'
<1> SUFFICES ASSUME IInv, WriteBackNodeRespStep PROVE IInv'
  OBVIOUS
<1>1. PICK id \in ReqId : WriteBackNodeResp(id) /\ AckWriteNode(id)
  BY DEF WriteBackNodeRespStep
<1>2. /\ machine \in ReadyState
      /\ NodeWriteInv /\ TableWriteInv /\ PlaceInv /\ CacheInv /\ ReadInv
      /\ DiskTypes
  BY <1>1, ReadyParts DEF WriteBackNodeResp
<1>3. /\ machine' = [machine EXCEPT !.blockWrites[id] = None]
      /\ reqWriteNodes' = [reqWriteNodes EXCEPT ![id] = None]
      /\ UNCHANGED <<reqReadTables, reqReadNodes, reqWriteTables, tables, nodes>>
  BY <1>1 DEF WriteBackNodeResp, AckWriteNode
<1>4. /\ machine' \in ReadyState
      /\ machine'.blockWrites = [machine.blockWrites EXCEPT ![id] = None]
      /\ machine'.ephemeral = machine.ephemeral /\ machine'.frozen = machine.frozen
      /\ machine'.persistent = machine.persistent /\ machine'.persistentLoc = machine.persistentLoc
      /\ machine'.frozenLoc = machine.frozenLoc /\ machine'.tableWrite = machine.tableWrite
      /\ machine'.blockReads = machine.blockReads /\ machine'.cache = machine.cache
  BY <1>2, <1>3 DEF ReadyState
<1>5. DiskTypes'
  BY <1>2, <1>3 DEF DiskTypes
<1>6. \A i \in ReqId : /\ reqWriteNodes'[i] = IF i = id THEN None ELSE reqWriteNodes[i]
                       /\ machine'.blockWrites[i] = IF i = id THEN None ELSE machine.blockWrites[i]
  <2>1. machine.blockWrites \in [ReqId -> [ref : Ref, loc : NodeLoc] \cup {None}] /\ reqWriteNodes \in [ReqId -> NodeLoc \cup {None}]
    BY <1>2, ReadyFields DEF DiskTypes
  <2> QED
    BY <1>3, <1>4, <2>1
<1>7. NodeWriteInv'
  BY <1>2, <1>6 DEF NodeWriteInv
<1>8. TableWriteInv'
  BY <1>2, <1>3, <1>4 DEF TableWriteInv
<1>9. PlaceInv'
  BY <1>2, <1>4, <1>6 DEF PlaceInv
<1>10. ReadInv'
  BY <1>2, <1>3, <1>4 DEF ReadInv, ReadsOf
<1>11. CacheInv'
  <2>1. \A r \in Placed(machine.ephemeral) : machine.ephemeral.locs[r] # None
    BY DEF Placed
  <2> QED
    BY <1>2, <1>3, <1>4, <1>6, <2>1 DEF CacheInv, CacheOf
<1>12. (machine \in ReadyState /\ NodeWriteInv /\ TableWriteInv /\ PlaceInv /\ CacheInv /\ ReadInv /\ DiskTypes => IInv)'
  BY ReadyMakes, PTL
<1> QED
  BY <1>4, <1>5, <1>7, <1>8, <1>9, <1>10, <1>11, <1>12

\* A node is read that has a place, is not in the cache and not being read.
LEMMA PageInNodeReqInv == IInv /\ PageInNodeReqStep => IInv'
<1> SUFFICES ASSUME IInv, PageInNodeReqStep PROVE IInv'
  OBVIOUS
<1>1. PICK id \in ReqId, r \in Ref, loc \in NodeLoc : PageInNodeReq(id, r, loc) /\ RecvReadNode(id, loc)
  BY DEF PageInNodeReqStep
<1>2. /\ machine \in ReadyState
      /\ NodeWriteInv /\ TableWriteInv /\ PlaceInv /\ CacheInv /\ ReadInv
      /\ DiskTypes
  BY <1>1, ReadyParts DEF PageInNodeReq
<1>3. /\ machine' = [machine EXCEPT !.blockReads[id] = r]
      /\ machine.cache[r] = None /\ loc = machine.ephemeral.locs[r]
      /\ \A i \in ReqId : machine.blockReads[i] # r
      /\ reqReadNodes[id] = None
      /\ reqReadNodes' = [reqReadNodes EXCEPT ![id] = loc]
      /\ UNCHANGED <<reqReadTables, reqWriteTables, reqWriteNodes, tables, nodes>>
  BY <1>1 DEF PageInNodeReq, RecvReadNode
<1>4. /\ machine' \in ReadyState
      /\ machine'.blockReads = [machine.blockReads EXCEPT ![id] = r]
      /\ machine'.ephemeral = machine.ephemeral /\ machine'.frozen = machine.frozen
      /\ machine'.persistent = machine.persistent /\ machine'.persistentLoc = machine.persistentLoc
      /\ machine'.frozenLoc = machine.frozenLoc /\ machine'.tableWrite = machine.tableWrite
      /\ machine'.blockWrites = machine.blockWrites /\ machine'.cache = machine.cache
  BY <1>2, <1>3 DEF ReadyState
<1>5. DiskTypes'
  BY <1>2, <1>3 DEF DiskTypes
<1>6. \A i \in ReqId : /\ reqReadNodes'[i] = IF i = id THEN loc ELSE reqReadNodes[i]
                       /\ machine'.blockReads[i] = IF i = id THEN r ELSE machine.blockReads[i]
  <2>1. machine.blockReads \in [ReqId -> Ref \cup {None}] /\ reqReadNodes \in [ReqId -> NodeLoc \cup {None}]
    BY <1>2, ReadyFields DEF DiskTypes
  <2> QED
    BY <1>3, <1>4, <2>1
<1>7. NodeWriteInv' /\ PlaceInv'
  BY <1>2, <1>3, <1>4 DEF NodeWriteInv, PlaceInv
<1>8. TableWriteInv'
  BY <1>2, <1>3, <1>4 DEF TableWriteInv
<1>9. ReadInv'
  <2>1. r # None
    BY RootAssumption
  <2> QED
    BY <1>2, <1>3, <1>4, <1>6, <2>1 DEF ReadInv, ReadsOf
<1>10. CacheInv'
  BY <1>2, <1>3, <1>4 DEF CacheInv, CacheOf
<1>11. (machine \in ReadyState /\ NodeWriteInv /\ TableWriteInv /\ PlaceInv /\ CacheInv /\ ReadInv /\ DiskTypes => IInv)'
  BY ReadyMakes, PTL
<1> QED
  BY <1>4, <1>5, <1>7, <1>8, <1>9, <1>10, <1>11

\* What enters the cache is what the disk holds at the place the node has.
LEMMA PageInNodeRespInv == IInv /\ PageInNodeRespStep => IInv'
<1> SUFFICES ASSUME IInv, PageInNodeRespStep PROVE IInv'
  OBVIOUS
<1>1. PICK id \in ReqId : \E node \in {nodes[l] : l \in NodeLoc} \ {None} :
              WFNode(node) /\ PageInNodeResp(id, node) /\ AckReadNode(id, node)
  BY DEF PageInNodeRespStep
<1>2. PICK node \in {nodes[l] : l \in NodeLoc} \ {None} :
              WFNode(node) /\ PageInNodeResp(id, node) /\ AckReadNode(id, node)
  BY <1>1
<1>3. /\ machine \in ReadyState
      /\ NodeWriteInv /\ TableWriteInv /\ PlaceInv /\ CacheInv /\ ReadInv
      /\ DiskTypes
  BY <1>2, ReadyParts DEF PageInNodeResp
<1> DEFINE r == machine.blockReads[id]
<1>4. /\ machine' = [machine EXCEPT !.cache[r] = node, !.blockReads[id] = None]
      /\ r # None /\ machine.cache[r] = None
      /\ reqReadNodes[id] # None /\ node = nodes[reqReadNodes[id]]
      /\ reqReadNodes' = [reqReadNodes EXCEPT ![id] = None]
      /\ UNCHANGED <<reqReadTables, reqWriteTables, reqWriteNodes, tables, nodes>>
  BY <1>2 DEF PageInNodeResp, AckReadNode
<1>5. r \in Ref /\ node \in Node
  BY <1>2, <1>3, <1>4, ReadyFields DEF DiskTypes
<1>6. reqReadNodes[id] = machine.ephemeral.locs[r]
  BY <1>3, <1>4 DEF ReadInv, ReadsOf
<1> HIDE DEF r
<1>7. /\ machine' \in ReadyState
      /\ machine'.blockReads = [machine.blockReads EXCEPT ![id] = None]
      /\ machine'.ephemeral = machine.ephemeral /\ machine'.frozen = machine.frozen
      /\ machine'.persistent = machine.persistent /\ machine'.persistentLoc = machine.persistentLoc
      /\ machine'.frozenLoc = machine.frozenLoc /\ machine'.tableWrite = machine.tableWrite
      /\ machine'.blockWrites = machine.blockWrites /\ machine'.cache = [machine.cache EXCEPT ![r] = node]
  BY <1>3, <1>4, <1>5 DEF ReadyState
<1>8. DiskTypes'
  BY <1>3, <1>4 DEF DiskTypes
<1>9. /\ \A i \in ReqId : /\ reqReadNodes'[i] = IF i = id THEN None ELSE reqReadNodes[i]
                          /\ machine'.blockReads[i] = IF i = id THEN None ELSE machine.blockReads[i]
      /\ \A s \in Ref : machine'.cache[s] = IF s = r THEN node ELSE machine.cache[s]
  <2>1. /\ machine.blockReads \in [ReqId -> Ref \cup {None}] /\ reqReadNodes \in [ReqId -> NodeLoc \cup {None}]
        /\ machine.cache \in [Ref -> Node \cup {None}]
    BY <1>3, ReadyFields DEF DiskTypes
  <2> QED
    BY <1>4, <1>7, <2>1
<1>10. NodeWriteInv' /\ PlaceInv'
  BY <1>3, <1>4, <1>7 DEF NodeWriteInv, PlaceInv
<1>11. TableWriteInv'
  BY <1>3, <1>4, <1>7 DEF TableWriteInv
<1>12. ReadInv'
  <2>1. \A i \in ReqId : i # id /\ reqReadNodes[i] # None => machine.blockReads[i] \in Ref /\ machine.blockReads[i] # r
    BY <1>3, <1>4, ReadyFields DEF ReadInv, ReadsOf, r
  <2> QED
    BY <1>3, <1>7, <1>9, <2>1 DEF ReadInv, ReadsOf
<1>13. CacheInv'
  <2>1. Placed(machine.ephemeral) \subseteq Ref
    BY DEF Placed
  <2>2. node # None
    BY <1>2
  <2> QED
    BY <1>3, <1>4, <1>6, <1>7, <1>9, <2>1, <2>2 DEF CacheInv, CacheOf
<1>14. (machine \in ReadyState /\ NodeWriteInv /\ TableWriteInv /\ PlaceInv /\ CacheInv /\ ReadInv /\ DiskTypes => IInv)'
  BY ReadyMakes, PTL
<1> QED
  BY <1>7, <1>8, <1>10, <1>11, <1>12, <1>13, <1>14

\* A node may leave the cache when the disk has it and its write is done.
LEMMA EvictInv == IInv /\ EvictStep => IInv'
<1> SUFFICES ASSUME IInv, EvictStep PROVE IInv'
  OBVIOUS
<1>1. PICK r \in Ref : Evict(r)
  BY DEF EvictStep
<1>2. /\ machine \in ReadyState
      /\ NodeWriteInv /\ TableWriteInv /\ PlaceInv /\ CacheInv /\ ReadInv
      /\ DiskTypes
  BY <1>1, ReadyParts DEF Evict
<1>3. /\ machine' = [machine EXCEPT !.cache[r] = None] /\ MayEvict(r)
      /\ UNCHANGED <<reqReadTables, reqReadNodes, reqWriteTables, reqWriteNodes, tables, nodes>>
  BY <1>1 DEF Evict, EvictStep, dvars
<1>4. /\ machine' \in ReadyState
      /\ machine'.blockReads = machine.blockReads
      /\ machine'.ephemeral = machine.ephemeral /\ machine'.frozen = machine.frozen
      /\ machine'.persistent = machine.persistent /\ machine'.persistentLoc = machine.persistentLoc
      /\ machine'.frozenLoc = machine.frozenLoc /\ machine'.tableWrite = machine.tableWrite
      /\ machine'.blockWrites = machine.blockWrites /\ machine'.cache = [machine.cache EXCEPT ![r] = None]
  BY <1>2, <1>3 DEF ReadyState
<1>5. DiskTypes'
  BY <1>2, <1>3 DEF DiskTypes
<1>6. \A s \in Ref : machine'.cache[s] = IF s = r THEN None ELSE machine.cache[s]
  BY <1>2, <1>4, ReadyFields
<1>7. NodeWriteInv' /\ PlaceInv'
  BY <1>2, <1>3, <1>4 DEF NodeWriteInv, PlaceInv
<1>8. TableWriteInv'
  BY <1>2, <1>3, <1>4 DEF TableWriteInv
<1>9. ReadInv'
  <2>1. \A i \in ReqId : reqReadNodes[i] # None => machine.blockReads[i] \in Ref
    BY <1>2, ReadyFields DEF ReadInv, ReadsOf
  <2> QED
    BY <1>2, <1>3, <1>4, <1>6, <2>1 DEF ReadInv, ReadsOf
<1>10. CacheInv'
  <2>1. Placed(machine.ephemeral) \subseteq Ref
    BY DEF Placed
  <2>2. ASSUME NEW id \in ReqId, r \in Placed(machine.ephemeral), reqWriteNodes[id] = machine.ephemeral.locs[r]
        PROVE  FALSE
    <3>1. r \in Refs(machine.ephemeral) /\ machine.blockWrites[id].ref = r
      BY <1>2, <2>2 DEF CacheInv, CacheOf
    <3>2. reqWriteNodes[id] # None
      BY <2>2 DEF Placed
    <3>3. machine.blockWrites[id] # None /\ machine.blockWrites[id].loc = machine.ephemeral.locs[r]
      BY <1>2, <2>2, <3>2 DEF NodeWriteInv
    <3>4. machine.blockWrites[id] \in [ref : Ref, loc : NodeLoc]
      BY <1>2, <3>3, ReadyFields
    <3>5. machine.blockWrites[id] = [ref |-> r, loc |-> machine.ephemeral.locs[r]]
      BY <3>1, <3>3, <3>4
    <3> QED
      BY <1>3, <3>1, <3>5 DEF MayEvict
  <2> QED
    BY <1>2, <1>3, <1>4, <1>6, <2>1, <2>2 DEF CacheInv, CacheOf
<1>11. (machine \in ReadyState /\ NodeWriteInv /\ TableWriteInv /\ PlaceInv /\ CacheInv /\ ReadInv /\ DiskTypes => IInv)'
  BY ReadyMakes, PTL
<1> QED
  BY <1>4, <1>5, <1>7, <1>8, <1>9, <1>10, <1>11

\* Freezing the tree copies the ephemeral table.
LEMMA FreezeInv == IInv /\ FreezeStep => IInv'
<1> SUFFICES ASSUME IInv, FreezeStep PROVE IInv'
  OBVIOUS
<1>1. /\ machine \in ReadyState
      /\ NodeWriteInv /\ TableWriteInv /\ PlaceInv /\ CacheInv /\ ReadInv
      /\ DiskTypes
  BY ReadyParts DEF FreezeStep, Freeze
<1>2. /\ machine.tableWrite = None
      /\ machine' = [machine EXCEPT !.frozen = machine.ephemeral, !.frozenLoc = NoLoc]
      /\ UNCHANGED <<reqReadTables, reqReadNodes, reqWriteTables, reqWriteNodes, tables, nodes>>
  BY DEF FreezeStep, Freeze, dvars
<1>3. /\ machine' \in ReadyState
      /\ machine'.frozen = machine.ephemeral /\ machine'.frozenLoc = NoLoc
      /\ machine'.persistent = machine.persistent /\ machine'.ephemeral = machine.ephemeral /\ machine'.persistentLoc = machine.persistentLoc
      /\ machine'.tableWrite = machine.tableWrite /\ machine'.blockWrites = machine.blockWrites /\ machine'.blockReads = machine.blockReads
      /\ machine'.cache = machine.cache
  BY <1>1, <1>2 DEF ReadyState
<1>4. DiskTypes'
  BY <1>1, <1>2 DEF DiskTypes
<1>5. NodeWriteInv' /\ PlaceInv'
  BY <1>1, <1>2, <1>3 DEF NodeWriteInv, PlaceInv
<1>6. TableWriteInv'
  <2>1. \A i \in ReqId : i # None
    BY NoneAssumption
  <2> QED
    BY <1>1, <1>2, <1>3, <2>1 DEF TableWriteInv
<1>7. ReadInv' /\ CacheInv'
  BY <1>1, <1>2, <1>3 DEF ReadInv, ReadsOf, CacheInv, CacheOf
<1>8. (machine \in ReadyState /\ NodeWriteInv /\ TableWriteInv /\ PlaceInv /\ CacheInv /\ ReadInv /\ DiskTypes => IInv)'
  BY ReadyMakes, PTL
<1> QED
  BY <1>3, <1>4, <1>5, <1>6, <1>7, <1>8

\* A frozen table is written when all its nodes are on disk, and not over the persistent one.
LEMMA WriteBackIndirectionTableReqInv == IInv /\ WriteBackIndirectionTableReqStep => IInv'
<1> SUFFICES ASSUME IInv, WriteBackIndirectionTableReqStep PROVE IInv'
  OBVIOUS
<1>1. PICK id \in ReqId, loc \in Loc :
          /\ WriteBackIndirectionTableReq(id, loc, machine.frozen)
          /\ RecvWriteTable(id, loc, machine.frozen)
  BY DEF WriteBackIndirectionTableReqStep
<1>2. /\ machine \in ReadyState
      /\ NodeWriteInv /\ TableWriteInv /\ PlaceInv /\ CacheInv /\ ReadInv
      /\ DiskTypes
  BY <1>1, ReadyParts DEF WriteBackIndirectionTableReq
<1>3. /\ machine' = [machine EXCEPT !.tableWrite = id, !.frozenLoc = loc]
      /\ machine.frozen # None /\ Refs(machine.frozen) \subseteq Placed(machine.frozen)
      /\ machine.blockWrites = NoRequests /\ machine.frozenLoc = NoLoc /\ loc # machine.persistentLoc
  BY <1>1 DEF WriteBackIndirectionTableReq
<1>4. /\ reqWriteTables' = [reqWriteTables EXCEPT ![id] = loc]
      /\ tables' = [tables EXCEPT ![loc] = machine.frozen]
      /\ UNCHANGED <<reqReadTables, reqReadNodes, reqWriteNodes, nodes>>
  BY <1>1 DEF RecvWriteTable
<1>5. /\ machine' \in ReadyState
      /\ machine'.tableWrite = id /\ machine'.frozenLoc = loc
      /\ machine'.persistent = machine.persistent /\ machine'.frozen = machine.frozen /\ machine'.ephemeral = machine.ephemeral
      /\ machine'.persistentLoc = machine.persistentLoc /\ machine'.blockWrites = machine.blockWrites /\ machine'.blockReads = machine.blockReads
      /\ machine'.cache = machine.cache
  BY <1>2, <1>3 DEF ReadyState
<1>6. DiskTypes'
  <2>1. machine.frozen \in Table
    BY <1>2, <1>3, ReadyFields
  <2> QED
    BY <1>2, <1>4, <2>1 DEF DiskTypes
<1>7. \A i \in ReqId : reqWriteNodes[i] = None
  BY <1>2, <1>3 DEF NodeWriteInv, NoRequests
<1>8. NodeWriteInv' /\ PlaceInv'
  BY <1>2, <1>4, <1>5, <1>7 DEF NodeWriteInv, PlaceInv
<1>9. TableWriteInv'
  <2>1. machine.tableWrite = None /\ \A i \in ReqId : i # None
    BY <1>2, <1>3, NoneAssumption DEF TableWriteInv
  <2>2. \A i \in ReqId : reqWriteTables[i] = None
    BY <1>2, <2>1 DEF TableWriteInv
  <2>3. reqWriteTables \in [ReqId -> Loc \cup {None}]
    BY <1>2 DEF DiskTypes
  <2>4. \A i \in ReqId : reqWriteTables'[i] = IF machine'.tableWrite = i THEN machine'.frozenLoc ELSE None
    BY <1>4, <1>5, <2>2, <2>3
  <2>5. loc # NoLoc
    BY LocAssumption
  <2> QED
    BY <1>3, <1>5, <2>4, <2>5 DEF TableWriteInv
<1>10. ReadInv' /\ CacheInv'
  BY <1>2, <1>4, <1>5 DEF ReadInv, ReadsOf, CacheInv, CacheOf
<1>11. (machine \in ReadyState /\ NodeWriteInv /\ TableWriteInv /\ PlaceInv /\ CacheInv /\ ReadInv /\ DiskTypes => IInv)'
  BY ReadyMakes, PTL
<1> QED
  BY <1>5, <1>6, <1>8, <1>9, <1>10, <1>11

\* The frozen table is on disk.
LEMMA WriteBackIndirectionTableRespInv == IInv /\ WriteBackIndirectionTableRespStep => IInv'
<1> SUFFICES ASSUME IInv, WriteBackIndirectionTableRespStep PROVE IInv'
  OBVIOUS
<1>1. PICK id \in ReqId : WriteBackIndirectionTableResp(id) /\ AckWriteTable(id)
  BY DEF WriteBackIndirectionTableRespStep
<1>2. /\ machine \in ReadyState
      /\ NodeWriteInv /\ TableWriteInv /\ PlaceInv /\ CacheInv /\ ReadInv
      /\ DiskTypes
  BY <1>1, ReadyParts DEF WriteBackIndirectionTableResp
<1>3. /\ machine.tableWrite = id
      /\ machine' = [machine EXCEPT !.tableWrite = None]
      /\ reqWriteTables' = [reqWriteTables EXCEPT ![id] = None]
      /\ UNCHANGED <<reqReadTables, reqReadNodes, reqWriteNodes, tables, nodes>>
  BY <1>1 DEF WriteBackIndirectionTableResp, AckWriteTable
<1>4. /\ machine' \in ReadyState
      /\ machine'.tableWrite = None
      /\ machine'.persistent = machine.persistent /\ machine'.frozen = machine.frozen /\ machine'.ephemeral = machine.ephemeral
      /\ machine'.persistentLoc = machine.persistentLoc /\ machine'.frozenLoc = machine.frozenLoc /\ machine'.blockWrites = machine.blockWrites
      /\ machine'.blockReads = machine.blockReads /\ machine'.cache = machine.cache
  BY <1>2, <1>3 DEF ReadyState
<1>5. DiskTypes'
  BY <1>2, <1>3 DEF DiskTypes
<1>6. NodeWriteInv' /\ PlaceInv'
  BY <1>2, <1>3, <1>4 DEF NodeWriteInv, PlaceInv
<1>7. TableWriteInv'
  <2>1. \A i \in ReqId : i # None
    BY NoneAssumption
  <2>2. reqWriteTables \in [ReqId -> Loc \cup {None}]
    BY <1>2 DEF DiskTypes
  <2>3. \A i \in ReqId : reqWriteTables'[i] = None
    BY <1>2, <1>3, <2>2 DEF TableWriteInv
  <2> QED
    BY <1>2, <1>4, <2>1, <2>3 DEF TableWriteInv
<1>8. ReadInv' /\ CacheInv'
  BY <1>2, <1>3, <1>4 DEF ReadInv, ReadsOf, CacheInv, CacheOf
<1>9. (machine \in ReadyState /\ NodeWriteInv /\ TableWriteInv /\ PlaceInv /\ CacheInv /\ ReadInv /\ DiskTypes => IInv)'
  BY ReadyMakes, PTL
<1> QED
  BY <1>4, <1>5, <1>6, <1>7, <1>8, <1>9

\* The frozen table takes the place of the persistent one.
LEMMA CleanUpInv == IInv /\ CleanUpStep => IInv'
<1> SUFFICES ASSUME IInv, CleanUpStep PROVE IInv'
  OBVIOUS
<1>1. /\ machine \in ReadyState
      /\ NodeWriteInv /\ TableWriteInv /\ PlaceInv /\ CacheInv /\ ReadInv
      /\ DiskTypes
  BY ReadyParts DEF CleanUpStep, CleanUp
<1>2. /\ machine.tableWrite = None /\ machine.frozenLoc # NoLoc /\ machine.frozen # None
      /\ machine' = [machine EXCEPT !.persistent = machine.frozen, !.persistentLoc = machine.frozenLoc,
                                    !.frozen = None, !.frozenLoc = NoLoc]
      /\ UNCHANGED <<reqReadTables, reqReadNodes, reqWriteTables, reqWriteNodes, tables, nodes>>
  BY DEF CleanUpStep, CleanUp, dvars
<1>3. /\ machine' \in ReadyState
      /\ machine'.persistent = machine.frozen /\ machine'.persistentLoc = machine.frozenLoc
      /\ machine'.frozen = None /\ machine'.frozenLoc = NoLoc
      /\ machine'.ephemeral = machine.ephemeral /\ machine'.tableWrite = machine.tableWrite /\ machine'.blockWrites = machine.blockWrites
      /\ machine'.blockReads = machine.blockReads /\ machine'.cache = machine.cache
  BY <1>1, <1>2 DEF ReadyState
<1>4. DiskTypes'
  BY <1>1, <1>2 DEF DiskTypes
<1>5. NodeWriteInv' /\ PlaceInv'
  BY <1>1, <1>2, <1>3 DEF NodeWriteInv, PlaceInv
<1>6. TableWriteInv'
  <2>1. \A i \in ReqId : i # None
    BY NoneAssumption
  <2> QED
    BY <1>1, <1>2, <1>3, <2>1 DEF TableWriteInv
<1>7. ReadInv' /\ CacheInv'
  BY <1>1, <1>2, <1>3 DEF ReadInv, ReadsOf, CacheInv, CacheOf
<1>8. (machine \in ReadyState /\ NodeWriteInv /\ TableWriteInv /\ PlaceInv /\ CacheInv /\ ReadInv /\ DiskTypes => IInv)'
  BY ReadyMakes, PTL
<1> QED
  BY <1>3, <1>4, <1>5, <1>6, <1>7, <1>8

\* A node that nothing leads to loses its place, its entry and its copy.
LEMMA UnallocInv == IInv /\ UnallocStep => IInv'
<1> SUFFICES ASSUME IInv, UnallocStep PROVE IInv'
  OBVIOUS
<1>1. PICK r \in Ref : Unalloc(r)
  BY DEF UnallocStep
<1>2. /\ machine \in ReadyState
      /\ NodeWriteInv /\ TableWriteInv /\ PlaceInv /\ CacheInv /\ ReadInv
      /\ DiskTypes
  BY <1>1, ReadyParts DEF Unalloc
<1> DEFINE E == machine.ephemeral
           E2 == [E EXCEPT !.locs[r] = None, !.graph[r] = None]
<1>3. /\ machine' = [machine EXCEPT !.ephemeral = E2, !.cache[r] = None]
      /\ \A i \in ReqId : machine.blockReads[i] # r
      /\ UNCHANGED <<reqReadTables, reqReadNodes, reqWriteTables, reqWriteNodes, tables, nodes>>
  <2>1. /\ machine' = [machine EXCEPT !.ephemeral.locs[r] = None, !.ephemeral.graph[r] = None, !.cache[r] = None]
        /\ \A i \in ReqId : machine.blockReads[i] # r
        /\ UNCHANGED <<reqReadTables, reqReadNodes, reqWriteTables, reqWriteNodes, tables, nodes>>
    BY <1>1 DEF Unalloc, UnallocStep, dvars
  <2>2. [machine EXCEPT !.ephemeral.locs[r] = None, !.ephemeral.graph[r] = None, !.cache[r] = None]
          = [machine EXCEPT !.ephemeral = E2, !.cache[r] = None]
    BY <1>2 DEF ReadyState, Table
  <2> QED
    BY <2>1, <2>2
<1>4. /\ E \in Table /\ E2 \in Table
      /\ E2.locs = [E.locs EXCEPT ![r] = None] /\ E2.graph = [E.graph EXCEPT ![r] = None]
  <2>1. E \in Table
    BY <1>2, ReadyFields
  <2> QED
    BY <2>1 DEF Table
<1> HIDE DEF E2
<1>5. /\ machine' \in ReadyState
      /\ machine'.ephemeral = E2 /\ machine'.cache = [machine.cache EXCEPT ![r] = None]
      /\ machine'.persistent = machine.persistent /\ machine'.frozen = machine.frozen /\ machine'.persistentLoc = machine.persistentLoc
      /\ machine'.frozenLoc = machine.frozenLoc /\ machine'.tableWrite = machine.tableWrite /\ machine'.blockWrites = machine.blockWrites
      /\ machine'.blockReads = machine.blockReads
  BY <1>2, <1>3, <1>4 DEF ReadyState
<1>6. DiskTypes'
  BY <1>2, <1>3 DEF DiskTypes
<1>7. NodeWriteInv' /\ PlaceInv'
  BY <1>2, <1>3, <1>5 DEF NodeWriteInv, PlaceInv
<1>8. TableWriteInv'
  BY <1>2, <1>3, <1>5 DEF TableWriteInv
<1>9. /\ \A s \in Ref : /\ machine'.cache[s] = IF s = r THEN None ELSE machine.cache[s]
                        /\ E2.locs[s] = IF s = r THEN None ELSE E.locs[s]
      /\ Placed(E2) = Placed(E) \ {r} /\ Refs(E2) = Refs(E) \ {r} /\ Placed(E) \subseteq Ref
  <2>1. /\ machine.cache \in [Ref -> Node \cup {None}]
        /\ E.locs \in [Ref -> NodeLoc \cup {None}] /\ E.graph \in [Ref -> (SUBSET Ref) \cup {None}]
    BY <1>2, <1>4, ReadyFields, TableFields
  <2>2. \A s \in Ref : /\ machine'.cache[s] = IF s = r THEN None ELSE machine.cache[s]
                       /\ E2.locs[s] = IF s = r THEN None ELSE E.locs[s]
                       /\ E2.graph[s] = IF s = r THEN None ELSE E.graph[s]
    BY <1>4, <1>5, <2>1
  <2> HIDE DEF E
  <2>3. Placed(E2) = Placed(E) \ {r}
    BY <2>2 DEF Placed
  <2>4. Refs(E2) = Refs(E) \ {r}
    BY <2>2 DEF Refs
  <2>5. Placed(E) \subseteq Ref
    BY DEF Placed
  <2> QED
    BY <2>2, <2>3, <2>4, <2>5
<1>10. ReadInv'
  <2>1. \A i \in ReqId : reqReadNodes[i] # None => machine.blockReads[i] \in Ref
    BY <1>2, ReadyFields DEF ReadInv, ReadsOf
  <2>2. reqReadNodes' = reqReadNodes /\ machine'.blockReads = machine.blockReads /\ machine'.ephemeral = E2
    BY <1>3, <1>5
  <2>3. ReadsOf(machine)
    BY <1>2 DEF ReadInv
  <2> QED
    BY <1>3, <1>9, <2>1, <2>2, <2>3 DEF ReadInv, ReadsOf
<1>11. CacheInv'
  <2>1. nodes' = nodes /\ reqWriteNodes' = reqWriteNodes /\ machine'.blockWrites = machine.blockWrites
        /\ machine'.ephemeral = E2
    BY <1>3, <1>5
  <2>2. CacheOf(machine)
    BY <1>2 DEF CacheInv
  <2> QED
    BY <1>9, <2>1, <2>2 DEF CacheInv, CacheOf
<1>12. (machine \in ReadyState /\ NodeWriteInv /\ TableWriteInv /\ PlaceInv /\ CacheInv /\ ReadInv /\ DiskTypes => IInv)'
  BY ReadyMakes, PTL
<1> QED
  BY <1>5, <1>6, <1>7, <1>8, <1>10, <1>11, <1>12

\* Nothing happens, or a read that fails ends.
LEMMA NoOpIs ==
    ASSUME NoOpStep
    PROVE  /\ machine' = machine /\ UNCHANGED <<reqWriteTables, reqWriteNodes, tables, nodes>>
           /\ \/ reqReadTables' = reqReadTables /\ reqReadNodes' = reqReadNodes
              \/ \E id \in ReqId :
                    \/ reqReadTables' = [reqReadTables EXCEPT ![id] = None] /\ reqReadNodes' = reqReadNodes
                    \/ reqReadNodes' = [reqReadNodes EXCEPT ![id] = None] /\ reqReadTables' = reqReadTables
  BY DEF NoOpStep, AckReadTable, AckReadNode, dvars

\* Either leaves the invariant alone.
LEMMA NoOpInv == IInv /\ NoOpStep => IInv'
<1> SUFFICES ASSUME IInv, NoOpStep PROVE IInv'
  OBVIOUS
<1>2. /\ machine' = machine /\ UNCHANGED <<reqWriteTables, reqWriteNodes, tables, nodes>>
      /\ \/ reqReadTables' = reqReadTables /\ reqReadNodes' = reqReadNodes
         \/ \E id \in ReqId :
               \/ reqReadTables' = [reqReadTables EXCEPT ![id] = None] /\ reqReadNodes' = reqReadNodes
               \/ reqReadNodes' = [reqReadNodes EXCEPT ![id] = None] /\ reqReadTables' = reqReadTables
  BY NoOpIs
<1>3. DiskTypes
  BY DEF IInv, Types
<1>4. \A i \in ReqId : reqReadNodes'[i] = reqReadNodes[i] \/ reqReadNodes'[i] = None
  BY <1>2, <1>3 DEF DiskTypes
<1>5. DiskTypes'
  BY <1>2, <1>3 DEF DiskTypes
<1>6. Types'
  BY <1>2, <1>5 DEF IInv, Types
<1>7. IdleInv'
  <2> SUFFICES ASSUME ~Ready
               PROVE  reqReadNodes' = NoRequests /\ reqWriteNodes' = NoRequests /\ reqWriteTables' = NoRequests
    BY <1>2 DEF IdleInv, Ready, NoRequests
  <2>1. reqReadNodes = NoRequests /\ reqWriteNodes = NoRequests /\ reqWriteTables = NoRequests
    BY DEF IInv, IdleInv
  <2> QED
    BY <1>2, <2>1 DEF NoRequests
<1>8. ReadyInv'
  <2> SUFFICES ASSUME Ready PROVE NodeWriteInv' /\ TableWriteInv' /\ PlaceInv' /\ CacheInv' /\ ReadInv'
    BY <1>2 DEF ReadyInv, Ready
  <2>1. NodeWriteInv /\ TableWriteInv /\ PlaceInv /\ CacheInv /\ ReadInv
    BY DEF IInv, ReadyInv
  <2>2. NodeWriteInv' /\ PlaceInv'
    BY <1>2, <2>1 DEF NodeWriteInv, PlaceInv
  <2>3. TableWriteInv'
    BY <1>2, <2>1 DEF TableWriteInv
  <2>4. CacheInv'
    BY <1>2, <2>1 DEF CacheInv, CacheOf
  <2>5. ReadInv'
    BY <1>2, <1>4, <2>1 DEF ReadInv, ReadsOf
  <2> QED
    BY <2>2, <2>3, <2>4, <2>5
<1> QED
  BY <1>6, <1>7, <1>8 DEF IInv

(***************************************************************************)
(* The operations of the tree as lists of allocations and writes.          *)
(***************************************************************************)
\* An allocation or a write.
Op == [type : {"AllocOp", "WriteOp"}, ref : Ref, node : Node]

\* Graphs of nodes, whole or as far as they can be read.
NodeMap == [Ref -> Node \cup {None}]

\* A finite set as a sequence.
LEMMA SetToSeqIs ==
    ASSUME NEW S, IsFiniteSet(S)
    PROVE  /\ SeqExt!SetToSeq(S) \in Seq(S)
           /\ \A i, j \in 1..Len(SeqExt!SetToSeq(S)) : SeqExt!SetToSeq(S)[i] = SeqExt!SetToSeq(S)[j] => i = j
           /\ \A x \in S : \E i \in 1..Len(SeqExt!SetToSeq(S)) : SeqExt!SetToSeq(S)[i] = x
<1> DEFINE n == Cardinality(S)
           q == SeqExt!SetToSeq(S)
<1>1. n \in Nat
  BY FS_CardinalityType
<1>2. IsFiniteSet(1..n) /\ Cardinality(1..n) = n
  BY <1>1, FS_Interval
<1>3. ExistsBijection(1..n, S)
  BY <1>2, FS_SameCardinalityBij
<1>4. PICK f \in [1..n -> S] : \A i, j \in 1..n : f[i] = f[j] => i = j
  BY <1>3 DEF ExistsBijection, Bijection, Injection, IsInjective
<1>5. \E g \in [1..n -> S] : SeqExt!IsInjective(g)
  BY <1>4 DEF SeqExt!IsInjective
<1>6. q \in [1..n -> S] /\ SeqExt!IsInjective(q)
  <2>1. SeqExt!Cardinality(S) = Cardinality(S)
    BY DEF SeqExt!Cardinality, Cardinality
  <2> QED
    BY <1>5, <2>1 DEF SeqExt!SetToSeq
<1> HIDE DEF q, n
<1>7. q \in Seq(S) /\ Len(q) = n
  BY <1>1, <1>6
<1>8. q \in Injection(1..n, S)
  BY <1>6 DEF Injection, IsInjective, SeqExt!IsInjective
<1>9. q \in Surjection(1..n, S)
  BY <1>2, <1>8, FS_Injection DEF n
<1> QED
  BY <1>6, <1>7, <1>9 DEF Surjection, SeqExt!IsInjective, q

\* The parts of a node.
LEMMA NodeFields ==
    ASSUME NEW node \in Node
    PROVE  /\ node.children \in [Key -> Ref \cup {None}] /\ node.buffer \in [Key -> Message]
           /\ node = [children |-> node.children, buffer |-> node.buffer]
           /\ Successors(node) \subseteq Ref
  BY DEF Node, Successors

\* A node of given parts.
LEMMA NodeMakes ==
    ASSUME NEW c \in [Key -> Ref \cup {None}], NEW b \in [Key -> Message]
    PROVE  [children |-> c, buffer |-> b] \in Node
  BY DEF Node

\* Messages merge to messages.
LEMMA MergeType ==
    /\ \A new, old \in Message : Merge(new, old) \in Message
    /\ \A v \in Value : Define(v) \in Message
    /\ IdentityMessage \in Message
  BY DEF Merge, Message, Define, IdentityMessage

\* The nodes that an insert and a flush write.
LEMMA InsertNodeType ==
    ASSUME NEW node \in Node, NEW k \in Key, NEW v \in Value
    PROVE  /\ AddMessageToNode(node, k, Define(v)) \in Node
           /\ AddMessageToNode(node, k, Define(v)).children = node.children
           /\ AddMessageToNode(node, k, Define(v)).buffer = [node.buffer EXCEPT ![k] = Define(v)]
<1>1. Merge(Define(v), node.buffer[k]) = Define(v)
  BY DEF Merge, Define, Defines
<1>2. AddMessageToNode(node, k, Define(v)) = [node EXCEPT !.buffer[k] = Define(v)]
  BY <1>1 DEF AddMessageToNode
<1>3. Define(v) \in Message
  BY MergeType
<1> QED
  BY <1>2, <1>3 DEF Node

\* The child a flush allocates.
LEMMA FlushedChildType ==
    ASSUME NEW parent \in Node, NEW child \in Node, NEW flushed \in SUBSET Key
    PROVE  LET node == FlushedChild(parent, child, flushed)
           IN  /\ node \in Node
               /\ node.children = child.children
               /\ \A k \in Key : node.buffer[k] = IF k \in flushed THEN Merge(parent.buffer[k], child.buffer[k])
                                                  ELSE child.buffer[k]
<1> DEFINE b == [k \in Key |-> IF k \in flushed THEN Merge(parent.buffer[k], child.buffer[k]) ELSE child.buffer[k]]
<1>1. b \in [Key -> Message]
  BY MergeType, NodeFields
<1>2. FlushedChild(parent, child, flushed) = [child EXCEPT !.buffer = b]
  BY DEF FlushedChild
<1>3. \A k \in Key : b[k] = IF k \in flushed THEN Merge(parent.buffer[k], child.buffer[k]) ELSE child.buffer[k]
  OBVIOUS
<1> HIDE DEF b
<1> QED
  BY <1>1, <1>2, <1>3 DEF Node

\* The parent it writes.
LEMMA FlushedParentType ==
    ASSUME NEW parent \in Node, NEW newref \in Ref, NEW moved \in SUBSET Key, NEW flushed \in SUBSET Key
    PROVE  LET node == FlushedParent(parent, newref, moved, flushed)
           IN  /\ node \in Node
               /\ \A k \in Key : /\ node.children[k] = IF k \in moved THEN newref ELSE parent.children[k]
                                 /\ node.buffer[k] = IF k \in flushed THEN IdentityMessage ELSE parent.buffer[k]
<1> DEFINE c == [k \in Key |-> IF k \in moved THEN newref ELSE parent.children[k]]
           b == [k \in Key |-> IF k \in flushed THEN IdentityMessage ELSE parent.buffer[k]]
<1>1. c \in [Key -> Ref \cup {None}] /\ b \in [Key -> Message]
  BY MergeType, NodeFields
<1>2. FlushedParent(parent, newref, moved, flushed) = [children |-> c, buffer |-> b]
  BY DEF FlushedParent
<1>3. [children |-> c, buffer |-> b] \in Node
  BY <1>1, NodeMakes
<1> QED
  BY <1>2, <1>3

\* The root that a grow writes.
GrownRoot(newref) == [children |-> [k \in Key |-> newref], buffer |-> [k \in Key |-> IdentityMessage]]

\* It is a node.
LEMMA GrownRootType ==
    ASSUME NEW newref \in Ref
    PROVE  GrownRoot(newref) \in Node
<1>1. [k \in Key |-> newref] \in [Key -> Ref \cup {None}] /\ [k \in Key |-> IdentityMessage] \in [Key -> Message]
  BY MergeType
<1> QED
  BY <1>1, NodeMakes DEF GrownRoot

\* The nodes that a redirect allocates and writes.
LEMMA RedirectedChildType ==
    ASSUME NEW g \in NodeMap, NEW parent \in Node, NEW routed \in SUBSET Key,
           \A k \in routed : parent.children[k] \in NodesIn(g)
    PROVE  LET node == RedirectedChild(g, parent, routed)
           IN  /\ node \in Node
               /\ \A k \in Key : /\ node.children[k] = IF k \in routed THEN g[parent.children[k]].children[k] ELSE None
                                 /\ node.buffer[k] = IF k \in routed THEN g[parent.children[k]].buffer[k]
                                                     ELSE Define(EmptyValue)
<1> DEFINE c == [k \in Key |-> IF k \in routed THEN g[parent.children[k]].children[k] ELSE None]
           b == [k \in Key |-> IF k \in routed THEN g[parent.children[k]].buffer[k] ELSE Define(EmptyValue)]
<1>1. \A k \in routed : g[parent.children[k]] \in Node
  BY DEF NodesIn, NodeMap
<1>2. c \in [Key -> Ref \cup {None}]
  BY <1>1, NodeFields
<1>3. b \in [Key -> Message]
  BY <1>1, NodeFields, MergeType, EmptyValueAssumption
<1>4. RedirectedChild(g, parent, routed) = [children |-> c, buffer |-> b]
  BY DEF RedirectedChild
<1>5. [children |-> c, buffer |-> b] \in Node
  BY <1>2, <1>3, NodeMakes
<1> QED
  BY <1>4, <1>5

\* The parent of redirected children.
LEMMA RedirectedParentType ==
    ASSUME NEW parent \in Node, NEW keys \in SUBSET Key, NEW route \in [keys -> Ref]
    PROVE  LET node == RedirectedParent(parent, route)
           IN  /\ node \in Node
               /\ node.buffer = parent.buffer
               /\ \A k \in Key : node.children[k] = IF k \in keys THEN route[k] ELSE parent.children[k]
<1> DEFINE c == [k \in Key |-> IF k \in DOMAIN route THEN route[k] ELSE parent.children[k]]
<1>1. c \in [Key -> Ref \cup {None}]
  BY NodeFields
<1>2. RedirectedParent(parent, route) = [parent EXCEPT !.children = c]
  BY DEF RedirectedParent, Node
<1>3. \A k \in Key : c[k] = IF k \in keys THEN route[k] ELSE parent.children[k]
  OBVIOUS
<1> HIDE DEF c
<1> QED
  BY <1>1, <1>2, <1>3 DEF Node

(***************************************************************************)
(* Transactions: the machine after each of their operations.               *)
(***************************************************************************)
\* The machines p[0], ..., p[n] that the first n operations lead to.
IsPath(p, m, ops, n) ==
    p = [i \in 0..n |-> IF i = 0 THEN m ELSE OpStep(p[i - 1], ops[i])]

\* There is such a list for every n.
LEMMA PathExists ==
    ASSUME NEW m, NEW ops, NEW n \in Nat
    PROVE  \E p : IsPath(p, m, ops, n)
<1> DEFINE S == {i \in Nat : \E p : IsPath(p, m, ops, i)}
<1>1. 0 \in S
  <2> DEFINE p == [i \in 0..0 |-> m]
  <2>1. IsPath(p, m, ops, 0)
    BY DEF IsPath
  <2> QED
    BY <2>1
<1>2. ASSUME NEW k \in Nat, k \in S
      PROVE  k + 1 \in S
  <2>1. PICK p : IsPath(p, m, ops, k)
    BY <1>2
  <2> DEFINE last == OpStep(p[k], ops[k + 1])
             h == [i \in 0..k + 1 |-> IF i = k + 1 THEN last ELSE p[i]]
  <2>2. p[0] = m /\ \A i \in 1..k : p[i] = OpStep(p[i - 1], ops[i])
    <3>1. \A i \in 0..k : p[i] = IF i = 0 THEN m ELSE OpStep(p[i - 1], ops[i])
      BY <2>1 DEF IsPath
    <3> HIDE DEF last, h
    <3> QED
      BY <3>1
  <2>3. h = [i \in 0..k + 1 |-> h[i]] /\ h[k + 1] = last /\ \A i \in 0..k : h[i] = p[i]
    OBVIOUS
  <2> HIDE DEF h
  <2>4. ASSUME NEW i \in 0..k + 1
        PROVE  h[i] = IF i = 0 THEN m ELSE OpStep(h[i - 1], ops[i])
    <3>1. CASE i = 0
      <4>1. 0 \in 0..k
        OBVIOUS
      <4> QED
        BY <2>2, <2>3, <3>1, <4>1
    <3>2. CASE i \in 1..k
      <4>1. i - 1 \in 0..k /\ i \in 0..k /\ i # 0
        BY <3>2
      <4> QED
        BY <2>2, <2>3, <3>2, <4>1
    <3>3. CASE i = k + 1
      <4>1. i - 1 = k /\ k \in 0..k /\ i # 0
        BY <3>3
      <4> QED
        BY <2>3, <3>3, <4>1
    <3> QED
      BY <3>1, <3>2, <3>3
  <2>5. IsPath(h, m, ops, k + 1)
    BY <2>3, <2>4 DEF IsPath
  <2> QED
    BY <2>5
<1> HIDE DEF S
<1>3. Nat \subseteq S
  BY <1>1, <1>2, SetInduction
<1> QED
  BY <1>3 DEF S

\* A transaction leads to the last of them.
LEMMA TransactionPath ==
    ASSUME NEW m, NEW ops \in Seq(Op)
    PROVE  \E p : /\ p[0] = m
                  /\ \A i \in 1..Len(ops) : p[i] = OpStep(p[i - 1], ops[i])
                  /\ OpTransaction(m, ops) = p[Len(ops)]
<1> DEFINE f == CHOOSE p : IsPath(p, m, ops, Len(ops))
<1>0. Len(ops) \in Nat
  OBVIOUS
<1>1. IsPath(f, m, ops, Len(ops))
  BY <1>0, PathExists
<1>2. OpTransaction(m, ops) = f[Len(ops)]
  BY DEF OpTransaction, IsPath
<1> HIDE DEF f
<1>3. f[0] = m /\ \A i \in 1..Len(ops) : f[i] = OpStep(f[i - 1], ops[i])
  <2>1. \A i \in 0..Len(ops) : f[i] = IF i = 0 THEN m ELSE OpStep(f[i - 1], ops[i])
    BY <1>1 DEF IsPath
  <2> QED
    BY <1>0, <2>1
<1> QED
  BY <1>2, <1>3

\* What every operation keeps, a transaction keeps.
LEMMA TransactionKeeps ==
    ASSUME NEW M, NEW m \in M, NEW ops \in Seq(Op),
           \A x \in M, op \in Op : OpStep(x, op) \in M \cup {None}
    PROVE  OpTransaction(m, ops) \in M \cup {None}
<1>0. Len(ops) \in Nat
  OBVIOUS
<1>1. PICK p : /\ p[0] = m
               /\ \A i \in 1..Len(ops) : p[i] = OpStep(p[i - 1], ops[i])
               /\ OpTransaction(m, ops) = p[Len(ops)]
  BY TransactionPath
<1> DEFINE S == {i \in Nat : i <= Len(ops) => p[i] \in M \cup {None}}
<1>2. 0 \in S
  BY <1>1
<1>3. ASSUME NEW i \in Nat, i \in S PROVE i + 1 \in S
  <2> SUFFICES ASSUME i + 1 <= Len(ops) PROVE p[i + 1] \in M \cup {None}
    OBVIOUS
  <2> DEFINE j == i + 1
  <2>1. j \in 1..Len(ops) /\ j - 1 = i /\ i <= Len(ops)
    BY <1>0
  <2>2. p[i] \in M \cup {None}
    BY <1>3, <2>1
  <2> HIDE DEF j
  <2>3. p[j] = OpStep(p[i], ops[j]) /\ ops[j] \in Op
    BY <1>1, <2>1
  <2>4. OpStep(None, ops[j]) = None
    BY DEF OpStep
  <2>5. p[j] \in M \cup {None}
    BY <2>2, <2>3, <2>4
  <2> QED
    BY <2>5 DEF j
<1> HIDE DEF S
<1>4. Nat \subseteq S
  BY <1>2, <1>3, SetInduction
<1>5. Len(ops) \in S /\ Len(ops) <= Len(ops)
  BY <1>0, <1>4
<1> QED
  BY <1>1, <1>5 DEF S

\* An operation gives the cache a new copy of the node, which has no place yet.
LEMMA DirtiedFields ==
    ASSUME NEW m \in ReadyState, NEW op \in Op
    PROVE  LET d == Dirtied(m, op)
           IN  /\ d \in ReadyState
               /\ d.cache = [m.cache EXCEPT ![op.ref] = op.node]
               /\ d.ephemeral.locs = [m.ephemeral.locs EXCEPT ![op.ref] = None]
               /\ d.ephemeral.graph = [m.ephemeral.graph EXCEPT ![op.ref] = Successors(op.node)]
               /\ d.persistent = m.persistent /\ d.frozen = m.frozen /\ d.persistentLoc = m.persistentLoc
               /\ d.frozenLoc = m.frozenLoc /\ d.tableWrite = m.tableWrite
               /\ d.blockWrites = m.blockWrites /\ d.blockReads = m.blockReads
<1> DEFINE E == m.ephemeral
           S == Successors(op.node)
           E2 == [E EXCEPT !.locs[op.ref] = None, !.graph[op.ref] = S]
<1>1. op.ref \in Ref /\ op.node \in Node
  BY DEF Op
<1>2. S \subseteq Ref
  BY <1>1, NodeFields
<1> HIDE DEF S
<1>3. E \in Table
  BY ReadyFields
<1>4. Dirtied(m, op) = [m EXCEPT !.cache[op.ref] = op.node, !.ephemeral = E2]
  BY DEF Dirtied, ReadyState, Table, S
<1>5. /\ E2 \in Table
      /\ E2.locs = [E.locs EXCEPT ![op.ref] = None] /\ E2.graph = [E.graph EXCEPT ![op.ref] = S]
  BY <1>1, <1>2, <1>3 DEF Table
<1> HIDE DEF E2
<1>6. /\ [m EXCEPT !.cache[op.ref] = op.node, !.ephemeral = E2] \in ReadyState
      /\ [m EXCEPT !.cache[op.ref] = op.node, !.ephemeral = E2].cache = [m.cache EXCEPT ![op.ref] = op.node]
      /\ [m EXCEPT !.cache[op.ref] = op.node, !.ephemeral = E2].ephemeral = E2
  BY <1>1, <1>5 DEF ReadyState
<1>7. LET d == [m EXCEPT !.cache[op.ref] = op.node, !.ephemeral = E2]
      IN  /\ d.persistent = m.persistent /\ d.frozen = m.frozen /\ d.persistentLoc = m.persistentLoc
          /\ d.frozenLoc = m.frozenLoc /\ d.tableWrite = m.tableWrite
          /\ d.blockWrites = m.blockWrites /\ d.blockReads = m.blockReads
  BY DEF ReadyState
<1> QED
  BY <1>4, <1>5, <1>6, <1>7 DEF S

\* Cell by cell.
LEMMA DirtiedCells ==
    ASSUME NEW m \in ReadyState, NEW op \in Op
    PROVE  LET d == Dirtied(m, op)
           IN  /\ \A s \in Ref :
                     /\ d.cache[s] = IF s = op.ref THEN op.node ELSE m.cache[s]
                     /\ d.ephemeral.locs[s] = IF s = op.ref THEN None ELSE m.ephemeral.locs[s]
                     /\ d.ephemeral.graph[s] = IF s = op.ref THEN Successors(op.node) ELSE m.ephemeral.graph[s]
               /\ Placed(d.ephemeral) = Placed(m.ephemeral) \ {op.ref}
               /\ Refs(d.ephemeral) = Refs(m.ephemeral) \cup {op.ref}
<1> DEFINE d == Dirtied(m, op)
<1>1. op.ref \in Ref /\ op.node \in Node /\ Successors(op.node) \in SUBSET Ref
  BY NodeFields DEF Op
<1>2. /\ d.cache = [m.cache EXCEPT ![op.ref] = op.node]
      /\ d.ephemeral.locs = [m.ephemeral.locs EXCEPT ![op.ref] = None]
      /\ d.ephemeral.graph = [m.ephemeral.graph EXCEPT ![op.ref] = Successors(op.node)]
  BY DirtiedFields
<1>3. /\ m.cache \in [Ref -> Node \cup {None}]
      /\ m.ephemeral.locs \in [Ref -> NodeLoc \cup {None}] /\ m.ephemeral.graph \in [Ref -> (SUBSET Ref) \cup {None}]
  BY ReadyFields, TableFields
<1> HIDE DEF d
<1>4. \A s \in Ref :
         /\ d.cache[s] = IF s = op.ref THEN op.node ELSE m.cache[s]
         /\ d.ephemeral.locs[s] = IF s = op.ref THEN None ELSE m.ephemeral.locs[s]
         /\ d.ephemeral.graph[s] = IF s = op.ref THEN Successors(op.node) ELSE m.ephemeral.graph[s]
  BY <1>1, <1>2, <1>3
<1>5. Placed(d.ephemeral) = Placed(m.ephemeral) \ {op.ref}
  BY <1>4 DEF Placed
<1>6. Successors(op.node) # None
  BY <1>1, NoneAssumption
<1>7. Refs(d.ephemeral) = Refs(m.ephemeral) \cup {op.ref}
  BY <1>1, <1>4, <1>6 DEF Refs
<1> QED
  BY <1>4, <1>5, <1>7 DEF d

\* An operation that is carried out.
LEMMA OpStepIs ==
    ASSUME NEW m, NEW op \in Op, OpStep(m, op) # None
    PROVE  /\ OpStep(m, op) = Dirtied(m, op) /\ m # None
           /\ Successors(op.node) \subseteq Refs(m.ephemeral)
           /\ op.type = "AllocOp" => op.ref \notin Refs(m.ephemeral) /\ m.cache[op.ref] = None
           /\ op.type # "AllocOp" => op.ref \in Refs(m.ephemeral) /\ m.cache[op.ref] # None /\ FrozenHas(op.ref)
  BY DEF OpStep, MayAlloc, MayDirty

\* What a step of the tree can read is a graph of nodes.
LEMMA ReadableType ==
    ASSUME machine \in ReadyState
    PROVE  Readable \in NodeMap
  BY ReadyFields DEF Readable, NodeMap

\* The nodes of a graph.
LEMMA NodesInType ==
    ASSUME NEW g \in NodeMap, NEW r \in NodesIn(g)
    PROVE  r \in Ref /\ g[r] \in Node /\ g[r] # None
  BY DEF NodesIn, NodeMap

\* Allocations and writes are operations.
LEMMA OpMakes ==
    ASSUME NEW r \in Ref, NEW node \in Node
    PROVE  AllocOp(r, node) \in Op /\ WriteOp(r, node) \in Op
  BY DEF AllocOp, WriteOp, Op

\* An insert is one write of the root.
LEMMA InsertIs ==
    ASSUME NEW g \in NodeMap, NEW t \in BetreeInsert(g)
    PROVE  \E k \in Key, v \in Value :
              /\ Root \in NodesIn(g) /\ WFNode(g[Root])
              /\ t.uiop = PutOp(k, v)
              /\ t.ops = <<WriteOp(Root, AddMessageToNode(g[Root], k, Define(v)))>>
              /\ t.ops \in Seq(Op)
<1>1. g[Root] # None /\ WFNode(g[Root]) /\ Root \in Ref
  BY RootAssumption DEF BetreeInsert
<1>2. Root \in NodesIn(g) /\ g[Root] \in Node
  BY <1>1 DEF NodesIn, NodeMap
<1>3. PICK k \in Key, v \in Value : t = Transaction(PutOp(k, v), <<WriteOp(Root, AddMessageToNode(g[Root], k, Define(v)))>>)
  BY DEF BetreeInsert
<1>4. AddMessageToNode(g[Root], k, Define(v)) \in Node
  BY <1>2, InsertNodeType
<1>5. WriteOp(Root, AddMessageToNode(g[Root], k, Define(v))) \in Op
  BY <1>1, <1>4, OpMakes
<1>6. t.uiop = PutOp(k, v) /\ t.ops = <<WriteOp(Root, AddMessageToNode(g[Root], k, Define(v)))>>
  BY <1>3 DEF Transaction
<1> QED
  BY <1>1, <1>2, <1>5, <1>6

\* A flush allocates a child and writes its parent.
LEMMA FlushIs ==
    ASSUME NEW g \in NodeMap, NEW t \in BetreeFlush(g)
    PROVE  \E parent, child \in NodesIn(g), newref \in Ref, moved, flushed \in SUBSET Key :
              /\ WFNode(g[parent]) /\ WFNode(g[child])
              /\ flushed \subseteq moved
              /\ \A k \in moved : g[parent].children[k] = child
              /\ t.uiop = NoOp
              /\ t.ops = <<AllocOp(newref, FlushedChild(g[parent], g[child], flushed)),
                           WriteOp(parent, FlushedParent(g[parent], newref, moved, flushed))>>
              /\ t.ops \in Seq(Op)
<1> DEFINE F(p, c) == {Transaction(NoOp,
                          <<AllocOp(newref, FlushedChild(g[p], g[c], mf[2])),
                            WriteOp(p, FlushedParent(g[p], newref, mf[1], mf[2]))>>) :
                         newref \in Ref, mf \in FlushMoves(g, p, c)}
           wf == {r \in NodesIn(g) : WFNode(g[r])}
<1>0. BetreeFlush(g) = UNION {F(p, c) : p, c \in wf}
  BY DEF BetreeFlush
<1>1. PICK parent, child \in {r \in NodesIn(g) : WFNode(g[r])} : t \in F(parent, child)
  <2> HIDE DEF F
  <2> QED
    BY <1>0
<1>2. PICK newref \in Ref, mf \in FlushMoves(g, parent, child) :
         t = Transaction(NoOp, <<AllocOp(newref, FlushedChild(g[parent], g[child], mf[2])),
                                 WriteOp(parent, FlushedParent(g[parent], newref, mf[1], mf[2]))>>)
  BY <1>1
<1>3. PICK moved \in SUBSET Key, flushed \in SUBSET Key :
         /\ mf[1] = moved /\ mf[2] = flushed
         /\ flushed \subseteq moved
         /\ \A k \in moved : g[parent].children[k] = child
  BY <1>2 DEF FlushMoves
<1>4. parent \in Ref /\ g[parent] \in Node /\ g[child] \in Node /\ WFNode(g[parent]) /\ WFNode(g[child])
      /\ parent \in NodesIn(g) /\ child \in NodesIn(g)
  BY <1>1, NodesInType
<1> DEFINE a == AllocOp(newref, FlushedChild(g[parent], g[child], flushed))
           w == WriteOp(parent, FlushedParent(g[parent], newref, moved, flushed))
<1>5. FlushedChild(g[parent], g[child], flushed) \in Node
  BY <1>4, FlushedChildType
<1>6. FlushedParent(g[parent], newref, moved, flushed) \in Node
  BY <1>4, FlushedParentType
<1>7. a \in Op /\ w \in Op
  BY <1>4, <1>5, <1>6, OpMakes
<1>8. t.uiop = NoOp /\ t.ops = <<a, w>>
  BY <1>2, <1>3 DEF Transaction
<1>9. t.ops \in Seq(Op)
  <2> HIDE DEF a, w
  <2> QED
    BY <1>7, <1>8
<1>10. /\ WFNode(g[parent]) /\ WFNode(g[child])
       /\ flushed \subseteq moved
       /\ \A k \in moved : g[parent].children[k] = child
       /\ t.uiop = NoOp
       /\ t.ops = <<AllocOp(newref, FlushedChild(g[parent], g[child], flushed)),
                    WriteOp(parent, FlushedParent(g[parent], newref, moved, flushed))>>
       /\ t.ops \in Seq(Op)
  BY <1>3, <1>4, <1>8, <1>9
<1> HIDE DEF F, wf, a, w
<1> QED
  BY <1>4, <1>10, Zenon

\* A grow allocates a copy of the root and writes a new root above it.
LEMMA GrowIs ==
    ASSUME NEW g \in NodeMap, NEW t \in BetreeGrow(g)
    PROVE  \E newref \in Ref :
              /\ Root \in NodesIn(g)
              /\ t.uiop = NoOp
              /\ t.ops = <<AllocOp(newref, g[Root]), WriteOp(Root, GrownRoot(newref))>>
              /\ t.ops \in Seq(Op)
<1>1. g[Root] # None /\ Root \in Ref
  BY RootAssumption DEF BetreeGrow
<1>2. Root \in NodesIn(g) /\ g[Root] \in Node
  BY <1>1 DEF NodesIn, NodeMap
<1>3. PICK newref \in Ref : t = Transaction(NoOp, <<AllocOp(newref, g[Root]), WriteOp(Root, GrownRoot(newref))>>)
  BY <1>1 DEF BetreeGrow, GrownRoot
<1> DEFINE a == AllocOp(newref, g[Root])
           w == WriteOp(Root, GrownRoot(newref))
<1>4. a \in Op /\ w \in Op
  BY <1>1, <1>2, OpMakes, GrownRootType
<1>5. t.uiop = NoOp /\ t.ops = <<a, w>>
  BY <1>3 DEF Transaction
<1>6. t.ops \in Seq(Op)
  <2> HIDE DEF a, w
  <2> QED
    BY <1>4, <1>5
<1> QED
  BY <1>2, <1>5, <1>6

\* The children that a redirect allocates.
RedirectAllocs(g, parent, route, keys) ==
    {AllocOp(r, RedirectedChild(g, g[parent], {k \in keys : route[k] = r})) : r \in {route[k] : k \in keys}}

\* They are finitely many.
LEMMA RedirectAllocsFinite ==
    ASSUME NEW g \in NodeMap, NEW parent \in NodesIn(g), NEW keys \in SUBSET Key, NEW route \in [keys -> Ref],
           \A k \in keys : g[parent].children[k] \in NodesIn(g)
    PROVE  /\ IsFiniteSet(RedirectAllocs(g, parent, route, keys))
           /\ RedirectAllocs(g, parent, route, keys) \subseteq Op
<1> DEFINE T == {route[k] : k \in keys}
           C(r) == RedirectedChild(g, g[parent], {k \in keys : route[k] = r})
           A == {AllocOp(r, C(r)) : r \in T}
           f == [r \in T |-> AllocOp(r, C(r))]
<1>1. T \subseteq Ref
  OBVIOUS
<1>2. \A r \in T : C(r) \in Node
  <2> SUFFICES ASSUME NEW r \in T PROVE C(r) \in Node
    OBVIOUS
  <2> DEFINE R == {k \in keys : route[k] = r}
  <2>1. R \in SUBSET Key /\ \A k \in R : g[parent].children[k] \in NodesIn(g)
    OBVIOUS
  <2>2. g[parent] \in Node
    BY NodesInType
  <2> HIDE DEF R
  <2>3. RedirectedChild(g, g[parent], R) \in Node
    BY <2>1, <2>2, RedirectedChildType
  <2> QED
    BY <2>3 DEF R
<1> HIDE DEF C
<1>3. \A r \in T : AllocOp(r, C(r)) \in Op
  BY <1>1, <1>2, OpMakes
<1>4. A \subseteq Op
  BY <1>3
<1>5. IsFiniteSet(T)
  BY <1>1, FiniteAssumption, FS_Subset
<1>6. f \in Surjection(T, A)
  BY DEF Surjection
<1>7. IsFiniteSet(A)
  BY <1>5, <1>6, FS_Surjection
<1> QED
  BY <1>4, <1>7 DEF RedirectAllocs, C

\* A redirect allocates children and writes their parent.
LEMMA RedirectIs ==
    ASSUME NEW g \in NodeMap, NEW t \in BetreeRedirect(g)
    PROVE  \E parent \in NodesIn(g), keys \in SUBSET Key \ {{}} : \E route \in [keys -> Ref] :
              /\ \A s \in {parent} \cup (Successors(g[parent]) \cap NodesIn(g)) : WFNode(g[s])
              /\ \A k \in keys : g[parent].children[k] \in NodesIn(g)
              /\ t.uiop = NoOp
              /\ t.ops = SeqExt!SetToSeq(RedirectAllocs(g, parent, route, keys))
                           \o <<WriteOp(parent, RedirectedParent(g[parent], route))>>
              /\ t.ops \in Seq(Op)
<1>1. PICK parent \in {r \in NodesIn(g) : \A s \in {r} \cup (Successors(g[r]) \cap NodesIn(g)) : WFNode(g[s])} :
         t \in {Transaction(NoOp, RedirectOps(g, parent, route)) :
                  route \in UNION {[keys -> Ref] : keys \in SUBSET {k \in Key : g[parent].children[k] \in NodesIn(g)} \ {{}}}}
  BY DEF BetreeRedirect
<1>2. PICK route \in UNION {[keys -> Ref] : keys \in SUBSET {k \in Key : g[parent].children[k] \in NodesIn(g)} \ {{}}} :
         t = Transaction(NoOp, RedirectOps(g, parent, route))
  BY <1>1
<1>3. PICK keys \in SUBSET {k \in Key : g[parent].children[k] \in NodesIn(g)} \ {{}} : route \in [keys -> Ref]
  BY <1>2
<1>4. /\ keys \in SUBSET Key \ {{}} /\ \A k \in keys : g[parent].children[k] \in NodesIn(g)
      /\ DOMAIN route = keys
  BY <1>3
<1> DEFINE A == RedirectAllocs(g, parent, route, keys)
           w == WriteOp(parent, RedirectedParent(g[parent], route))
<1>5. RedirectOps(g, parent, route) = SeqExt!SetToSeq(A) \o <<w>>
  <2> DEFINE T == {route[k] : k \in DOMAIN route}
             O(r) == AllocOp(r, RedirectedChild(g, g[parent], {k \in DOMAIN route : route[k] = r}))
             al == [r \in T |-> O(r)]
  <2>1. RedirectOps(g, parent, route) = SeqExt!SetToSeq({al[r] : r \in DOMAIN al}) \o <<w>>
    BY DEF RedirectOps
  <2>2. {al[r] : r \in DOMAIN al} = {O(r) : r \in T}
    <3> HIDE DEF O, T
    <3> QED
      OBVIOUS
  <2>3. {O(r) : r \in T} = A
    BY <1>4 DEF RedirectAllocs
  <2> HIDE DEF al, T, O, A, w
  <2> QED
    BY <2>1, <2>2, <2>3
<1>6. IsFiniteSet(A) /\ A \subseteq Op
  BY <1>1, <1>3, <1>4, RedirectAllocsFinite
<1>7. w \in Op
  <2>1. parent \in Ref /\ g[parent] \in Node
    BY <1>1, NodesInType
  <2>2. RedirectedParent(g[parent], route) \in Node
    BY <1>3, <1>4, <2>1, RedirectedParentType
  <2> QED
    BY <2>1, <2>2, OpMakes
<1>8. t.uiop = NoOp /\ t.ops = SeqExt!SetToSeq(A) \o <<w>>
  BY <1>2, <1>5 DEF Transaction
<1>9. t.ops \in Seq(Op)
  <2> HIDE DEF A, w
  <2>1. SeqExt!SetToSeq(A) \in Seq(A)
    BY <1>6, SetToSeqIs
  <2>2. SeqExt!SetToSeq(A) \in Seq(Op)
    BY <1>6, <2>1
  <2>3. <<w>> \in Seq(Op)
    BY <1>7
  <2> QED
    BY <1>8, <2>2, <2>3
<1> QED
  BY <1>1, <1>3, <1>4, <1>8, <1>9

\* Queries change nothing.
LEMMA QueryIs ==
    ASSUME NEW g, NEW t \in BetreeQuery(g) \cup BetreeSuccQuery(g)
    PROVE  t.ops = << >> /\ t.ops \in Seq(Op)
<1>1. CASE t \in BetreeQuery(g)
  <2>1. \E k \in Key : \E v \in ValuesOf(g, k) : t = Transaction(GetOp(k, v), << >>)
    BY <1>1 DEF BetreeQuery
  <2> QED
    BY <2>1 DEF Transaction
<1>2. CASE t \in BetreeSuccQuery(g)
  <2>1. \E u : t = Transaction(u, << >>)
    BY <1>2 DEF BetreeSuccQuery
  <2> QED
    BY <2>1 DEF Transaction
<1> QED
  BY <1>1, <1>2

\* The machines that a transaction passes through: tables, writes and reads are those before it.
MoveStates ==
    {x \in ReadyState :
       /\ x.persistent = machine.persistent /\ x.frozen = machine.frozen
       /\ x.persistentLoc = machine.persistentLoc /\ x.frozenLoc = machine.frozenLoc
       /\ x.tableWrite = machine.tableWrite
       /\ x.blockWrites = machine.blockWrites /\ x.blockReads = machine.blockReads
       /\ CacheOf(x) /\ ReadsOf(x)}

\* Every operation of a transaction keeps to them.
LEMMA OpStepKeeps ==
    ASSUME DiskTypes, NEW x \in MoveStates, NEW op \in Op
    PROVE  OpStep(x, op) \in MoveStates \cup {None}
<1> SUFFICES ASSUME OpStep(x, op) # None PROVE OpStep(x, op) \in MoveStates
  OBVIOUS
<1> DEFINE d == Dirtied(x, op)
<1>1. /\ x \in ReadyState /\ CacheOf(x) /\ ReadsOf(x)
      /\ x.persistent = machine.persistent /\ x.frozen = machine.frozen
      /\ x.persistentLoc = machine.persistentLoc /\ x.frozenLoc = machine.frozenLoc
      /\ x.tableWrite = machine.tableWrite
      /\ x.blockWrites = machine.blockWrites /\ x.blockReads = machine.blockReads
  BY DEF MoveStates
<1>2. /\ OpStep(x, op) = d
      /\ op.type = "AllocOp" => op.ref \notin Refs(x.ephemeral) /\ x.cache[op.ref] = None
      /\ op.type # "AllocOp" => op.ref \in Refs(x.ephemeral) /\ x.cache[op.ref] # None
  BY OpStepIs
<1>3. /\ d \in ReadyState
      /\ d.persistent = x.persistent /\ d.frozen = x.frozen /\ d.persistentLoc = x.persistentLoc
      /\ d.frozenLoc = x.frozenLoc /\ d.tableWrite = x.tableWrite
      /\ d.blockWrites = x.blockWrites /\ d.blockReads = x.blockReads
  BY <1>1, DirtiedFields
<1>4. /\ \A s \in Ref :
            /\ d.cache[s] = IF s = op.ref THEN op.node ELSE x.cache[s]
            /\ d.ephemeral.locs[s] = IF s = op.ref THEN None ELSE x.ephemeral.locs[s]
            /\ d.ephemeral.graph[s] = IF s = op.ref THEN Successors(op.node) ELSE x.ephemeral.graph[s]
      /\ Placed(d.ephemeral) = Placed(x.ephemeral) \ {op.ref}
      /\ Refs(d.ephemeral) = Refs(x.ephemeral) \cup {op.ref}
  BY <1>1, DirtiedCells
<1>5. op.ref \in Ref /\ op.node \in Node
  BY DEF Op
<1>6. Placed(x.ephemeral) \subseteq Refs(x.ephemeral) /\ Placed(x.ephemeral) \subseteq Ref
  BY <1>1 DEF CacheOf, Placed
<1> HIDE DEF d
<1>7. CacheOf(d)
  <2>1. Placed(d.ephemeral) \subseteq Refs(d.ephemeral)
    BY <1>4, <1>6
  <2>2. \A s \in Placed(d.ephemeral) : /\ s \in Placed(x.ephemeral) /\ d.cache[s] = x.cache[s]
                                       /\ d.ephemeral.locs[s] = x.ephemeral.locs[s]
    BY <1>4, <1>6
  <2>3. /\ \A s \in Placed(x.ephemeral) : x.cache[s] # None => x.cache[s] = nodes[x.ephemeral.locs[s]]
        /\ \A id \in ReqId, s \in Placed(x.ephemeral) :
              reqWriteNodes[id] = x.ephemeral.locs[s] => x.cache[s] # None /\ x.blockWrites[id].ref = s
    BY <1>1 DEF CacheOf
  <2> QED
    BY <1>3, <2>1, <2>2, <2>3 DEF CacheOf
<1>8. ReadsOf(d)
  <2>1. /\ \A id, other \in ReqId : x.blockReads[id] # None /\ x.blockReads[other] = x.blockReads[id] => other = id
        /\ \A id \in ReqId : reqReadNodes[id] # None =>
              /\ x.blockReads[id] # None
              /\ x.cache[x.blockReads[id]] = None
              /\ reqReadNodes[id] = x.ephemeral.locs[x.blockReads[id]]
    BY <1>1 DEF ReadsOf
  <2>2. ASSUME NEW id \in ReqId, reqReadNodes[id] # None
        PROVE  x.blockReads[id] \in Ref /\ x.blockReads[id] # op.ref
    <3>1. x.blockReads[id] \in Ref
      BY <1>1, <2>1, <2>2, ReadyFields
    <3>2. x.blockReads[id] \in Placed(x.ephemeral) /\ x.cache[x.blockReads[id]] = None
      BY <2>1, <2>2, <3>1 DEF Placed
    <3> QED
      BY <1>2, <1>6, <3>1, <3>2
  <2>3. \A id \in ReqId : reqReadNodes[id] # None =>
           /\ d.cache[x.blockReads[id]] = x.cache[x.blockReads[id]]
           /\ d.ephemeral.locs[x.blockReads[id]] = x.ephemeral.locs[x.blockReads[id]]
    BY <1>4, <2>2
  <2> QED
    BY <1>3, <2>1, <2>3 DEF ReadsOf
<1>9. d \in MoveStates
  BY <1>1, <1>3, <1>7, <1>8 DEF MoveStates
<1> QED
  BY <1>2, <1>9

\* A step of the tree touches the cache and the ephemeral table only.
LEMMA MoveStays ==
    ASSUME IInv, Ready, NEW t, t.ops \in Seq(Op), BetreeMove(t)
    PROVE  machine' \in MoveStates
<1>1. /\ machine \in ReadyState
      /\ NodeWriteInv /\ TableWriteInv /\ PlaceInv /\ CacheInv /\ ReadInv
      /\ DiskTypes
  BY ReadyParts
<1>2. machine \in MoveStates
  BY <1>1 DEF MoveStates, CacheInv, ReadInv
<1>3. \A x \in MoveStates, op \in Op : OpStep(x, op) \in MoveStates \cup {None}
  BY <1>1, OpStepKeeps
<1>4. OpTransaction(machine, t.ops) \in MoveStates \cup {None}
  <2> DEFINE M == MoveStates
             m == machine
             ops == t.ops
  <2>1. m \in M /\ ops \in Seq(Op) /\ \A x \in M, op \in Op : OpStep(x, op) \in M \cup {None}
    BY <1>2, <1>3
  <2> HIDE DEF M, m, ops
  <2>2. OpTransaction(m, ops) \in M \cup {None}
    BY <2>1, TransactionKeeps
  <2> QED
    BY <2>2 DEF M, m, ops
<1> QED
  BY <1>4 DEF BetreeMove

\* A step of the tree changes what is dirty in the cache, and nothing that is under way.
LEMMA MoveInv ==
    ASSUME IInv, Ready, NEW t, t.ops \in Seq(Op), BetreeMove(t), UNCHANGED dvars
    PROVE  IInv'
<1>1. /\ machine \in ReadyState
      /\ NodeWriteInv /\ TableWriteInv /\ PlaceInv /\ CacheInv /\ ReadInv
      /\ DiskTypes
  BY ReadyParts
<1>2. UNCHANGED <<reqReadTables, reqReadNodes, reqWriteTables, reqWriteNodes, tables, nodes>>
  BY DEF dvars
<1>6. machine' \in MoveStates
  BY MoveStays
<1>7. /\ machine' \in ReadyState
      /\ machine'.persistent = machine.persistent /\ machine'.frozen = machine.frozen
      /\ machine'.persistentLoc = machine.persistentLoc /\ machine'.frozenLoc = machine.frozenLoc
      /\ machine'.tableWrite = machine.tableWrite
      /\ machine'.blockWrites = machine.blockWrites /\ machine'.blockReads = machine.blockReads
      /\ CacheOf(machine') /\ ReadsOf(machine')
  BY <1>6 DEF MoveStates
<1>8. DiskTypes'
  BY <1>1, <1>2 DEF DiskTypes
<1>9. NodeWriteInv' /\ PlaceInv'
  BY <1>1, <1>2, <1>7 DEF NodeWriteInv, PlaceInv
<1>10. TableWriteInv'
  BY <1>1, <1>2, <1>7 DEF TableWriteInv
<1>11. CacheInv'
  BY <1>2, <1>7 DEF CacheInv, CacheOf
<1>12. ReadInv'
  BY <1>2, <1>7 DEF ReadInv, ReadsOf
<1>13. (machine \in ReadyState /\ NodeWriteInv /\ TableWriteInv /\ PlaceInv /\ CacheInv /\ ReadInv /\ DiskTypes => IInv)'
  BY ReadyMakes, PTL
<1> QED
  BY <1>7, <1>8, <1>9, <1>10, <1>11, <1>12, <1>13

\* Whichever operation of the tree it is.
LEMMA BetreeMoveInv ==
    ASSUME IInv, Ready,
           \/ BetreeMoveStep(BetreeInsert(Readable))
           \/ BetreeMoveStep(BetreeFlush(Readable))
           \/ BetreeMoveStep(BetreeGrow(Readable))
           \/ BetreeMoveStep(BetreeRedirect(Readable))
           \/ BetreeMoveStep(BetreeQuery(Readable) \cup BetreeSuccQuery(Readable))
    PROVE  IInv'
<1>1. Readable \in NodeMap
  BY ReadyParts, ReadableType
<1>2. PICK t \in BetreeInsert(Readable) \cup BetreeFlush(Readable) \cup BetreeGrow(Readable) \cup BetreeRedirect(Readable)
                  \cup (BetreeQuery(Readable) \cup BetreeSuccQuery(Readable)) : BetreeMove(t) /\ UNCHANGED dvars
  BY DEF BetreeMoveStep
<1>3. t.ops \in Seq(Op)
  BY <1>1, <1>2, InsertIs, FlushIs, GrowIs, RedirectIs, QueryIs
<1> QED
  BY <1>2, <1>3, MoveInv

\* The inductive step.
LEMMA NextInv == IInv /\ [Next]_vars => IInv'
<1> SUFFICES ASSUME IInv, [Next]_vars PROVE IInv'
  OBVIOUS
<1>1. CASE UNCHANGED vars
  BY <1>1 DEF vars, dvars, IInv, Types, DiskTypes, IdleInv, ReadyInv, NodeWriteInv, TableWriteInv, PlaceInv,
     CacheInv, CacheOf, ReadInv, ReadsOf, Ready
<1>2. CASE Next
  <2>1. CASE \/ Ready /\ BetreeMoveStep(BetreeInsert(Readable))
             \/ Ready /\ BetreeMoveStep(BetreeFlush(Readable))
             \/ Ready /\ BetreeMoveStep(BetreeGrow(Readable))
             \/ Ready /\ BetreeMoveStep(BetreeRedirect(Readable))
             \/ Ready /\ BetreeMoveStep(BetreeQuery(Readable) \cup BetreeSuccQuery(Readable))
    BY <2>1, BetreeMoveInv
  <2> QED
    BY <1>2, <2>1, LoadingInv, PageInIndirectionTableRespInv, WriteBackNodeReqInv, WriteBackNodeRespInv,
       PageInNodeReqInv, PageInNodeRespInv, EvictInv, FreezeInv, WriteBackIndirectionTableReqInv,
       WriteBackIndirectionTableRespInv, CleanUpInv, UnallocInv, NoOpInv, CrashInv
       DEF Next
<1> QED
  BY <1>1, <1>2

\* The inductive invariant holds in every reachable state.
LEMMA AlwaysIInv == Spec => []IInv
  BY InitInv, NextInv, PTL DEF Spec

\* A clean node in the cache is what the disk holds, and a read under way is of the place its node has and that no
\* write is under way to: CacheCoherent holds in every reachable state, over any evictions, write-backs and crashes.
THEOREM CacheAlwaysCoherent == Spec => []CacheCoherent
  BY AlwaysIInv, CacheCoherentFollows, PTL

\* Every write under way is one the machine waits for and goes to a place that neither the persistent tree nor a
\* frozen tree that may become persistent uses: WritesAvoidTrees holds in every reachable state.
THEOREM WritesAlwaysAvoidTrees == Spec => []WritesAvoidTrees
  BY AlwaysIInv, WritesAvoidFollows, PTL

(***************************************************************************)
(* What a tree stands for, without paths: from which references a lookup   *)
(* of key k finds value v.  They are the least set with the nodes that     *)
(* decide k to be v themselves and those that leave k to a child in it.    *)
(***************************************************************************)
\* The nodes that a lookup may pass.
WF(g) == {r \in NodesIn(g) : WFNode(g[r])}

\* S has every node that decides k to be v, by itself or through a child in S.
DecidedIn(g, k, v, S) ==
    \A r \in WF(g) :
       \/ g[r].buffer[k] = Define(v)
       \/ ~Defines(g[r].buffer[k]) /\ g[r].children[k] \in S
       => r \in S

\* The least such set.
Decided(g, k, v) == {r \in Ref : \A S \in SUBSET Ref : DecidedIn(g, k, v, S) => r \in S}

\* It is the least.
LEMMA DecidedLeast ==
    ASSUME NEW g, NEW k, NEW v, NEW S \in SUBSET Ref, DecidedIn(g, k, v, S)
    PROVE  Decided(g, k, v) \subseteq S
  BY DEF Decided

\* It is such a set.
LEMMA DecidedClosed ==
    ASSUME NEW g, NEW k, NEW v
    PROVE  DecidedIn(g, k, v, Decided(g, k, v))
<1> SUFFICES ASSUME NEW r \in WF(g),
                    \/ g[r].buffer[k] = Define(v)
                    \/ ~Defines(g[r].buffer[k]) /\ g[r].children[k] \in Decided(g, k, v),
                    NEW S \in SUBSET Ref, DecidedIn(g, k, v, S)
             PROVE  r \in S
  BY DEF DecidedIn, Decided, WF, NodesIn
<1>1. Decided(g, k, v) \subseteq S
  BY DecidedLeast
<1> QED
  BY <1>1 DEF DecidedIn

\* Its members are decided by themselves or by a child.
LEMMA DecidedHow ==
    ASSUME NEW g, NEW k, NEW v, NEW r \in Decided(g, k, v)
    PROVE  /\ r \in WF(g)
           /\ \/ g[r].buffer[k] = Define(v)
              \/ ~Defines(g[r].buffer[k]) /\ g[r].children[k] \in Decided(g, k, v)
<1> DEFINE D == Decided(g, k, v)
           T == {s \in WF(g) : \/ g[s].buffer[k] = Define(v)
                               \/ ~Defines(g[s].buffer[k]) /\ g[s].children[k] \in D}
<1>1. DecidedIn(g, k, v, D)
  BY DecidedClosed
<1>2. T \subseteq D
  BY <1>1 DEF DecidedIn
<1>3. T \in SUBSET Ref
  BY DEF WF, NodesIn
<1>4. DecidedIn(g, k, v, T)
  <2> HIDE DEF D
  <2> QED
    BY <1>2 DEF DecidedIn
<1>5. D \subseteq T
  BY <1>3, <1>4, DecidedLeast
<1> QED
  BY <1>5

\* Definitions are told apart by their values.
LEMMA DefineIs ==
    /\ \A v, w : Define(v) = Define(w) => v = w
    /\ \A v : Defines(Define(v))
    /\ ~Defines(IdentityMessage)
    /\ \A msg \in Message : \/ msg = IdentityMessage
                            \/ \E v \in Value : msg = Define(v)
  BY DEF Define, Defines, IdentityMessage, Message

\* A reference decides for one value only.
LEMMA DecidedOnce ==
    ASSUME NEW g, NEW k, NEW v, NEW w, NEW r \in Decided(g, k, v), r \in Decided(g, k, w)
    PROVE  v = w
<1> DEFINE S == {s \in Ref : s \in Decided(g, k, w) => v = w}
<1>1. ASSUME NEW s \in WF(g), s \in Decided(g, k, w),
             \/ g[s].buffer[k] = Define(v)
             \/ ~Defines(g[s].buffer[k]) /\ g[s].children[k] \in S
      PROVE  v = w
  <2>1. \/ g[s].buffer[k] = Define(w)
        \/ ~Defines(g[s].buffer[k]) /\ g[s].children[k] \in Decided(g, k, w)
    BY <1>1, DecidedHow
  <2> QED
    BY <1>1, <2>1, DefineIs
<1>2. DecidedIn(g, k, v, S)
  BY <1>1 DEF DecidedIn, WF, NodesIn
<1>3. Decided(g, k, v) \subseteq S
  BY <1>2, DecidedLeast
<1> QED
  BY <1>3

\* In a graph of nodes the decisions are values.
LEMMA DecidedType ==
    ASSUME NEW g \in NodeMap, NEW k \in Key, NEW v, NEW r \in Decided(g, k, v)
    PROVE  v \in Value
<1> DEFINE S == {s \in Ref : v \in Value}
<1>1. ASSUME NEW s \in WF(g), g[s].buffer[k] = Define(v)
      PROVE  v \in Value
  <2>1. g[s] \in Node
    BY NodesInType DEF WF
  <2>2. g[s].buffer[k] \in Message
    BY <2>1, NodeFields
  <2> QED
    BY <1>1, <2>2, DefineIs
<1>2. DecidedIn(g, k, v, S)
  BY <1>1 DEF DecidedIn, WF, NodesIn
<1> QED
  BY <1>2, DecidedLeast

\* A graph in which the same nodes say the same of k, and perhaps more nodes, decides the same.
LEMMA DecidedGrows ==
    ASSUME NEW g, NEW h, NEW k, NEW v,
           \A r \in WF(g) : r \in WF(h) /\ h[r].buffer[k] = g[r].buffer[k] /\ h[r].children[k] = g[r].children[k]
    PROVE  Decided(g, k, v) \subseteq Decided(h, k, v)
<1> DEFINE D == Decided(h, k, v)
<1>1. DecidedIn(h, k, v, D)
  BY DecidedClosed
<1>2. D \in SUBSET Ref
  BY DEF Decided
<1> HIDE DEF D
<1>3. DecidedIn(g, k, v, D)
  BY <1>1 DEF DecidedIn
<1> QED
  BY <1>2, <1>3, DecidedLeast DEF D

(***************************************************************************)
(* Lookups as paths, and that they find what is decided.                   *)
(***************************************************************************)
\* The paths of n nodes.
Paths(g, n) ==
    {q \in [1..n -> WF(g)] : q[1] = Root /\ \A i \in 1..n - 1 : q[i + 1] \in Successors(g[q[i]])}

\* The sequences of n members of S.
ListOf(n, S) == [1..n -> S]

\* A path with one more node.
Extended(p, r) == Append(p, r)

\* The paths that are one node longer than those of P.
Longer(g, P, n) == UNION {{Extended(p, r) : r \in Successors(g[p[n - 1]]) \cap WF(g)} : p \in P}

\* The recursion that Lookups is defined by.
IsPaths(f, g, N) ==
    f = [n \in 1..N |-> IF n = 1 THEN {<<Root>>} \cap [1..1 -> WF(g)] ELSE Longer(g, f[n - 1], n)]

\* Appending a node to a path.
LEMMA AppendPath ==
    ASSUME NEW S, NEW n \in Nat, NEW p \in ListOf(n, S), NEW r \in S, NEW m, m = n + 1
    PROVE  /\ Extended(p, r) \in ListOf(m, S)
           /\ Extended(p, r)[m] = r
           /\ \A i \in 1..n : Extended(p, r)[i] = p[i]
<1> DEFINE q == Append(p, r)
<1>1. p \in Seq(S) /\ Len(p) = n
  BY DEF ListOf
<1>2. q \in Seq(S) /\ Len(q) = n + 1
  BY <1>1
<1>3. q[n + 1] = r /\ \A i \in 1..n : q[i] = p[i]
  BY <1>1
<1> HIDE DEF q
<1>4. q \in [1..n + 1 -> S]
  BY <1>2
<1> QED
  BY <1>3, <1>4 DEF q, Extended, ListOf

\* Functions on 1..n that are the same at every number.
LEMMA SameFunction ==
    ASSUME NEW S, NEW n \in Nat, NEW p \in [1..n -> S], NEW q \in [1..n -> S], \A i \in 1..n : p[i] = q[i]
    PROVE  p = q
  OBVIOUS

\* A path is a shorter one and a node.
LEMMA LongerPaths ==
    ASSUME NEW g, NEW n \in Nat, n >= 1
    PROVE  Longer(g, Paths(g, n), n + 1) = Paths(g, n + 1)
<1> DEFINE W == WF(g)
           m == n + 1
<1>0. m - 1 = n /\ m \in Nat
  OBVIOUS
<1>1. ASSUME NEW p \in Paths(g, n), NEW r \in Successors(g[p[n]]) \cap W
      PROVE  Extended(p, r) \in Paths(g, m)
  <2>1. p \in [1..n -> W] /\ p[1] = Root /\ \A i \in 1..n - 1 : p[i + 1] \in Successors(g[p[i]])
    BY DEF Paths
  <2> DEFINE q == Extended(p, r)
  <2> HIDE DEF W, m
  <2>2. q \in [1..m -> W] /\ q[m] = r /\ \A i \in 1..n : q[i] = p[i]
    <3>1. m = n + 1
      BY DEF m
    <3>2. p \in ListOf(n, W) /\ r \in W /\ n \in Nat
      BY <1>1, <2>1 DEF ListOf
    <3> HIDE DEF q
    <3>3. /\ Extended(p, r) \in ListOf(m, W)
          /\ Extended(p, r)[m] = r
          /\ \A i \in 1..n : Extended(p, r)[i] = p[i]
      BY <3>1, <3>2, AppendPath
    <3> QED
      BY <3>3 DEF q, ListOf
  <2> HIDE DEF q
  <2> USE DEF m
  <2>3. q[1] = Root
    BY <2>1, <2>2
  <2>4. ASSUME NEW i \in 1..n PROVE q[i + 1] \in Successors(g[q[i]])
    <3>1. CASE i = n
      BY <1>1, <2>2, <3>1
    <3>2. CASE i \in 1..n - 1
      <4>1. i + 1 \in 1..n
        BY <3>2
      <4> QED
        BY <2>1, <2>2, <3>2, <4>1
    <3> QED
      BY <3>1, <3>2
  <2> QED
    BY <1>0, <2>2, <2>3, <2>4 DEF Paths, W, q
<1>2. ASSUME NEW q \in Paths(g, m)
      PROVE  \E p \in Paths(g, n) : \E r \in Successors(g[p[n]]) \cap W : q = Extended(p, r)
  <2> DEFINE p == [i \in 1..n |-> q[i]]
             r == q[m]
  <2>1. q \in [1..m -> W] /\ q[1] = Root /\ \A i \in 1..m - 1 : q[i + 1] \in Successors(g[q[i]])
    BY DEF Paths
  <2>2. p \in [1..n -> W] /\ r \in W /\ \A i \in 1..n : p[i] = q[i]
    BY <2>1
  <2> HIDE DEF p, r, W
  <2>3. p \in Paths(g, n)
    <3>1. p[1] = Root
      BY <2>1, <2>2
    <3>2. \A i \in 1..n - 1 : p[i + 1] \in Successors(g[p[i]])
      <4> SUFFICES ASSUME NEW i \in 1..n - 1 PROVE p[i + 1] \in Successors(g[p[i]])
        OBVIOUS
      <4>1. i \in 1..n /\ i + 1 \in 1..n /\ i \in 1..m - 1
        OBVIOUS
      <4> QED
        BY <2>1, <2>2, <4>1
    <3> QED
      BY <2>2, <3>1, <3>2 DEF Paths, W
  <2>4. r \in Successors(g[p[n]])
    <3>1. n \in 1..n /\ n \in 1..m - 1
      OBVIOUS
    <3> QED
      BY <2>1, <2>2, <3>1 DEF r
  <2> DEFINE z == Extended(p, r)
  <2>5. z \in [1..m -> W] /\ z[m] = r /\ \A i \in 1..n : z[i] = p[i]
    <3> HIDE DEF m
    <3>1. m = n + 1
      BY DEF m
    <3>2. p \in ListOf(n, W) /\ r \in W /\ n \in Nat
      BY <2>2 DEF ListOf
    <3> HIDE DEF z
    <3>3. /\ Extended(p, r) \in ListOf(m, W)
          /\ Extended(p, r)[m] = r
          /\ \A i \in 1..n : Extended(p, r)[i] = p[i]
      BY <3>1, <3>2, AppendPath
    <3> QED
      BY <3>3 DEF z, ListOf
  <2> HIDE DEF z
  <2>6. \A i \in 1..m : z[i] = q[i]
    <3> SUFFICES ASSUME NEW i \in 1..m PROVE z[i] = q[i]
      OBVIOUS
    <3>1. i = m \/ i \in 1..n
      OBVIOUS
    <3> QED
      BY <2>2, <2>5, <3>1 DEF r
  <2>7. q = Extended(p, r)
    <3>1. z = q
      BY <1>0, <2>1, <2>5, <2>6, SameFunction
    <3> QED
      BY <3>1 DEF z
  <2> QED
    BY <2>2, <2>3, <2>4, <2>7
<1>3. Longer(g, Paths(g, n), m) = UNION {{Extended(p, r) : r \in Successors(g[p[n]]) \cap W} : p \in Paths(g, n)}
  BY <1>0 DEF Longer
<1> HIDE DEF W, m
<1> DEFINE L == UNION {{Extended(p, r) : r \in Successors(g[p[n]]) \cap W} : p \in Paths(g, n)}
<1>4. \A q : q \in L <=> \E p \in Paths(g, n) : \E r \in Successors(g[p[n]]) \cap W : q = Extended(p, r)
  OBVIOUS
<1> HIDE DEF L
<1>5. \A q : q \in L <=> q \in Paths(g, m)
  <2>1. ASSUME NEW q \in L PROVE q \in Paths(g, m)
    BY <1>1, <1>4
  <2>2. ASSUME NEW q \in Paths(g, m) PROVE q \in L
    <3>1. PICK p \in Paths(g, n) : \E r \in Successors(g[p[n]]) \cap W : q = Extended(p, r)
      BY <1>2
    <3> QED
      BY <1>4, <3>1
  <2> QED
    BY <2>1, <2>2
<1>6. Longer(g, Paths(g, n), m) = Paths(g, m)
  BY <1>3, <1>5 DEF L
<1> QED
  BY <1>6 DEF m

\* The paths of one node.
LEMMA FirstPaths ==
    ASSUME NEW g
    PROVE  {<<Root>>} \cap [1..1 -> WF(g)] = Paths(g, 1)
<1>1. ASSUME NEW q \in Paths(g, 1) PROVE q = <<Root>> /\ q \in [1..1 -> WF(g)]
  BY DEF Paths
<1>2. ASSUME NEW q \in {<<Root>>} \cap [1..1 -> WF(g)] PROVE q \in Paths(g, 1)
  BY DEF Paths
<1> QED
  BY <1>1, <1>2

\* The recursion gives the paths of each length.
LEMMA PathsAre ==
    ASSUME NEW g, NEW N \in Nat
    PROVE  /\ \E f : IsPaths(f, g, N)
           /\ \A f : IsPaths(f, g, N) => \A n \in 1..N : f[n] = Paths(g, n)
<1> DEFINE h == [n \in 1..N |-> Paths(g, n)]
<1>1. IsPaths(h, g, N)
  <2>1. \A n \in 1..N : h[n] = Paths(g, n)
    OBVIOUS
  <2>2. h = [n \in 1..N |-> h[n]]
    OBVIOUS
  <2> HIDE DEF h
  <2>3. ASSUME NEW n \in 1..N
        PROVE  h[n] = IF n = 1 THEN {<<Root>>} \cap [1..1 -> WF(g)] ELSE Longer(g, h[n - 1], n)
    <3>1. CASE n = 1
      BY <2>1, <3>1, FirstPaths
    <3>2. CASE n # 1
      <4> DEFINE j == n - 1
      <4>1. j \in Nat /\ j >= 1 /\ j + 1 = n /\ j \in 1..N
        BY <3>2
      <4> HIDE DEF j
      <4>2. Longer(g, Paths(g, j), j + 1) = Paths(g, j + 1)
        BY <4>1, LongerPaths
      <4>3. h[j] = Paths(g, j) /\ h[n] = Paths(g, n)
        BY <2>1, <4>1
      <4>4. h[n] = Longer(g, h[j], n)
        BY <4>1, <4>2, <4>3
      <4> QED
        BY <3>2, <4>4 DEF j
    <3> QED
      BY <3>1, <3>2
  <2> QED
    BY <2>2, <2>3 DEF IsPaths
<1>2. ASSUME NEW f, IsPaths(f, g, N), NEW n \in 1..N
      PROVE  f[n] = Paths(g, n)
  <2>1. \A i \in 1..N : f[i] = IF i = 1 THEN {<<Root>>} \cap [1..1 -> WF(g)] ELSE Longer(g, f[i - 1], i)
    BY <1>2 DEF IsPaths
  <2> DEFINE S == {i \in Nat : i \in 1..N => f[i] = Paths(g, i)}
  <2>2. 0 \in S
    OBVIOUS
  <2>3. ASSUME NEW i \in Nat, i \in S PROVE i + 1 \in S
    <3> DEFINE j == i + 1
    <3> SUFFICES ASSUME j \in 1..N PROVE f[j] = Paths(g, j)
      OBVIOUS
    <3>1. CASE i = 0
      <4>1. j = 1
        BY <3>1
      <4> HIDE DEF j
      <4>2. f[j] = {<<Root>>} \cap [1..1 -> WF(g)]
        BY <2>1, <4>1
      <4> QED
        BY <4>1, <4>2, FirstPaths
    <3>2. CASE i # 0
      <4>1. i \in 1..N /\ i >= 1 /\ j - 1 = i /\ j # 1 /\ j = i + 1
        BY <3>2
      <4> HIDE DEF j
      <4>2. f[j] = Longer(g, f[i], j)
        BY <2>1, <4>1
      <4>3. f[i] = Paths(g, i)
        BY <2>3, <4>1
      <4> QED
        BY <4>1, <4>2, <4>3, LongerPaths
    <3> QED
      BY <3>1, <3>2
  <2> HIDE DEF S
  <2>4. Nat \subseteq S
    BY <2>2, <2>3, SetInduction
  <2>5. n \in S
    BY <2>4
  <2> QED
    BY <2>5 DEF S
<1> QED
  BY <1>1, <1>2

\* Lookups are the paths of at most as many nodes as there are references.
LEMMA LookupsAre ==
    ASSUME NEW g
    PROVE  Lookups(g) = UNION {Paths(g, n) : n \in 1..Cardinality(Ref)}
<1> DEFINE N == Cardinality(Ref)
           f == CHOOSE paths : IsPaths(paths, g, N)
<1>0. N \in Nat
  BY FiniteAssumption, FS_CardinalityType
<1>1. IsPaths(f, g, N)
  BY <1>0, PathsAre
<1>2. Lookups(g) = UNION {f[n] : n \in 1..N}
  BY DEF Lookups, IsPaths, Longer, Extended, WF
<1> HIDE DEF f, N
<1>3. \A n \in 1..N : f[n] = Paths(g, n)
  BY <1>0, <1>1, PathsAre
<1>4. UNION {f[n] : n \in 1..N} = UNION {Paths(g, n) : n \in 1..N}
  BY <1>3
<1> QED
  BY <1>2, <1>4 DEF N

\* The recursion that InterpretLookup is defined by, for the first N nodes.
IsMerge(f, g, p, k, N) ==
    f = [n \in 0..N |-> IF n = 0 THEN IdentityMessage ELSE Merge(f[n - 1], g[p[n]].buffer[k])]

\* There is such a function for every N.
LEMMA MergeExists ==
    ASSUME NEW g, NEW p, NEW k, NEW N \in Nat
    PROVE  \E f : IsMerge(f, g, p, k, N)
<1> DEFINE S == {i \in Nat : \E f : IsMerge(f, g, p, k, i)}
<1>1. 0 \in S
  <2> DEFINE f == [i \in 0..0 |-> IdentityMessage]
  <2>1. IsMerge(f, g, p, k, 0)
    BY DEF IsMerge
  <2> QED
    BY <2>1
<1>2. ASSUME NEW j \in Nat, j \in S
      PROVE  j + 1 \in S
  <2>1. PICK f : IsMerge(f, g, p, k, j)
    BY <1>2
  <2> DEFINE last == Merge(f[j], g[p[j + 1]].buffer[k])
             h == [i \in 0..j + 1 |-> IF i = j + 1 THEN last ELSE f[i]]
  <2>2. f[0] = IdentityMessage /\ \A i \in 1..j : f[i] = Merge(f[i - 1], g[p[i]].buffer[k])
    <3>1. \A i \in 0..j : f[i] = IF i = 0 THEN IdentityMessage ELSE Merge(f[i - 1], g[p[i]].buffer[k])
      BY <2>1 DEF IsMerge
    <3> HIDE DEF last, h
    <3> QED
      BY <3>1
  <2>3. h = [i \in 0..j + 1 |-> h[i]] /\ h[j + 1] = last /\ \A i \in 0..j : h[i] = f[i]
    OBVIOUS
  <2> HIDE DEF h
  <2>4. ASSUME NEW i \in 0..j + 1
        PROVE  h[i] = IF i = 0 THEN IdentityMessage ELSE Merge(h[i - 1], g[p[i]].buffer[k])
    <3>1. CASE i = 0
      <4>1. 0 \in 0..j
        OBVIOUS
      <4> QED
        BY <2>2, <2>3, <3>1, <4>1
    <3>2. CASE i \in 1..j
      <4>1. i - 1 \in 0..j /\ i \in 0..j /\ i # 0
        BY <3>2
      <4> QED
        BY <2>2, <2>3, <3>2, <4>1
    <3>3. CASE i = j + 1
      <4>1. i - 1 = j /\ j \in 0..j /\ i # 0
        BY <3>3
      <4> QED
        BY <2>3, <3>3, <4>1
    <3> QED
      BY <3>1, <3>2, <3>3
  <2>5. IsMerge(h, g, p, k, j + 1)
    BY <2>3, <2>4 DEF IsMerge
  <2> QED
    BY <2>5
<1> HIDE DEF S
<1>3. Nat \subseteq S
  BY <1>1, <1>2, SetInduction
<1> QED
  BY <1>3 DEF S

\* What a lookup finds, node by node.
LEMMA InterpretIs ==
    ASSUME NEW g, NEW p, NEW k, NEW n \in Nat, Len(p) = n
    PROVE  \E f : /\ f[0] = IdentityMessage
                  /\ \A i \in 1..n : f[i] = Merge(f[i - 1], g[p[i]].buffer[k])
                  /\ InterpretLookup(g, p, k) = f[n]
<1> DEFINE f == CHOOSE msg : IsMerge(msg, g, p, k, n)
<1>1. IsMerge(f, g, p, k, n)
  BY MergeExists
<1>2. InterpretLookup(g, p, k) = f[n]
  BY DEF InterpretLookup, IsMerge
<1> HIDE DEF f
<1>3. \A i \in 0..n : f[i] = IF i = 0 THEN IdentityMessage ELSE Merge(f[i - 1], g[p[i]].buffer[k])
  BY <1>1 DEF IsMerge
<1>4. f[0] = IdentityMessage /\ \A i \in 1..n : f[i] = Merge(f[i - 1], g[p[i]].buffer[k])
  BY <1>3
<1> QED
  BY <1>2, <1>4

\* Merging messages.
LEMMA MergeIs ==
    ASSUME NEW msg
    PROVE  /\ Merge(IdentityMessage, msg) = msg
           /\ \A v : Merge(Define(v), msg) = Define(v)
  BY DEF Merge, Defines, Define, IdentityMessage

\* A lookup that finds something finds what is decided at the root.
LEMMA LookupDecides ==
    ASSUME NEW g \in NodeMap, NEW k \in Key, NEW q \in Lookups(g), FollowsChildRefs(g, q, k),
           Defines(InterpretLookup(g, q, k))
    PROVE  \E v \in Value : InterpretLookup(g, q, k) = Define(v) /\ Root \in Decided(g, k, v)
<1> DEFINE N == Cardinality(Ref)
<1>0. N \in Nat
  BY FiniteAssumption, FS_CardinalityType
<1>1. PICK n \in 1..N : q \in Paths(g, n)
  BY LookupsAre
<1>2. /\ n \in Nat /\ n >= 1 /\ q \in [1..n -> WF(g)] /\ q[1] = Root /\ Len(q) = n
  BY <1>0, <1>1 DEF Paths
<1>3. \A i \in 1..n - 1 : g[q[i]].children[k] = q[i + 1]
  BY <1>2 DEF FollowsChildRefs
<1>4. PICK f : /\ f[0] = IdentityMessage
               /\ \A i \in 1..n : f[i] = Merge(f[i - 1], g[q[i]].buffer[k])
               /\ InterpretLookup(g, q, k) = f[n]
  BY <1>2, InterpretIs
<1> DEFINE Leads(i) == \A v : q[i] \in Decided(g, k, v) => Root \in Decided(g, k, v)
           Holds(i) == \/ f[i] = IdentityMessage /\ (i < n => Leads(i + 1))
                       \/ \E v \in Value : f[i] = Define(v) /\ Root \in Decided(g, k, v)
           S == {i \in Nat : i <= n => Holds(i)}
<1>5. 0 \in S
  BY <1>2, <1>4
<1>6. ASSUME NEW i \in Nat, i \in S PROVE i + 1 \in S
  <2> DEFINE j == i + 1
             msg == g[q[j]].buffer[k]
  <2> SUFFICES ASSUME j <= n PROVE Holds(j)
    OBVIOUS
  <2>1. i < n /\ j \in 1..n /\ j - 1 = i /\ i <= n
    OBVIOUS
  <2>2. q[j] \in WF(g)
    BY <1>2, <2>1
  <2>3. g[q[j]] \in Node
    BY <2>2, NodesInType DEF WF
  <2>4. msg \in Message
    BY <2>3, NodeFields
  <2>5. f[j] = Merge(f[i], msg)
    BY <1>4, <2>1
  <2>6. Holds(i)
    BY <1>6, <2>1
  <2>7. CASE \E v \in Value : f[i] = Define(v) /\ Root \in Decided(g, k, v)
    <3> HIDE DEF j, msg, Leads
    <3> QED
      BY <2>5, <2>7, MergeIs
  <2>8. CASE f[i] = IdentityMessage /\ (i < n => Leads(i + 1))
    <3>1. Leads(j) /\ f[j] = msg
      BY <2>1, <2>5, <2>8, MergeIs
    <3>2. CASE msg = IdentityMessage
      <4>1. f[j] = IdentityMessage
        BY <3>1, <3>2
      <4>2. ASSUME j < n PROVE Leads(j + 1)
        <5>1. j \in 1..n - 1
          BY <4>2, <2>1
        <5>2. g[q[j]].children[k] = q[j + 1]
          BY <1>3, <5>1
        <5> HIDE DEF j
        <5> SUFFICES ASSUME NEW v, q[j + 1] \in Decided(g, k, v) PROVE Root \in Decided(g, k, v)
          OBVIOUS
        <5>3. DecidedIn(g, k, v, Decided(g, k, v))
          BY DecidedClosed
        <5>4. ~Defines(msg)
          BY <3>2, DefineIs
        <5>5. q[j] \in Decided(g, k, v)
          BY <2>2, <5>2, <5>3, <5>4 DEF DecidedIn
        <5> QED
          BY <3>1, <5>5
      <4> HIDE DEF j, Leads
      <4> QED
        BY <4>1, <4>2
    <3>3. CASE msg # IdentityMessage
      <4>1. PICK v \in Value : msg = Define(v)
        BY <2>4, <3>3, DefineIs
      <4>2. DecidedIn(g, k, v, Decided(g, k, v))
        BY DecidedClosed
      <4> HIDE DEF j
      <4>3. q[j] \in Decided(g, k, v)
        BY <2>2, <4>1, <4>2 DEF DecidedIn
      <4>4. Root \in Decided(g, k, v)
        BY <3>1, <4>3
      <4> HIDE DEF Leads
      <4> QED
        BY <3>1, <4>1, <4>4
    <3> QED
      BY <3>2, <3>3
  <2> HIDE DEF Leads, j, msg
  <2> QED
    BY <2>6, <2>7, <2>8
<1> HIDE DEF S
<1>7. Nat \subseteq S
  BY <1>5, <1>6, SetInduction
<1>8. Holds(n)
  BY <1>2, <1>7 DEF S
<1>9. f[n] # IdentityMessage
  BY <1>4, DefineIs
<1> HIDE DEF Leads
<1> QED
  BY <1>4, <1>8, <1>9

\* A way of n different nodes from r on which the last one decides k to be v.
Leading(g, k, v, r, n, q) ==
    /\ q \in ListOf(n, WF(g))
    /\ q[1] = r
    /\ \A i \in 1..n - 1 : ~Defines(g[q[i]].buffer[k]) /\ g[q[i]].children[k] = q[i + 1]
    /\ g[q[n]].buffer[k] = Define(v)
    /\ \A i, j \in 1..n : q[i] = q[j] => i = j

\* A way of one node.
LEMMA LeadingOne ==
    ASSUME NEW g, NEW k, NEW v, NEW r \in WF(g), g[r].buffer[k] = Define(v)
    PROVE  \E q : Leading(g, k, v, r, 1, q)
<1> DEFINE q == [i \in 1..1 |-> r]
<1>1. q \in [1..1 -> WF(g)] /\ \A i \in 1..1 : q[i] = r
  OBVIOUS
<1> HIDE DEF q
<1>2. Leading(g, k, v, r, 1, q)
  BY <1>1 DEF Leading, ListOf
<1> QED
  BY <1>2

\* The rest of a way is a way.
LEMMA LeadingRest ==
    ASSUME NEW g, NEW k, NEW v, NEW r, NEW n \in Nat, NEW q, Leading(g, k, v, r, n, q), NEW j \in 1..n
    PROVE  \E m \in Nat \ {0} : \E p : Leading(g, k, v, q[j], m, p)
<1> DEFINE m == n - j + 1
           p == [i \in 1..m |-> q[i + j - 1]]
<1>1. m \in Nat \ {0} /\ m >= 1 /\ \A i \in 1..m : i + j - 1 \in 1..n
  OBVIOUS
<1>2. /\ q \in [1..n -> WF(g)]
      /\ \A i \in 1..n - 1 : ~Defines(g[q[i]].buffer[k]) /\ g[q[i]].children[k] = q[i + 1]
      /\ g[q[n]].buffer[k] = Define(v)
      /\ \A i, l \in 1..n : q[i] = q[l] => i = l
  BY DEF Leading, ListOf
<1>3. \A i \in 1..m : p[i] = q[i + j - 1]
  OBVIOUS
<1>4. p \in [1..m -> WF(g)]
  BY <1>1, <1>2
<1> HIDE DEF p
<1>5. p[1] = q[j]
  <2>1. 1 \in 1..m /\ 1 + j - 1 = j
    BY <1>1
  <2> QED
    BY <1>3, <2>1
<1>6. p[m] = q[n]
  <2>1. m \in 1..m /\ m + j - 1 = n
    BY <1>1
  <2> QED
    BY <1>3, <2>1
<1>7. ASSUME NEW i \in 1..m - 1
      PROVE  ~Defines(g[p[i]].buffer[k]) /\ g[p[i]].children[k] = p[i + 1]
  <2> DEFINE l == i + j - 1
  <2>1. i \in 1..m /\ i + 1 \in 1..m /\ l \in 1..n - 1 /\ l + 1 = (i + 1) + j - 1
    BY <1>1
  <2>2. p[i] = q[l] /\ p[i + 1] = q[l + 1]
    BY <1>3, <2>1
  <2> HIDE DEF l
  <2> QED
    BY <1>2, <2>1, <2>2
<1>8. ASSUME NEW i \in 1..m, NEW l \in 1..m, p[i] = p[l]
      PROVE  i = l
  <2>1. i + j - 1 \in 1..n /\ l + j - 1 \in 1..n
    BY <1>1
  <2>2. q[i + j - 1] = q[l + j - 1]
    BY <1>3, <1>8
  <2>3. i + j - 1 = l + j - 1
    BY <1>2, <2>1, <2>2
  <2> QED
    BY <2>3
<1> HIDE DEF m
<1>9. Leading(g, k, v, q[j], m, p)
  BY <1>2, <1>4, <1>5, <1>6, <1>7, <1>8 DEF Leading, ListOf
<1> QED
  BY <1>1, <1>9

\* A way behind a node that leaves k to the first of it.
LEMMA LeadingMore ==
    ASSUME NEW g, NEW k, NEW v, NEW r, NEW n \in Nat \ {0}, NEW q, Leading(g, k, v, r, n, q),
           NEW s \in WF(g), ~Defines(g[s].buffer[k]), g[s].children[k] = r, \A j \in 1..n : q[j] # s
    PROVE  \E m \in Nat \ {0} : \E p : Leading(g, k, v, s, m, p)
<1> DEFINE m == n + 1
           p == [i \in 1..m |-> IF i = 1 THEN s ELSE q[i - 1]]
<1>1. m \in Nat \ {0} /\ \A i \in 1..m : i # 1 => i - 1 \in 1..n
  OBVIOUS
<1>2. /\ q \in [1..n -> WF(g)] /\ q[1] = r
      /\ \A i \in 1..n - 1 : ~Defines(g[q[i]].buffer[k]) /\ g[q[i]].children[k] = q[i + 1]
      /\ g[q[n]].buffer[k] = Define(v)
      /\ \A i, l \in 1..n : q[i] = q[l] => i = l
  BY DEF Leading, ListOf
<1>3. p[1] = s /\ \A i \in 1..m : i # 1 => p[i] = q[i - 1]
  OBVIOUS
<1>4. p \in [1..m -> WF(g)]
  BY <1>1, <1>2
<1> HIDE DEF p
<1>5. p[m] = q[n]
  <2>1. m \in 1..m /\ m - 1 = n /\ m # 1
    BY <1>1
  <2> QED
    BY <1>3, <2>1
<1>6. ASSUME NEW i \in 1..m - 1
      PROVE  ~Defines(g[p[i]].buffer[k]) /\ g[p[i]].children[k] = p[i + 1]
  <2>1. CASE i = 1
    <3>1. i + 1 \in 1..m /\ i + 1 # 1 /\ (i + 1) - 1 = 1
      BY <2>1
    <3>2. p[i + 1] = q[1]
      BY <1>3, <3>1
    <3> QED
      BY <1>2, <1>3, <2>1, <3>2
  <2>2. CASE i # 1
    <3> DEFINE l == i - 1
    <3>1. i \in 1..m /\ i + 1 \in 1..m /\ i + 1 # 1 /\ l \in 1..n - 1 /\ (i + 1) - 1 = l + 1
      BY <1>1, <2>2
    <3>2. p[i] = q[l] /\ p[i + 1] = q[l + 1]
      BY <1>3, <2>2, <3>1
    <3> HIDE DEF l
    <3> QED
      BY <1>2, <3>1, <3>2
  <2> QED
    BY <2>1, <2>2
<1>7. ASSUME NEW i \in 1..m, NEW l \in 1..m, p[i] = p[l]
      PROVE  i = l
  <2>1. CASE i = 1 \/ l = 1
    BY <1>1, <1>3, <1>7, <2>1
  <2>2. CASE i # 1 /\ l # 1
    <3>1. i - 1 \in 1..n /\ l - 1 \in 1..n
      BY <1>1, <2>2
    <3>2. q[i - 1] = q[l - 1]
      BY <1>3, <1>7, <2>2
    <3>3. i - 1 = l - 1
      BY <1>2, <3>1, <3>2
    <3> QED
      BY <3>3
  <2> QED
    BY <2>1, <2>2
<1> HIDE DEF m
<1>8. Leading(g, k, v, s, m, p)
  BY <1>2, <1>3, <1>4, <1>5, <1>6, <1>7 DEF Leading, ListOf
<1> QED
  BY <1>1, <1>8

\* There is a way from everywhere where k is decided.
LEMMA DecidedLeading ==
    ASSUME NEW g, NEW k, NEW v, NEW r \in Decided(g, k, v)
    PROVE  \E n \in Nat \ {0} : \E q : Leading(g, k, v, r, n, q)
<1> DEFINE S == {s \in Ref : \E n \in Nat \ {0} : \E q : Leading(g, k, v, s, n, q)}
<1>1. ASSUME NEW s \in WF(g), g[s].buffer[k] = Define(v)
      PROVE  s \in S
  <2>1. \E q : Leading(g, k, v, s, 1, q)
    BY <1>1, LeadingOne
  <2> QED
    BY <2>1 DEF WF, NodesIn
<1>2. ASSUME NEW s \in WF(g), ~Defines(g[s].buffer[k]), g[s].children[k] \in S
      PROVE  s \in S
  <2>0. PICK n \in Nat \ {0} : \E q : Leading(g, k, v, g[s].children[k], n, q)
    BY <1>2
  <2>1. PICK q : Leading(g, k, v, g[s].children[k], n, q)
    BY <2>0
  <2>2. CASE \E j \in 1..n : q[j] = s
    <3>1. PICK j \in 1..n : q[j] = s
      BY <2>2
    <3>2. \E m \in Nat \ {0} : \E p : Leading(g, k, v, q[j], m, p)
      BY <2>1, LeadingRest
    <3> QED
      BY <3>1, <3>2 DEF WF, NodesIn
  <2>3. CASE \A j \in 1..n : q[j] # s
    <3>1. \E m \in Nat \ {0} : \E p : Leading(g, k, v, s, m, p)
      BY <1>2, <2>1, <2>3, LeadingMore
    <3> QED
      BY <3>1 DEF WF, NodesIn
  <2> QED
    BY <2>2, <2>3
<1> HIDE DEF S
<1>3. DecidedIn(g, k, v, S)
  BY <1>1, <1>2 DEF DecidedIn
<1>4. r \in S
  <2>1. S \in SUBSET Ref
    BY DEF S
  <2> QED
    BY <1>3, <2>1, DecidedLeast
<1> QED
  BY <1>4 DEF S

\* A way is no longer than there are references.
LEMMA LeadingBound ==
    ASSUME NEW g, NEW k, NEW v, NEW r, NEW n \in Nat, NEW q, Leading(g, k, v, r, n, q)
    PROVE  n <= Cardinality(Ref)
<1>1. q \in [1..n -> Ref] /\ \A i, j \in 1..n : q[i] = q[j] => i = j
  BY DEF Leading, ListOf, WF, NodesIn
<1>2. q \in Injection(1..n, Ref)
  BY <1>1 DEF Injection, IsInjective
<1>3. IsFiniteSet(1..n) /\ Cardinality(1..n) = n
  BY FS_Interval
<1>4. Cardinality(1..n) <= Cardinality(Ref)
  BY <1>2, FiniteAssumption, FS_Injection
<1> QED
  BY <1>3, <1>4

\* What is decided at the root some lookup finds.
LEMMA DecidedFound ==
    ASSUME NEW g \in NodeMap, NEW k \in Key, NEW v, Root \in Decided(g, k, v)
    PROVE  \E q \in Lookups(g) : FollowsChildRefs(g, q, k) /\ InterpretLookup(g, q, k) = Define(v)
<1>0. PICK n \in Nat \ {0} : \E q : Leading(g, k, v, Root, n, q)
  BY DecidedLeading
<1>1. PICK q : Leading(g, k, v, Root, n, q)
  BY <1>0
<1>2. /\ q \in [1..n -> WF(g)] /\ q[1] = Root /\ Len(q) = n
      /\ \A i \in 1..n - 1 : ~Defines(g[q[i]].buffer[k]) /\ g[q[i]].children[k] = q[i + 1]
      /\ g[q[n]].buffer[k] = Define(v)
  BY <1>1 DEF Leading, ListOf
<1>3. FollowsChildRefs(g, q, k)
  BY <1>2 DEF FollowsChildRefs
<1>4. q \in Paths(g, n)
  <2>1. ASSUME NEW i \in 1..n - 1
        PROVE  q[i + 1] \in Successors(g[q[i]])
    <3>1. q[i + 1] \in Ref
      BY <1>2 DEF WF, NodesIn
    <3>2. g[q[i]].children[k] = q[i + 1] /\ q[i + 1] # None
      BY <1>2, <3>1, RootAssumption
    <3> QED
      BY <3>2 DEF Successors
  <2> QED
    BY <1>2, <2>1 DEF Paths
<1>5. q \in Lookups(g)
  <2>1. Cardinality(Ref) \in Nat
    BY FiniteAssumption, FS_CardinalityType
  <2>2. n \in 1..Cardinality(Ref)
    BY <1>1, <2>1, LeadingBound
  <2> QED
    BY <1>4, <2>2, LookupsAre
<1>6. PICK f : /\ f[0] = IdentityMessage
               /\ \A i \in 1..n : f[i] = Merge(f[i - 1], g[q[i]].buffer[k])
               /\ InterpretLookup(g, q, k) = f[n]
  <2>1. n \in Nat /\ Len(q) = n
    BY <1>2
  <2> QED
    BY <2>1, InterpretIs
<1>7. \A i \in 1..n - 1 : g[q[i]].buffer[k] = IdentityMessage
  <2> SUFFICES ASSUME NEW i \in 1..n - 1 PROVE g[q[i]].buffer[k] = IdentityMessage
    OBVIOUS
  <2>1. q[i] \in WF(g)
    BY <1>2
  <2>2. g[q[i]] \in Node
    BY <2>1, NodesInType DEF WF
  <2>3. g[q[i]].buffer[k] \in Message
    BY <2>2, NodeFields
  <2> QED
    BY <1>2, <2>3, DefineIs
<1> DEFINE S == {i \in Nat : i < n => f[i] = IdentityMessage}
<1>8. 0 \in S
  BY <1>6
<1>9. ASSUME NEW i \in Nat, i \in S PROVE i + 1 \in S
  <2> DEFINE j == i + 1
  <2> SUFFICES ASSUME j < n PROVE f[j] = IdentityMessage
    OBVIOUS
  <2>1. j \in 1..n - 1 /\ j \in 1..n /\ j - 1 = i /\ i < n
    OBVIOUS
  <2> HIDE DEF j
  <2>2. f[j] = Merge(f[i], g[q[j]].buffer[k]) /\ f[i] = IdentityMessage
    BY <1>6, <1>9, <2>1
  <2> QED
    BY <1>7, <2>1, <2>2, MergeIs
<1> HIDE DEF S
<1>10. Nat \subseteq S
  BY <1>8, <1>9, SetInduction
<1>11. f[n - 1] = IdentityMessage
  BY <1>10 DEF S
<1>12. f[n] = Define(v)
  <2>1. f[n] = Merge(f[n - 1], g[q[n]].buffer[k])
    BY <1>6
  <2> QED
    BY <1>2, <1>11, <2>1, MergeIs
<1> QED
  BY <1>3, <1>5, <1>6, <1>12

\* The values that lookups give a key are the ones the root decides for.
LEMMA ValuesAre ==
    ASSUME NEW g \in NodeMap, NEW k \in Key
    PROVE  ValuesOf(g, k) = {v \in Value : Root \in Decided(g, k, v)}
<1>1. ASSUME NEW v \in ValuesOf(g, k)
      PROVE  v \in Value /\ Root \in Decided(g, k, v)
  <2>1. PICK q \in Lookups(g) : /\ FollowsChildRefs(g, q, k) /\ Defines(InterpretLookup(g, q, k))
                                /\ v = InterpretLookup(g, q, k).value
    BY DEF ValuesOf
  <2>2. PICK w \in Value : InterpretLookup(g, q, k) = Define(w) /\ Root \in Decided(g, k, w)
    BY <2>1, LookupDecides
  <2> QED
    BY <2>1, <2>2 DEF Define
<1>2. ASSUME NEW v \in Value, Root \in Decided(g, k, v)
      PROVE  v \in ValuesOf(g, k)
  <2>1. PICK q \in Lookups(g) : FollowsChildRefs(g, q, k) /\ InterpretLookup(g, q, k) = Define(v)
    BY <1>2, DecidedFound
  <2>2. Defines(InterpretLookup(g, q, k)) /\ InterpretLookup(g, q, k).value = v
    BY <2>1, DefineIs DEF Define
  <2> QED
    BY <2>1, <2>2 DEF ValuesOf
<1> QED
  BY <1>1, <1>2

\* A key has one value at most, and a dictionary gives it.
LEMMA IViewIs ==
    ASSUME NEW g \in NodeMap, NEW k \in Key
    PROVE  /\ KeyHasSatisfyingLookup(g, k) <=> \E v \in Value : Root \in Decided(g, k, v)
           /\ \A v : Root \in Decided(g, k, v) => IView(g)[k] = v
<1>1. ValuesOf(g, k) = {v \in Value : Root \in Decided(g, k, v)}
  BY ValuesAre
<1>2. ASSUME NEW v, Root \in Decided(g, k, v) PROVE IView(g)[k] = v
  <2>1. v \in Value
    BY <1>2, DecidedType
  <2>2. ValuesOf(g, k) = {v}
    BY <1>1, <1>2, <2>1, DecidedOnce
  <2> QED
    BY <2>2 DEF IView
<1> QED
  BY <1>1, <1>2 DEF KeyHasSatisfyingLookup

(***************************************************************************)
(* Trees have no cycles: their nodes can be given ranks that get smaller   *)
(* from a node to its children.                                            *)
(***************************************************************************)
\* The children of a node, if there is one.
Below(g, r) == IF g[r] = None THEN {} ELSE Successors(g[r])

\* S and the children of its nodes.
Grown(g, S) == UNION {{r} \cup Below(g, r) : r \in S}

\* S has the children of its nodes.
ClosedUnder(g, S) == \A r \in S : Below(g, r) \subseteq S

\* The nodes of g have ranks.
IsRanked(g) ==
    \E rank \in [Ref -> Nat] : \A r \in NodesIn(g) : \A s \in Successors(g[r]) : rank[s] < rank[r]

\* The recursion that ReachableFrom is defined by.
IsReach(f, g, R, N) ==
    f = [n \in 0..N |-> IF n = 0 THEN R ELSE Grown(g, f[n - 1])]

\* There is such a function for every N.
LEMMA ReachExists ==
    ASSUME NEW g, NEW R, NEW N \in Nat
    PROVE  \E f : IsReach(f, g, R, N)
<1> DEFINE S == {i \in Nat : \E f : IsReach(f, g, R, i)}
<1>1. 0 \in S
  <2> DEFINE f == [i \in 0..0 |-> R]
  <2>1. IsReach(f, g, R, 0)
    BY DEF IsReach
  <2> QED
    BY <2>1
<1>2. ASSUME NEW j \in Nat, j \in S
      PROVE  j + 1 \in S
  <2>1. PICK f : IsReach(f, g, R, j)
    BY <1>2
  <2> DEFINE last == Grown(g, f[j])
             h == [i \in 0..j + 1 |-> IF i = j + 1 THEN last ELSE f[i]]
  <2>2. f[0] = R /\ \A i \in 1..j : f[i] = Grown(g, f[i - 1])
    <3>1. \A i \in 0..j : f[i] = IF i = 0 THEN R ELSE Grown(g, f[i - 1])
      BY <2>1 DEF IsReach
    <3> HIDE DEF last, h
    <3> QED
      BY <3>1
  <2>3. h = [i \in 0..j + 1 |-> h[i]] /\ h[j + 1] = last /\ \A i \in 0..j : h[i] = f[i]
    OBVIOUS
  <2> HIDE DEF h
  <2>4. ASSUME NEW i \in 0..j + 1
        PROVE  h[i] = IF i = 0 THEN R ELSE Grown(g, h[i - 1])
    <3>1. CASE i = 0
      <4>1. 0 \in 0..j
        OBVIOUS
      <4> QED
        BY <2>2, <2>3, <3>1, <4>1
    <3>2. CASE i \in 1..j
      <4>1. i - 1 \in 0..j /\ i \in 0..j /\ i # 0
        BY <3>2
      <4> QED
        BY <2>2, <2>3, <3>2, <4>1
    <3>3. CASE i = j + 1
      <4>1. i - 1 = j /\ j \in 0..j /\ i # 0
        BY <3>3
      <4> QED
        BY <2>3, <3>3, <4>1
    <3> QED
      BY <3>1, <3>2, <3>3
  <2>5. IsReach(h, g, R, j + 1)
    BY <2>3, <2>4 DEF IsReach
  <2> QED
    BY <2>5
<1> HIDE DEF S
<1>3. Nat \subseteq S
  BY <1>1, <1>2, SetInduction
<1> QED
  BY <1>3 DEF S

\* ReachableFrom, step by step.
LEMMA ReachSteps ==
    ASSUME NEW g, NEW R, NEW N \in Nat, N = Cardinality(Ref)
    PROVE  \E f : /\ f[0] = R
                  /\ \A i \in 1..N : f[i] = Grown(g, f[i - 1])
                  /\ ReachableFrom(g, R) = f[N]
<1> DEFINE f == CHOOSE reach : IsReach(reach, g, R, N)
<1>1. IsReach(f, g, R, N)
  BY ReachExists
<1>2. ReachableFrom(g, R) = f[N]
  BY DEF ReachableFrom, IsReach, Grown, Below
<1> HIDE DEF f
<1>3. \A i \in 0..N : f[i] = IF i = 0 THEN R ELSE Grown(g, f[i - 1])
  BY <1>1 DEF IsReach
<1>4. f[0] = R /\ \A i \in 1..N : f[i] = Grown(g, f[i - 1])
  BY <1>3
<1> QED
  BY <1>2, <1>4

\* Children are references.
LEMMA BelowType ==
    ASSUME NEW g \in NodeMap, NEW r \in Ref
    PROVE  Below(g, r) \subseteq Ref
<1>1. g[r] # None => g[r] \in Node
  BY DEF NodeMap
<1> QED
  BY <1>1, NodeFields DEF Below

\* A set grows unless it is closed.
LEMMA GrownIs ==
    ASSUME NEW g \in NodeMap, NEW S \in SUBSET Ref
    PROVE  /\ S \subseteq Grown(g, S) /\ Grown(g, S) \subseteq Ref
           /\ Grown(g, S) = S <=> ClosedUnder(g, S)
           /\ \A C : S \subseteq C /\ ClosedUnder(g, C) => Grown(g, S) \subseteq C
<1>1. \A r \in S : Below(g, r) \subseteq Ref
  BY BelowType
<1>2. \A x : x \in Grown(g, S) <=> \E r \in S : x = r \/ x \in Below(g, r)
  BY DEF Grown
<1>3. S \subseteq Grown(g, S) /\ Grown(g, S) \subseteq Ref
  BY <1>1, <1>2
<1>4. Grown(g, S) = S <=> ClosedUnder(g, S)
  BY <1>2 DEF ClosedUnder
<1>5. ASSUME NEW C, S \subseteq C, ClosedUnder(g, C) PROVE Grown(g, S) \subseteq C
  BY <1>2, <1>5 DEF ClosedUnder
<1> QED
  BY <1>3, <1>4, <1>5

\* ReachableFrom is the least closed set with R.
LEMMA ReachIs ==
    ASSUME NEW g \in NodeMap, NEW R \in SUBSET Ref
    PROVE  /\ ReachableFrom(g, R) \subseteq Ref /\ R \subseteq ReachableFrom(g, R)
           /\ ClosedUnder(g, ReachableFrom(g, R))
           /\ \A C : R \subseteq C /\ ClosedUnder(g, C) => ReachableFrom(g, R) \subseteq C
<1> DEFINE N == Cardinality(Ref)
<1>0. N \in Nat
  BY FiniteAssumption, FS_CardinalityType
<1>1. PICK f : /\ f[0] = R
               /\ \A i \in 1..N : f[i] = Grown(g, f[i - 1])
               /\ ReachableFrom(g, R) = f[N]
  BY <1>0, ReachSteps
<1> DEFINE S == {i \in Nat : i <= N =>
                   /\ f[i] \in SUBSET Ref
                   /\ R \subseteq f[i]
                   /\ \A C : R \subseteq C /\ ClosedUnder(g, C) => f[i] \subseteq C
                   /\ ClosedUnder(g, f[i]) \/ Cardinality(f[i]) >= i}
<1>2. 0 \in S
  <2>1. IsFiniteSet(R)
    BY FiniteAssumption, FS_Subset
  <2>2. Cardinality(R) \in Nat
    BY <2>1, FS_CardinalityType
  <2> HIDE DEF N
  <2> QED
    BY <1>1, <2>2
<1>3. ASSUME NEW i \in Nat, i \in S PROVE i + 1 \in S
  <2> DEFINE j == i + 1
             A == f[i]
             B == f[j]
  <2> SUFFICES ASSUME j <= N
               PROVE  /\ B \in SUBSET Ref
                      /\ R \subseteq B
                      /\ \A C : R \subseteq C /\ ClosedUnder(g, C) => B \subseteq C
                      /\ ClosedUnder(g, B) \/ Cardinality(B) >= j
    OBVIOUS
  <2>1. i <= N /\ j \in 1..N /\ j - 1 = i
    BY <1>0
  <2>2. /\ A \in SUBSET Ref
        /\ R \subseteq A
        /\ \A C : R \subseteq C /\ ClosedUnder(g, C) => A \subseteq C
        /\ ClosedUnder(g, A) \/ Cardinality(A) >= i
    BY <1>3, <2>1
  <2>3. B = Grown(g, A)
    BY <1>1, <2>1
  <2> HIDE DEF A, B, N
  <2>4. /\ A \subseteq B /\ B \subseteq Ref
        /\ B = A <=> ClosedUnder(g, A)
        /\ \A C : A \subseteq C /\ ClosedUnder(g, C) => B \subseteq C
    BY <2>2, <2>3, GrownIs
  <2>5. ClosedUnder(g, B) \/ Cardinality(B) >= j
    <3>1. CASE ClosedUnder(g, A)
      BY <2>4, <3>1
    <3>2. CASE ~ClosedUnder(g, A)
      <4>1. A # B /\ Cardinality(A) >= i
        BY <2>2, <2>4, <3>2
      <4>2. IsFiniteSet(B)
        BY <2>4, FiniteAssumption, FS_Subset
      <4>3. /\ IsFiniteSet(A) /\ Cardinality(A) <= Cardinality(B)
            /\ Cardinality(A) = Cardinality(B) => A = B
        BY <2>4, <4>2, FS_Subset
      <4>4. Cardinality(A) \in Nat /\ Cardinality(B) \in Nat
        BY <4>2, <4>3, FS_CardinalityType
      <4> QED
        BY <4>1, <4>3, <4>4
    <3> QED
      BY <3>1, <3>2
  <2> QED
    BY <2>2, <2>4, <2>5
<1> HIDE DEF S
<1>4. Nat \subseteq S
  BY <1>2, <1>3, SetInduction
<1>5. N \in S /\ N <= N
  BY <1>0, <1>4
<1>6. /\ f[N] \in SUBSET Ref
      /\ R \subseteq f[N]
      /\ \A C : R \subseteq C /\ ClosedUnder(g, C) => f[N] \subseteq C
      /\ ClosedUnder(g, f[N]) \/ Cardinality(f[N]) >= N
  BY <1>5 DEF S
<1>7. ClosedUnder(g, f[N])
  <2> SUFFICES ASSUME Cardinality(f[N]) >= N PROVE ClosedUnder(g, f[N])
    BY <1>6
  <2>1. /\ Cardinality(f[N]) <= Cardinality(Ref) /\ IsFiniteSet(f[N])
        /\ Cardinality(f[N]) = Cardinality(Ref) => f[N] = Ref
    BY <1>6, FiniteAssumption, FS_Subset
  <2>2. Cardinality(f[N]) \in Nat
    BY <2>1, FS_CardinalityType
  <2>3. f[N] = Ref
    BY <1>0, <2>1, <2>2
  <2> HIDE DEF N
  <2> QED
    BY <2>3, BelowType DEF ClosedUnder
<1> HIDE DEF N
<1> QED
  BY <1>1, <1>6, <1>7

\* The graphs without cycles are the ones with ranks.
LEMMA AcyclicIsRanked ==
    ASSUME NEW g \in NodeMap
    PROVE  IsAcyclic(g) <=> IsRanked(g)
<1>0. \A r \in NodesIn(g) : r \in Ref /\ Below(g, r) = Successors(g[r]) /\ Successors(g[r]) \in SUBSET Ref
  BY NodesInType, NodeFields DEF Below
<1>1. ASSUME IsRanked(g) PROVE IsAcyclic(g)
  <2>1. PICK rank \in [Ref -> Nat] : \A r \in NodesIn(g) : \A s \in Successors(g[r]) : rank[s] < rank[r]
    BY <1>1 DEF IsRanked
  <2> SUFFICES ASSUME NEW r \in NodesIn(g) PROVE r \notin ReachableFrom(g, Successors(g[r]))
    BY DEF IsAcyclic
  <2> DEFINE C == {s \in Ref : rank[s] < rank[r]}
  <2>2. Successors(g[r]) \subseteq C /\ r \notin C
    BY <1>0, <2>1
  <2>3. ASSUME NEW s \in C, NEW x \in Below(g, s) PROVE x \in C
    <3>1. s \in NodesIn(g) /\ x \in Successors(g[s]) /\ x \in Ref
      BY <2>3, BelowType DEF Below, NodesIn
    <3>2. rank[x] < rank[s] /\ rank[s] < rank[r] /\ rank[x] \in Nat /\ rank[s] \in Nat /\ rank[r] \in Nat
      BY <1>0, <2>1, <3>1
    <3> QED
      BY <3>1, <3>2
  <2>4. ClosedUnder(g, C)
    BY <2>3 DEF ClosedUnder
  <2> HIDE DEF C
  <2>5. ReachableFrom(g, Successors(g[r])) \subseteq C
    BY <1>0, <2>2, <2>4, ReachIs
  <2> QED
    BY <2>2, <2>5
<1>2. ASSUME IsAcyclic(g) PROVE IsRanked(g)
  <2> DEFINE T(r) == ReachableFrom(g, Below(g, r))
             rank == [r \in Ref |-> Cardinality(T(r))]
  <2>1. ASSUME NEW r \in Ref
        PROVE  /\ T(r) \subseteq Ref /\ Below(g, r) \subseteq T(r) /\ ClosedUnder(g, T(r))
               /\ \A C : Below(g, r) \subseteq C /\ ClosedUnder(g, C) => T(r) \subseteq C
               /\ IsFiniteSet(T(r)) /\ Cardinality(T(r)) \in Nat
    <3>1. Below(g, r) \in SUBSET Ref
      BY BelowType
    <3>2. /\ T(r) \subseteq Ref /\ Below(g, r) \subseteq T(r) /\ ClosedUnder(g, T(r))
          /\ \A C : Below(g, r) \subseteq C /\ ClosedUnder(g, C) => T(r) \subseteq C
      BY <3>1, ReachIs
    <3>3. IsFiniteSet(T(r))
      BY <3>2, FiniteAssumption, FS_Subset
    <3> QED
      BY <3>2, <3>3, FS_CardinalityType
  <2>2. \A r \in NodesIn(g) : r \notin T(r)
    BY <1>0, <1>2 DEF IsAcyclic
  <2> HIDE DEF T
  <2>3. rank \in [Ref -> Nat]
    BY <2>1
  <2>4. ASSUME NEW r \in NodesIn(g), NEW s \in Successors(g[r])
        PROVE  rank[s] < rank[r]
    <3>1. r \in Ref /\ s \in Ref /\ s \in Below(g, r)
      BY <1>0
    <3>2. s \in T(r) /\ Below(g, s) \subseteq T(r)
      BY <2>1, <3>1 DEF ClosedUnder
    <3>3. T(s) \subseteq T(r)
      BY <2>1, <3>1, <3>2
    <3>4. s \notin T(s)
      <4>1. CASE s \in NodesIn(g)
        BY <2>2, <4>1
      <4>2. CASE s \notin NodesIn(g)
        <5>1. Below(g, s) = {}
          BY <3>1, <4>2 DEF Below, NodesIn
        <5>2. ClosedUnder(g, {})
          BY DEF ClosedUnder
        <5> QED
          BY <2>1, <3>1, <5>1, <5>2
      <4> QED
        BY <4>1, <4>2
    <3>5. /\ Cardinality(T(s)) <= Cardinality(T(r))
          /\ Cardinality(T(s)) = Cardinality(T(r)) => T(s) = T(r)
      BY <2>1, <3>1, <3>3, FS_Subset
    <3>6. Cardinality(T(s)) # Cardinality(T(r))
      BY <3>2, <3>4, <3>5
    <3>7. Cardinality(T(s)) \in Nat /\ Cardinality(T(r)) \in Nat
      BY <2>1, <3>1
    <3>8. Cardinality(T(s)) < Cardinality(T(r))
      BY <3>5, <3>6, <3>7
    <3> QED
      BY <3>1, <3>8
  <2> HIDE DEF rank
  <2> QED
    BY <2>3, <2>4 DEF IsRanked
<1> QED
  BY <1>1, <1>2

(***************************************************************************)
(* The operations of the tree, on graphs of nodes.                         *)
(***************************************************************************)
\* A graph that is a tree.
Tree(g) == g \in NodeMap /\ BetreeInv(g) /\ Root \in NodesIn(g)

\* The root is no node's child.
RootIsFirst(g) == \A r \in NodesIn(g) : Root \notin Successors(g[r])

\* What a tree is, in terms of ranks and decisions.
LEMMA TreeIs ==
    ASSUME NEW g, Tree(g)
    PROVE  /\ g \in NodeMap /\ Root \in NodesIn(g) /\ Root \in Ref
           /\ RefGraphIsClosed(g) /\ IsRanked(g) /\ RootIsFirst(g)
           /\ IView(g) \in State
           /\ \A k \in Key : Root \in Decided(g, k, IView(g)[k])
<1>1. g \in NodeMap /\ Root \in NodesIn(g) /\ Root \in Ref /\ BetreeInv(g)
  BY DEF Tree, NodesIn
<1>2. RefGraphIsClosed(g) /\ IsRanked(g) /\ RootIsFirst(g)
  BY <1>1, AcyclicIsRanked DEF BetreeInv, RootIsFirst
<1>3. ASSUME NEW k \in Key PROVE Root \in Decided(g, k, IView(g)[k]) /\ IView(g)[k] \in Value
  <2>1. PICK v \in Value : Root \in Decided(g, k, v)
    BY <1>1, IViewIs DEF BetreeInv
  <2>2. IView(g)[k] = v
    BY <1>1, <2>1, IViewIs
  <2> QED
    BY <2>1, <2>2
<1>4. IView(g) \in State
  <2>1. IView(g) = [k \in Key |-> IView(g)[k]]
    BY DEF IView
  <2> QED
    BY <1>3, <2>1 DEF State
<1> QED
  BY <1>1, <1>2, <1>3, <1>4

\* How to make a tree.
LEMMA TreeMakes ==
    ASSUME NEW g \in NodeMap, Root \in NodesIn(g), RefGraphIsClosed(g), IsRanked(g), RootIsFirst(g),
           NEW s \in State, \A k \in Key : Root \in Decided(g, k, s[k])
    PROVE  Tree(g) /\ IView(g) = s
<1>1. ASSUME NEW k \in Key PROVE KeyHasSatisfyingLookup(g, k) /\ IView(g)[k] = s[k]
  <2>1. s[k] \in Value /\ Root \in Decided(g, k, s[k])
    BY DEF State
  <2> QED
    BY <2>1, IViewIs
<1>2. BetreeInv(g)
  BY <1>1, AcyclicIsRanked DEF BetreeInv, RootIsFirst
<1>3. IView(g) = [k \in Key |-> IView(g)[k]]
  BY DEF IView
<1>4. s = [k \in Key |-> s[k]]
  BY DEF State
<1>5. IView(g) = s
  BY <1>1, <1>3, <1>4
<1> QED
  BY <1>2, <1>5 DEF Tree

\* A graph with the children of another has its ranks.
LEMMA SameRanks ==
    ASSUME NEW g, NEW h, IsRanked(g), NodesIn(h) \subseteq NodesIn(g),
           \A r \in NodesIn(h) : Successors(h[r]) \subseteq Successors(g[r])
    PROVE  IsRanked(h)
<1>1. PICK rank \in [Ref -> Nat] : \A r \in NodesIn(g) : \A s \in Successors(g[r]) : rank[s] < rank[r]
  BY DEF IsRanked
<1>2. \A r \in NodesIn(h) : \A s \in Successors(h[r]) : rank[s] < rank[r]
  BY <1>1
<1> QED
  BY <1>2 DEF IsRanked

\* An insert changes the value of one key.
LEMMA InsertTree ==
    ASSUME NEW g, Tree(g), WFNode(g[Root]), NEW k0 \in Key, NEW v0 \in Value,
           NEW h \in NodeMap, h[Root] = AddMessageToNode(g[Root], k0, Define(v0)),
           \A r \in Ref : r # Root => h[r] = g[r]
    PROVE  Tree(h) /\ IView(h) = [IView(g) EXCEPT ![k0] = v0]
<1>1. /\ g \in NodeMap /\ Root \in NodesIn(g) /\ Root \in Ref
      /\ RefGraphIsClosed(g) /\ IsRanked(g) /\ RootIsFirst(g)
      /\ IView(g) \in State
      /\ \A k \in Key : Root \in Decided(g, k, IView(g)[k])
  BY TreeIs
<1>2. g[Root] \in Node
  BY <1>1, NodesInType
<1>3. /\ h[Root] \in Node /\ h[Root].children = g[Root].children
      /\ h[Root].buffer = [g[Root].buffer EXCEPT ![k0] = Define(v0)]
  BY <1>2, InsertNodeType
<1>4. NodesIn(h) = NodesIn(g) /\ Root \in NodesIn(h)
  <2>1. h[Root] # None
    BY <1>3, NoneAssumption
  <2> QED
    BY <1>1, <2>1 DEF NodesIn
<1>5. \A r \in NodesIn(h) : Successors(h[r]) = Successors(g[r])
  BY <1>3 DEF Successors, NodesIn
<1>6. RefGraphIsClosed(h) /\ RootIsFirst(h)
  BY <1>1, <1>4, <1>5 DEF RefGraphIsClosed, RootIsFirst
<1>7. IsRanked(h)
  BY <1>1, <1>4, <1>5, SameRanks
<1>8. \A k \in Key : h[Root].buffer[k] = IF k = k0 THEN Define(v0) ELSE g[Root].buffer[k]
  BY <1>2, <1>3, NodeFields
<1>9. WFNode(h[Root])
  BY <1>3, <1>8, DefineIs DEF WFNode
<1>10. \A r \in WF(g) : r \in WF(h)
  BY <1>4, <1>9 DEF WF, NodesIn
<1> DEFINE s == [IView(g) EXCEPT ![k0] = v0]
<1>11. s \in State /\ \A k \in Key : s[k] = IF k = k0 THEN v0 ELSE IView(g)[k]
  BY <1>1 DEF State
<1> HIDE DEF s
<1>12. ASSUME NEW k \in Key PROVE Root \in Decided(h, k, s[k])
  <2>1. CASE k = k0
    <3>1. DecidedIn(h, k, v0, Decided(h, k, v0))
      BY DecidedClosed
    <3>2. Root \in WF(h) /\ h[Root].buffer[k] = Define(v0)
      BY <1>4, <1>8, <1>9, <2>1 DEF WF
    <3>3. Root \in Decided(h, k, v0)
      BY <3>1, <3>2 DEF DecidedIn
    <3> QED
      BY <1>11, <2>1, <3>3
  <2>2. CASE k # k0
    <3>1. \A r \in WF(g) : r \in WF(h) /\ h[r].buffer[k] = g[r].buffer[k] /\ h[r].children[k] = g[r].children[k]
      BY <1>3, <1>8, <1>10, <2>2 DEF WF, NodesIn
    <3>2. Decided(g, k, IView(g)[k]) \subseteq Decided(h, k, IView(g)[k])
      BY <3>1, DecidedGrows
    <3> QED
      BY <1>1, <1>11, <2>2, <3>2
  <2> QED
    BY <2>1, <2>2
<1> QED
  BY <1>4, <1>6, <1>7, <1>11, <1>12, TreeMakes DEF s

\* A node without parents may go.
LEMMA UnallocTree ==
    ASSUME NEW g, Tree(g), NEW x \in Ref, x # Root, \A r \in NodesIn(g) : x \notin Successors(g[r]),
           NEW h \in NodeMap, h[x] = None, \A r \in Ref : r # x => h[r] = g[r]
    PROVE  Tree(h) /\ IView(h) = IView(g)
<1>1. /\ g \in NodeMap /\ Root \in NodesIn(g) /\ Root \in Ref
      /\ RefGraphIsClosed(g) /\ IsRanked(g) /\ RootIsFirst(g)
      /\ IView(g) \in State
      /\ \A k \in Key : Root \in Decided(g, k, IView(g)[k])
  BY TreeIs
<1>2. NodesIn(h) = NodesIn(g) \ {x} /\ \A r \in NodesIn(h) : h[r] = g[r]
  BY DEF NodesIn
<1>3. Root \in NodesIn(h) /\ RefGraphIsClosed(h) /\ RootIsFirst(h)
  BY <1>1, <1>2 DEF RefGraphIsClosed, RootIsFirst
<1>4. IsRanked(h)
  BY <1>1, <1>2, SameRanks
<1>5. ASSUME NEW k \in Key PROVE Root \in Decided(h, k, IView(g)[k])
  <2> DEFINE v == IView(g)[k]
             D == Decided(h, k, v)
             S == D \cup {x}
  <2>1. DecidedIn(h, k, v, D) /\ D \subseteq Ref
    BY DecidedClosed DEF Decided
  <2> HIDE DEF D, v
  <2>2. ASSUME NEW r \in WF(g), r # x, g[r].buffer[k] = Define(v) \/ (~Defines(g[r].buffer[k]) /\ g[r].children[k] \in S)
        PROVE  r \in D
    <3>1. r \in NodesIn(g) /\ r \in WF(h) /\ h[r] = g[r]
      BY <1>2, <2>2 DEF WF
    <3>2. g[r].children[k] \in S => g[r].children[k] \in D
      <4> SUFFICES ASSUME g[r].children[k] = x PROVE FALSE
        OBVIOUS
      <4>1. x \in Successors(g[r])
        BY RootAssumption DEF Successors
      <4> QED
        BY <3>1, <4>1
    <3> QED
      BY <2>1, <2>2, <3>1, <3>2 DEF DecidedIn
  <2>3. DecidedIn(g, k, v, S)
    BY <2>2 DEF DecidedIn
  <2>4. Decided(g, k, v) \subseteq S
    BY <2>1, <2>3, DecidedLeast
  <2> QED
    BY <1>1, <2>4 DEF v, D
<1> QED
  BY <1>1, <1>3, <1>4, <1>5, TreeMakes

\* A new root above a copy of the old one changes nothing.
LEMMA GrowTree ==
    ASSUME NEW g, Tree(g), NEW n \in Ref \ NodesIn(g),
           NEW h \in NodeMap, RefGraphIsClosed(h), h[n] = g[Root], h[Root] = GrownRoot(n),
           \A r \in Ref : r # Root /\ r # n => h[r] = g[r]
    PROVE  Tree(h) /\ IView(h) = IView(g)
<1>1. /\ g \in NodeMap /\ Root \in NodesIn(g) /\ Root \in Ref
      /\ RefGraphIsClosed(g) /\ IsRanked(g) /\ RootIsFirst(g)
      /\ IView(g) \in State
      /\ \A k \in Key : Root \in Decided(g, k, IView(g)[k])
  BY TreeIs
<1>2. n # Root /\ g[Root] # None /\ GrownRoot(n) \in Node /\ GrownRoot(n) # None /\ n # None
  BY <1>1, GrownRootType, NoneAssumption, RootAssumption DEF NodesIn
<1>3. NodesIn(h) = NodesIn(g) \cup {n} /\ Root \in NodesIn(h)
  BY <1>1, <1>2 DEF NodesIn
<1>4. Successors(h[Root]) \subseteq {n}
  BY DEF GrownRoot, Successors
<1>5. RootIsFirst(h)
  BY <1>1, <1>2, <1>3, <1>4 DEF RootIsFirst, NodesIn
<1>6. IsRanked(h)
  <2>1. PICK rank \in [Ref -> Nat] : \A r \in NodesIn(g) : \A s \in Successors(g[r]) : rank[s] < rank[r]
    BY <1>1 DEF IsRanked
  <2> DEFINE up == [r \in Ref |-> IF r = Root THEN rank[Root] + 1 ELSE IF r = n THEN rank[Root] ELSE rank[r]]
  <2>2. up \in [Ref -> Nat]
    BY <1>1
  <2>3. up[Root] = rank[Root] + 1 /\ up[n] = rank[Root] /\ \A r \in Ref : r # Root /\ r # n => up[r] = rank[r]
    BY <1>1, <1>2
  <2> HIDE DEF up
  <2>4. ASSUME NEW r \in NodesIn(h), NEW s \in Successors(h[r]) PROVE up[s] < up[r]
    <3>1. CASE r = Root
      <4>1. s = n /\ rank[Root] \in Nat
        BY <1>1, <1>4, <3>1
      <4> QED
        BY <2>3, <3>1, <4>1
    <3>2. CASE r = n
      <4>1. s \in Successors(g[Root])
        BY <3>2
      <4>2. s \in NodesIn(g) /\ s # Root /\ s # n
        BY <1>1, <4>1 DEF RefGraphIsClosed, RootIsFirst
      <4>3. rank[s] < rank[Root] /\ s \in Ref
        BY <1>1, <2>1, <4>1, <4>2 DEF NodesIn
      <4> QED
        BY <2>3, <3>2, <4>2, <4>3
    <3>3. CASE r # Root /\ r # n
      <4>1. r \in NodesIn(g) /\ r \in Ref /\ s \in Successors(g[r])
        BY <1>3, <3>3 DEF NodesIn
      <4>2. s \in NodesIn(g) /\ s # Root /\ s # n
        BY <1>1, <4>1 DEF RefGraphIsClosed, RootIsFirst
      <4>3. rank[s] < rank[r] /\ s \in Ref
        BY <2>1, <4>1, <4>2 DEF NodesIn
      <4> QED
        BY <2>3, <3>3, <4>1, <4>2, <4>3
    <3> QED
      BY <3>1, <3>2, <3>3
  <2> QED
    BY <2>2, <2>4 DEF IsRanked
<1>7. ASSUME NEW k \in Key PROVE Root \in Decided(h, k, IView(g)[k])
  <2> DEFINE v == IView(g)[k]
             D == Decided(h, k, v)
             S == {r \in Ref : IF r = Root THEN n \in D ELSE r \in D}
  <2>1. DecidedIn(h, k, v, D)
    BY DecidedClosed
  <2> HIDE DEF D, v
  <2>2. ASSUME NEW r \in WF(g), g[r].buffer[k] = Define(v) \/ (~Defines(g[r].buffer[k]) /\ g[r].children[k] \in S)
        PROVE  r \in S
    <3>1. r \in NodesIn(g) /\ r \in Ref /\ WFNode(g[r]) /\ g[r] # None
      BY DEF WF, NodesIn
    <3>2. g[r].children[k] \in S => g[r].children[k] \in D
      <4> SUFFICES ASSUME g[r].children[k] = Root PROVE FALSE
        OBVIOUS
      <4>1. Root \in Successors(g[r])
        BY RootAssumption DEF Successors
      <4> QED
        BY <1>1, <3>1, <4>1 DEF RootIsFirst
    <3>3. CASE r = Root
      <4>1. n \in WF(h)
        BY <1>3, <3>1, <3>3 DEF WF
      <4>2. n \in D
        BY <2>1, <2>2, <3>2, <3>3, <4>1 DEF DecidedIn
      <4> QED
        BY <3>1, <3>3, <4>2
    <3>4. CASE r # Root
      <4>1. r # n /\ h[r] = g[r] /\ r \in WF(h)
        BY <1>3, <3>1, <3>4 DEF WF
      <4>2. r \in D
        BY <2>1, <2>2, <3>2, <4>1 DEF DecidedIn
      <4> QED
        BY <3>1, <3>4, <4>2
    <3> QED
      BY <3>3, <3>4
  <2>3. DecidedIn(g, k, v, S)
    BY <2>2 DEF DecidedIn
  <2>4. Decided(g, k, v) \subseteq S
    BY <2>3, DecidedLeast
  <2>5. n \in D
    BY <1>1, <2>4 DEF v
  <2>6. Root \in WF(h) /\ h[Root].children[k] = n /\ h[Root].buffer[k] = IdentityMessage
    BY <1>2, <1>3 DEF GrownRoot, WF, WFNode
  <2>7. Root \in D
    BY <2>1, <2>5, <2>6, DefineIs DEF DecidedIn
  <2> QED
    BY <2>7 DEF D, v
<1> QED
  BY <1>1, <1>3, <1>5, <1>6, <1>7, TreeMakes

\* A child of a node has a smaller rank, so it is another node.
LEMMA ChildIsOther ==
    ASSUME NEW g, Tree(g), NEW r \in NodesIn(g), NEW k \in Key, g[r].children[k] # None
    PROVE  g[r].children[k] \in Successors(g[r]) /\ g[r].children[k] # r
<1>1. g[r].children[k] \in Successors(g[r])
  BY DEF Successors
<1>2. PICK rank \in [Ref -> Nat] : \A x \in NodesIn(g) : \A s \in Successors(g[x]) : rank[s] < rank[x]
  BY TreeIs DEF IsRanked
<1>3. r \in Ref /\ rank[r] \in Nat
  BY <1>2 DEF NodesIn
<1>4. g[r].children[k] # r
  <2> SUFFICES ASSUME g[r].children[k] = r PROVE FALSE
    OBVIOUS
  <2>1. rank[r] < rank[r]
    BY <1>1, <1>2
  <2> QED
    BY <1>3, <2>1
<1> QED
  BY <1>1, <1>4

\* A child that is a copy but for messages that come from above changes nothing.
LEMMA FlushTree ==
    ASSUME NEW g, Tree(g), NEW p \in WF(g), NEW c \in WF(g), NEW n \in Ref \ NodesIn(g),
           NEW moved \in SUBSET Key, NEW flushed \in SUBSET moved, \A k \in moved : g[p].children[k] = c,
           NEW h \in NodeMap, RefGraphIsClosed(h),
           h[n] = FlushedChild(g[p], g[c], flushed), h[p] = FlushedParent(g[p], n, moved, flushed),
           \A r \in Ref : r # p /\ r # n => h[r] = g[r]
    PROVE  Tree(h) /\ IView(h) = IView(g)
<1>1. /\ g \in NodeMap /\ Root \in NodesIn(g) /\ Root \in Ref
      /\ RefGraphIsClosed(g) /\ IsRanked(g) /\ RootIsFirst(g)
      /\ IView(g) \in State
      /\ \A k \in Key : Root \in Decided(g, k, IView(g)[k])
  BY TreeIs
<1>2. /\ p \in NodesIn(g) /\ p \in Ref /\ g[p] \in Node /\ WFNode(g[p])
      /\ c \in NodesIn(g) /\ c \in Ref /\ g[c] \in Node /\ WFNode(g[c])
  BY <1>1, NodesInType DEF WF
<1>3. flushed \in SUBSET Key /\ n \in Ref /\ n # p /\ n # c /\ n # Root /\ n # None
  BY <1>1, <1>2, RootAssumption
<1>4. /\ h[n] \in Node
      /\ h[n].children = g[c].children
      /\ \A k \in Key : h[n].buffer[k] = IF k \in flushed THEN Merge(g[p].buffer[k], g[c].buffer[k])
                                         ELSE g[c].buffer[k]
  <2> DEFINE node == FlushedChild(g[p], g[c], flushed)
  <2>1. /\ node \in Node
        /\ node.children = g[c].children
        /\ \A k \in Key : node.buffer[k] = IF k \in flushed THEN Merge(g[p].buffer[k], g[c].buffer[k])
                                           ELSE g[c].buffer[k]
    BY <1>2, <1>3, FlushedChildType
  <2>2. h[n] = node
    OBVIOUS
  <2> HIDE DEF node
  <2> QED
    BY <2>1, <2>2
<1>5. /\ h[p] \in Node
      /\ \A k \in Key : /\ h[p].children[k] = IF k \in moved THEN n ELSE g[p].children[k]
                        /\ h[p].buffer[k] = IF k \in flushed THEN IdentityMessage ELSE g[p].buffer[k]
  <2> DEFINE node == FlushedParent(g[p], n, moved, flushed)
  <2>0. g[p] \in Node /\ n \in Ref /\ moved \in SUBSET Key /\ flushed \in SUBSET Key
    BY <1>2, <1>3
  <2>1. /\ node \in Node
        /\ \A k \in Key : /\ node.children[k] = IF k \in moved THEN n ELSE g[p].children[k]
                          /\ node.buffer[k] = IF k \in flushed THEN IdentityMessage ELSE g[p].buffer[k]
    <3>1. node \in Node
      BY ONLY <2>0, FlushedParentType, ZenonT(30)
    <3>2. ASSUME NEW k \in Key
          PROVE  /\ node.children[k] = IF k \in moved THEN n ELSE g[p].children[k]
                 /\ node.buffer[k] = IF k \in flushed THEN IdentityMessage ELSE g[p].buffer[k]
      BY DEF FlushedParent
    <3> QED
      BY <3>1, <3>2
  <2>2. h[p] = node
    OBVIOUS
  <2> HIDE DEF node
  <2> QED
    BY <2>1, <2>2
<1>6. h[n] # None /\ h[p] # None
  BY <1>4, <1>5, NoneAssumption
<1>7. NodesIn(h) = NodesIn(g) \cup {n} /\ Root \in NodesIn(h)
  BY <1>1, <1>2, <1>3, <1>6 DEF NodesIn
<1>8. Successors(h[n]) = Successors(g[c])
  BY <1>4 DEF Successors
<1>9. ASSUME NEW s \in Successors(h[p])
      PROVE  s \in Successors(g[p]) \/ (s = n /\ c \in Successors(g[p]))
  <2>1. PICK k \in Key : s = h[p].children[k] /\ s # None
    BY DEF Successors
  <2>2. CASE k \in moved
    <3>1. s = n /\ g[p].children[k] = c /\ c # None
      BY <1>2, <1>5, <2>1, <2>2, RootAssumption
    <3> QED
      BY <3>1 DEF Successors
  <2>3. CASE k \notin moved
    BY <1>5, <2>1, <2>3 DEF Successors
  <2> QED
    BY <2>2, <2>3
<1>10. \A r \in NodesIn(h) : r # p /\ r # n => h[r] = g[r] /\ r \in NodesIn(g)
  BY <1>7 DEF NodesIn
<1>11. RootIsFirst(h)
  <2> SUFFICES ASSUME NEW r \in NodesIn(h), Root \in Successors(h[r]) PROVE FALSE
    BY DEF RootIsFirst
  <2>1. CASE r = p
    BY <1>1, <1>2, <1>3, <1>9, <2>1 DEF RootIsFirst
  <2>2. CASE r = n
    BY <1>1, <1>2, <1>8, <2>2 DEF RootIsFirst
  <2>3. CASE r # p /\ r # n
    BY <1>1, <1>10, <2>3 DEF RootIsFirst
  <2> QED
    BY <2>1, <2>2, <2>3
<1>12. IsRanked(h)
  <2>1. PICK rank \in [Ref -> Nat] : \A r \in NodesIn(g) : \A s \in Successors(g[r]) : rank[s] < rank[r]
    BY <1>1 DEF IsRanked
  <2> DEFINE up == [r \in Ref |-> IF r = n THEN rank[c] ELSE rank[r]]
  <2>2. up \in [Ref -> Nat]
    BY <1>2
  <2>3. up[n] = rank[c] /\ \A r \in Ref : r # n => up[r] = rank[r]
    BY <1>3
  <2> HIDE DEF up
  <2>4. ASSUME NEW r \in NodesIn(g), NEW s \in Successors(g[r])
        PROVE  up[s] = rank[s] /\ rank[s] < rank[r] /\ up[r] = rank[r]
    <3>1. s \in NodesIn(g) /\ s # n /\ s \in Ref /\ r \in Ref /\ r # n
      BY <1>1 DEF RefGraphIsClosed, NodesIn
    <3> QED
      BY <2>1, <2>3, <3>1
  <2>5. ASSUME NEW r \in NodesIn(h), NEW s \in Successors(h[r]) PROVE up[s] < up[r]
    <3>1. CASE r = n
      <4>1. s \in Successors(g[c])
        BY <1>8, <3>1
      <4> QED
        BY <1>2, <2>3, <2>4, <3>1, <4>1
    <3>2. CASE r = p
      <4>1. CASE s \in Successors(g[p])
        BY <1>2, <2>4, <3>2, <4>1
      <4>2. CASE s = n /\ c \in Successors(g[p])
        <5>1. rank[c] < rank[p] /\ up[p] = rank[p]
          BY <1>2, <2>4, <4>2
        <5> QED
          BY <2>3, <3>2, <4>2, <5>1
      <4> QED
        BY <1>9, <3>2, <4>1, <4>2
    <3>3. CASE r # p /\ r # n
      <4>1. r \in NodesIn(g) /\ s \in Successors(g[r])
        BY <1>10, <3>3
      <4>2. up[s] = rank[s] /\ rank[s] < rank[r] /\ up[r] = rank[r]
        BY <2>4, <4>1
      <4> QED
        BY <4>2
    <3> QED
      BY <3>1, <3>2, <3>3
  <2> QED
    BY <2>2, <2>5 DEF IsRanked
<1>13. p \in WF(h)
  <2>1. ASSUME NEW k \in Key, h[p].children[k] = None PROVE Defines(h[p].buffer[k])
    <3>1. k \notin moved /\ k \notin flushed /\ g[p].children[k] = None
      BY <1>3, <1>5, <2>1
    <3> QED
      BY <1>2, <1>5, <3>1 DEF WFNode
  <2> QED
    BY <1>2, <1>7, <2>1 DEF WF, WFNode
<1>14. n \in WF(h)
  <2>1. ASSUME NEW k \in Key, h[n].children[k] = None PROVE Defines(h[n].buffer[k])
    <3>1. Defines(g[c].buffer[k])
      BY <1>2, <1>4, <2>1 DEF WFNode
    <3> QED
      BY <1>4, <3>1 DEF Merge
  <2> QED
    BY <1>7, <2>1 DEF WF, WFNode
<1>15. ASSUME NEW k \in Key PROVE Root \in Decided(h, k, IView(g)[k])
  <2> DEFINE v == IView(g)[k]
             D == Decided(h, k, v)
  <2>1. DecidedIn(h, k, v, D) /\ D \in SUBSET Ref
    BY DecidedClosed DEF Decided
  <2>2. ASSUME NEW r \in D PROVE h[r].buffer[k] = Define(v) \/ (~Defines(h[r].buffer[k]) /\ h[r].children[k] \in D)
    BY DecidedHow
  <2> HIDE DEF D, v
  <2>3. ASSUME NEW r \in WF(g), g[r].buffer[k] = Define(v) \/ (~Defines(g[r].buffer[k]) /\ g[r].children[k] \in D)
        PROVE  r \in D
    <3>1. CASE r # p
      <4>1. r \in WF(h) /\ h[r] = g[r]
        BY <1>7, <3>1 DEF WF, NodesIn
      <4> QED
        BY <2>1, <2>3, <4>1 DEF DecidedIn
    <3>2. CASE r = p /\ k \notin moved
      <4>1. k \notin flushed
        BY <3>2
      <4>2. h[p].children[k] = g[p].children[k] /\ h[p].buffer[k] = g[p].buffer[k]
        BY <1>5, <3>2, <4>1
      <4> QED
        BY <1>13, <2>1, <2>3, <3>2, <4>2 DEF DecidedIn
    <3>3. CASE r = p /\ k \in moved
      <4>1. g[p].children[k] = c /\ c # None /\ h[p].children[k] = n
        BY <1>2, <1>5, <3>3, RootAssumption
      <4>2. c # p /\ h[c] = g[c]
        BY <1>2, <1>3, <4>1, ChildIsOther
      <4>3. CASE g[p].buffer[k] = Define(v)
        <5>1. CASE k \in flushed
          <6>1. h[n].buffer[k] = Define(v) /\ h[p].buffer[k] = IdentityMessage
            BY <1>4, <1>5, <4>3, <5>1, MergeIs, SMTT(30)
          <6>2. n \in D
            BY <1>14, <2>1, <6>1 DEF DecidedIn
          <6> QED
            BY <1>13, <2>1, <3>3, <4>1, <6>1, <6>2, DefineIs DEF DecidedIn
        <5>2. CASE k \notin flushed
          <6>1. h[p].buffer[k] = Define(v)
            BY <1>5, <4>3, <5>2
          <6> QED
            BY <1>13, <2>1, <3>3, <6>1 DEF DecidedIn
        <5> QED
          BY <5>1, <5>2
      <4>4. CASE ~Defines(g[p].buffer[k]) /\ c \in D
        <5>1. h[n].buffer[k] = g[c].buffer[k] /\ h[n].children[k] = g[c].children[k] /\ ~Defines(h[p].buffer[k])
          BY <1>4, <1>5, <4>4, DefineIs DEF Merge
        <5>2. g[c].buffer[k] = Define(v) \/ (~Defines(g[c].buffer[k]) /\ g[c].children[k] \in D)
          BY <2>2, <4>2, <4>4
        <5>3. n \in D
          BY <1>14, <2>1, <5>1, <5>2 DEF DecidedIn
        <5> QED
          BY <1>13, <2>1, <3>3, <4>1, <5>1, <5>3 DEF DecidedIn
      <4> QED
        BY <2>3, <3>3, <4>1, <4>3, <4>4
    <3> QED
      BY <3>1, <3>2, <3>3
  <2>4. DecidedIn(g, k, v, D)
    BY <2>3 DEF DecidedIn
  <2>5. Decided(g, k, v) \subseteq D
    BY <2>1, <2>4, DecidedLeast
  <2> QED
    BY <1>1, <2>5 DEF v, D
<1> QED
  BY <1>1, <1>7, <1>11, <1>12, <1>15, TreeMakes

\* New children that say of each key routed to them what the old one said change nothing.
LEMMA RedirectTree ==
    ASSUME NEW g, Tree(g), NEW p \in WF(g), NEW keys \in SUBSET Key, NEW route \in [keys -> Ref],
           \A k \in keys : g[p].children[k] \in WF(g) /\ route[k] \notin NodesIn(g),
           NEW h \in NodeMap, RefGraphIsClosed(h), h[p] = RedirectedParent(g[p], route),
           \A k \in keys : h[route[k]] = RedirectedChild(g, g[p], {i \in keys : route[i] = route[k]}),
           \A r \in Ref : r # p /\ r \notin {route[k] : k \in keys} => h[r] = g[r]
    PROVE  Tree(h) /\ IView(h) = IView(g)
<1> DEFINE T == {route[k] : k \in keys}
<1>1. /\ g \in NodeMap /\ Root \in NodesIn(g) /\ Root \in Ref
      /\ RefGraphIsClosed(g) /\ IsRanked(g) /\ RootIsFirst(g)
      /\ IView(g) \in State
      /\ \A k \in Key : Root \in Decided(g, k, IView(g)[k])
  BY TreeIs
<1>2. /\ p \in NodesIn(g) /\ p \in Ref /\ g[p] \in Node /\ WFNode(g[p])
      /\ T \subseteq Ref /\ \A n \in T : n \notin NodesIn(g) /\ n # p /\ n # Root /\ n # None
  BY <1>1, NodesInType, RootAssumption DEF WF
<1>3. ASSUME NEW k \in keys
      PROVE  /\ g[p].children[k] \in NodesIn(g) /\ g[p].children[k] \in Ref
             /\ g[g[p].children[k]] \in Node /\ WFNode(g[g[p].children[k]])
             /\ g[p].children[k] \in Successors(g[p]) /\ g[p].children[k] # p
  <2>1. g[p].children[k] \in NodesIn(g) /\ WFNode(g[g[p].children[k]])
    BY DEF WF
  <2>2. g[p].children[k] \in Ref /\ g[g[p].children[k]] \in Node /\ g[p].children[k] # None
    BY <1>1, <2>1, NodesInType, RootAssumption
  <2> QED
    BY <1>2, <2>1, <2>2, ChildIsOther
<1>4. ASSUME NEW n \in T
      PROVE  /\ h[n] \in Node
             /\ \A k \in Key :
                   /\ h[n].children[k] = IF k \in keys /\ route[k] = n THEN g[g[p].children[k]].children[k] ELSE None
                   /\ h[n].buffer[k] = IF k \in keys /\ route[k] = n THEN g[g[p].children[k]].buffer[k]
                                       ELSE Define(EmptyValue)
  <2> DEFINE R == {i \in keys : route[i] = n}
  <2>1. h[n] = RedirectedChild(g, g[p], R)
    OBVIOUS
  <2>2. R \in SUBSET Key /\ \A k \in R : g[p].children[k] \in NodesIn(g)
    BY <1>3
  <2>3. \A k \in Key : k \in R <=> k \in keys /\ route[k] = n
    OBVIOUS
  <2> HIDE DEF R
  <2>4. /\ h[n] \in Node
        /\ \A k \in Key : /\ h[n].children[k] = IF k \in R THEN g[g[p].children[k]].children[k] ELSE None
                          /\ h[n].buffer[k] = IF k \in R THEN g[g[p].children[k]].buffer[k]
                                              ELSE Define(EmptyValue)
    <3> DEFINE node == RedirectedChild(g, g[p], R)
    <3>1. /\ node \in Node
          /\ \A k \in Key : /\ node.children[k] = IF k \in R THEN g[g[p].children[k]].children[k] ELSE None
                            /\ node.buffer[k] = IF k \in R THEN g[g[p].children[k]].buffer[k]
                                                ELSE Define(EmptyValue)
      BY <1>1, <1>2, <2>2, RedirectedChildType
    <3>2. h[n] = node
      BY <2>1
    <3> HIDE DEF node
    <3> QED
      BY <3>1, <3>2
  <2> QED
    BY <2>3, <2>4
<1>5. /\ h[p] \in Node /\ h[p].buffer = g[p].buffer
      /\ \A k \in Key : h[p].children[k] = IF k \in keys THEN route[k] ELSE g[p].children[k]
  <2> DEFINE node == RedirectedParent(g[p], route)
  <2>1. /\ node \in Node /\ node.buffer = g[p].buffer
        /\ \A k \in Key : node.children[k] = IF k \in keys THEN route[k] ELSE g[p].children[k]
    <3>1. g[p] \in Node /\ keys \in SUBSET Key /\ route \in [keys -> Ref]
      BY <1>2
    <3> QED
      BY ONLY <3>1, RedirectedParentType
  <2>2. h[p] = node
    OBVIOUS
  <2> HIDE DEF node
  <2> QED
    BY <2>1, <2>2
<1>6. h[p] # None /\ \A n \in T : h[n] # None
  BY <1>4, <1>5, NoneAssumption
<1>7. \A r \in Ref : r # p /\ r \notin T => h[r] = g[r]
  OBVIOUS
<1> HIDE DEF T
<1>8. NodesIn(h) = NodesIn(g) \cup T /\ Root \in NodesIn(h)
  BY <1>1, <1>2, <1>6, <1>7 DEF NodesIn
<1>9. ASSUME NEW n \in T, NEW s \in Successors(h[n])
      PROVE  \E c \in Successors(g[p]) : c \in NodesIn(g) /\ s \in Successors(g[c])
  <2>1. PICK k \in Key : s = h[n].children[k] /\ s # None
    BY DEF Successors
  <2>2. k \in keys /\ s = g[g[p].children[k]].children[k]
    BY <1>4, <2>1
  <2>3. s \in Successors(g[g[p].children[k]])
    BY <2>1, <2>2 DEF Successors
  <2> QED
    BY <1>3, <2>2, <2>3
<1>10. ASSUME NEW s \in Successors(h[p])
       PROVE  s \in Successors(g[p]) \/ s \in T
  <2>1. PICK k \in Key : s = h[p].children[k] /\ s # None
    BY DEF Successors
  <2>2. CASE k \in keys
    BY <1>5, <2>1, <2>2 DEF T
  <2>3. CASE k \notin keys
    BY <1>5, <2>1, <2>3 DEF Successors
  <2> QED
    BY <2>2, <2>3
<1>11. \A r \in NodesIn(h) : r # p /\ r \notin T => h[r] = g[r] /\ r \in NodesIn(g)
  BY <1>7, <1>8 DEF NodesIn
<1>12. RootIsFirst(h)
  <2> SUFFICES ASSUME NEW r \in NodesIn(h), Root \in Successors(h[r]) PROVE FALSE
    BY DEF RootIsFirst
  <2>1. CASE r = p
    BY <1>1, <1>2, <1>10, <2>1 DEF RootIsFirst
  <2>2. CASE r \in T
    BY <1>1, <1>9, <2>2 DEF RootIsFirst
  <2>3. CASE r # p /\ r \notin T
    BY <1>1, <1>11, <2>3 DEF RootIsFirst
  <2> QED
    BY <2>1, <2>2, <2>3
<1>13. IsRanked(h)
  <2>1. PICK rank \in [Ref -> Nat] : \A r \in NodesIn(g) : \A s \in Successors(g[r]) : rank[s] < rank[r]
    BY <1>1 DEF IsRanked
  \* twice the rank leaves room between a node and its children
  <2> DEFINE up == [r \in Ref |-> IF r \in T THEN 2 * rank[p] - 1 ELSE 2 * rank[r]]
  <2>2. \A n \in T : up[n] = 2 * rank[p] - 1
    BY <1>2
  <2>3. \A r \in Ref : r \notin T => up[r] = 2 * rank[r]
    OBVIOUS
  <2>4. up \in [Ref -> Nat]
    <3>1. ASSUME NEW n \in T PROVE 2 * rank[p] - 1 \in Nat
      <4>1. PICK k \in keys : n = route[k]
        BY DEF T
      <4>2. rank[g[p].children[k]] < rank[p] /\ rank[g[p].children[k]] \in Nat /\ rank[p] \in Nat
        BY <1>2, <1>3, <2>1
      <4> QED
        BY <4>2
    <3>2. \A r \in Ref : 2 * rank[r] \in Nat
      <4>1. \A r \in Ref : rank[r] \in Nat
        OBVIOUS
      <4> QED
        BY <4>1
    <3> QED
      BY <3>1, <3>2
  <2> HIDE DEF up
  <2>5. ASSUME NEW r \in NodesIn(g), NEW s \in Successors(g[r])
        PROVE  /\ s \in Ref /\ r \in Ref /\ rank[s] \in Nat /\ rank[r] \in Nat
               /\ up[s] = 2 * rank[s] /\ rank[s] < rank[r] /\ up[r] = 2 * rank[r]
    <3>1. s \in NodesIn(g) /\ s \notin T /\ s \in Ref /\ r \in Ref /\ r \notin T
      BY <1>1, <1>2 DEF RefGraphIsClosed, NodesIn
    <3> QED
      BY <2>1, <2>3, <3>1
  <2>6. ASSUME NEW r \in NodesIn(h), NEW s \in Successors(h[r]) PROVE up[s] < up[r]
    <3>1. CASE r \in T
      <4>1. PICK c \in Successors(g[p]) : c \in NodesIn(g) /\ s \in Successors(g[c])
        BY <1>9, <3>1
      <4>2. /\ rank[s] \in Nat /\ rank[c] \in Nat /\ up[s] = 2 * rank[s] /\ rank[s] < rank[c]
            /\ rank[p] \in Nat /\ rank[c] < rank[p]
        BY <1>2, <2>5, <4>1
      <4>3. up[r] = 2 * rank[p] - 1
        BY <2>2, <3>1
      <4> QED
        BY <4>2, <4>3
    <3>2. CASE r = p
      <4>0. up[p] = 2 * rank[p] /\ rank[p] \in Nat
        BY <1>2, <2>3
      <4>1. CASE s \in Successors(g[p])
        <5>1. up[s] = 2 * rank[s] /\ rank[s] < rank[p] /\ rank[s] \in Nat
          BY <1>2, <2>5, <4>1
        <5> QED
          BY <3>2, <4>0, <5>1
      <4>2. CASE s \in T
        <5>1. up[s] = 2 * rank[p] - 1
          BY <2>2, <4>2
        <5> QED
          BY <3>2, <4>0, <5>1
      <4> QED
        BY <1>10, <3>2, <4>1, <4>2
    <3>3. CASE r # p /\ r \notin T
      <4>1. r \in NodesIn(g) /\ s \in Successors(g[r])
        BY <1>11, <3>3
      <4>2. up[s] = 2 * rank[s] /\ rank[s] < rank[r] /\ up[r] = 2 * rank[r] /\ rank[s] \in Nat /\ rank[r] \in Nat
        BY <2>5, <4>1
      <4> QED
        BY <4>2
    <3> QED
      BY <3>1, <3>2, <3>3
  <2> QED
    BY <2>4, <2>6 DEF IsRanked
<1>14. p \in WF(h)
  <2>1. ASSUME NEW k \in Key, h[p].children[k] = None PROVE Defines(h[p].buffer[k])
    <3>1. k \notin keys
      <4> SUFFICES ASSUME k \in keys PROVE FALSE
        OBVIOUS
      <4>1. route[k] \in T /\ h[p].children[k] = route[k]
        BY <1>5 DEF T
      <4> QED
        BY <1>2, <2>1, <4>1
    <3>2. g[p].children[k] = None
      BY <1>5, <2>1, <3>1
    <3> QED
      BY <1>2, <1>5, <3>2 DEF WFNode
  <2> QED
    BY <1>2, <1>8, <2>1 DEF WF, WFNode
<1>15. ASSUME NEW n \in T PROVE n \in WF(h)
  <2>1. ASSUME NEW k \in Key, h[n].children[k] = None PROVE Defines(h[n].buffer[k])
    <3>1. CASE k \in keys /\ route[k] = n
      BY <1>3, <1>4, <2>1, <3>1 DEF WFNode
    <3>2. CASE ~(k \in keys /\ route[k] = n)
      BY <1>4, <3>2, DefineIs
    <3> QED
      BY <3>1, <3>2
  <2> QED
    BY <1>8, <2>1 DEF WF, WFNode
<1>16. ASSUME NEW k \in Key PROVE Root \in Decided(h, k, IView(g)[k])
  <2> DEFINE v == IView(g)[k]
             D == Decided(h, k, v)
  <2>1. DecidedIn(h, k, v, D) /\ D \in SUBSET Ref
    BY DecidedClosed DEF Decided
  <2>2. ASSUME NEW r \in D PROVE h[r].buffer[k] = Define(v) \/ (~Defines(h[r].buffer[k]) /\ h[r].children[k] \in D)
    BY DecidedHow
  <2> HIDE DEF D, v
  <2>3. ASSUME NEW r \in WF(g), g[r].buffer[k] = Define(v) \/ (~Defines(g[r].buffer[k]) /\ g[r].children[k] \in D)
        PROVE  r \in D
    <3>1. CASE r # p
      <4>0. r \in NodesIn(g) /\ r \in Ref /\ WFNode(g[r])
        BY DEF WF, NodesIn
      <4>1. h[r] = g[r]
        BY <1>2, <1>7, <3>1, <4>0
      <4>2. r \in WF(h)
        BY <1>8, <4>0, <4>1 DEF WF
      <4> QED
        BY <2>1, <2>3, <4>1, <4>2 DEF DecidedIn
    <3>2. CASE r = p /\ k \notin keys
      <4>1. h[p].children[k] = g[p].children[k] /\ h[p].buffer[k] = g[p].buffer[k]
        BY <1>5, <3>2
      <4> QED
        BY <1>14, <2>1, <2>3, <3>2, <4>1 DEF DecidedIn
    <3>3. CASE r = p /\ k \in keys
      <4> DEFINE c == g[p].children[k]
                 n == route[k]
      <4>1. /\ h[p].children[k] = n /\ h[p].buffer[k] = g[p].buffer[k] /\ n \in T
            /\ c \in NodesIn(g) /\ c \in Ref /\ c # p
        BY <1>3, <1>5, <3>3 DEF T
      <4>2. h[n].children[k] = g[c].children[k] /\ h[n].buffer[k] = g[c].buffer[k]
        BY <1>4, <3>3, <4>1
      <4>3. h[c] = g[c]
        BY <1>2, <1>7, <4>1
      <4>4. n \in WF(h)
        BY <1>15, <4>1
      <4> HIDE DEF c, n
      <4>5. CASE g[p].buffer[k] = Define(v)
        BY <1>14, <2>1, <3>3, <4>1, <4>5 DEF DecidedIn
      <4>6. CASE ~Defines(g[p].buffer[k]) /\ c \in D
        <5>1. g[c].buffer[k] = Define(v) \/ (~Defines(g[c].buffer[k]) /\ g[c].children[k] \in D)
          BY <2>2, <4>3, <4>6
        <5>2. n \in D
          BY <2>1, <4>2, <4>4, <5>1 DEF DecidedIn
        <5> QED
          BY <1>14, <2>1, <3>3, <4>1, <4>6, <5>2 DEF DecidedIn
      <4> QED
        BY <2>3, <3>3, <4>5, <4>6 DEF c
    <3> QED
      BY <3>1, <3>2, <3>3
  <2>4. DecidedIn(g, k, v, D)
    BY <2>3 DEF DecidedIn
  <2>5. Decided(g, k, v) \subseteq D
    BY <2>1, <2>4, DecidedLeast
  <2> QED
    BY <1>1, <2>5 DEF v, D
<1> QED
  BY <1>1, <1>8, <1>12, <1>13, <1>16, TreeMakes

(***************************************************************************)
(* The trees that tables stand for.                                        *)
(***************************************************************************)
\* The nodes that table t names, from cache c where they have no place and else from disk d.
Graph(t, c, d) ==
    [r \in Ref |-> IF r \in Refs(t) THEN (IF r \in Placed(t) THEN d[t.locs[r]] ELSE c[r]) ELSE None]

\* They are a tree, and the table is right about it.
Holds(t, c, d) ==
    /\ Placed(t) \subseteq Refs(t)
    /\ \A r \in Refs(t) : t.graph[r] = Successors(Graph(t, c, d)[r]) /\ Graph(t, c, d)[r] # None
    /\ Tree(Graph(t, c, d))

\* Before and while the table is loaded.
LoadInv ==
    /\ Unready => reqReadTables = NoRequests
    /\ Loading => /\ DiskState[machine.loc] # NoState
                  /\ \A id \in ReqId : reqReadTables[id] # None => reqReadTables[id] = machine.loc

\* The three trees, and the tables on disk that name two of them.
TreesOf ==
    /\ Holds(machine.persistent, machine.cache, nodes)
    /\ Refs(machine.persistent) \subseteq Placed(machine.persistent)
    /\ tables[machine.persistentLoc] = machine.persistent
    /\ Holds(machine.ephemeral, machine.cache, nodes)
    /\ machine.frozen # None => Holds(machine.frozen, machine.cache, nodes)
    /\ machine.frozenLoc # NoLoc => tables[machine.frozenLoc] = machine.frozen

\* The inductive invariant of trees.
TreeInv == LoadInv /\ (Ready => TreesOf)

\* The nodes that a table names, one by one.
LEMMA GraphCells ==
    ASSUME NEW t, NEW c, NEW d, NEW r \in Ref
    PROVE  /\ r \notin Refs(t) => Graph(t, c, d)[r] = None
           /\ r \in Refs(t) /\ r \in Placed(t) => Graph(t, c, d)[r] = d[t.locs[r]]
           /\ r \in Refs(t) /\ r \notin Placed(t) => Graph(t, c, d)[r] = c[r]
  BY DEF Graph

\* They are a graph of nodes.
LEMMA GraphType ==
    ASSUME NEW t \in Table, NEW c \in NodeMap, NEW d \in [NodeLoc -> Node \cup {None}]
    PROVE  Graph(t, c, d) \in NodeMap
<1>1. ASSUME NEW r \in Ref PROVE Graph(t, c, d)[r] \in Node \cup {None}
  <2>1. r \in Placed(t) => t.locs[r] \in NodeLoc
    BY DEF Placed, Table
  <2>2. r \in Placed(t) => d[t.locs[r]] \in Node \cup {None}
    BY <2>1
  <2>3. c[r] \in Node \cup {None}
    BY DEF NodeMap
  <2> QED
    BY <2>2, <2>3, GraphCells
<1>2. Graph(t, c, d) = [r \in Ref |-> Graph(t, c, d)[r]]
  BY DEF Graph
<1> QED
  BY <1>1, <1>2 DEF NodeMap

\* Two tables with the same nodes at the same references have the same graph.
LEMMA GraphSame ==
    ASSUME NEW t, NEW c, NEW d, NEW u, NEW b, NEW e,
           \A r \in Ref : Graph(u, b, e)[r] = Graph(t, c, d)[r]
    PROVE  Graph(u, b, e) = Graph(t, c, d)
<1>1. Graph(u, b, e) = [r \in Ref |-> Graph(u, b, e)[r]]
  BY DEF Graph
<1>2. Graph(t, c, d) = [r \in Ref |-> Graph(t, c, d)[r]]
  BY DEF Graph
<1> QED
  BY <1>1, <1>2

\* The references of a table are the nodes of its graph.
LEMMA HoldsNodes ==
    ASSUME NEW t, NEW c, NEW d, Holds(t, c, d)
    PROVE  /\ NodesIn(Graph(t, c, d)) = Refs(t)
           /\ Root \in Refs(t)
           /\ GraphClosed(t)
<1>1. NodesIn(Graph(t, c, d)) = Refs(t)
  <2>1. Refs(t) \subseteq Ref
    BY DEF Refs
  <2>2. \A r \in Ref : Graph(t, c, d)[r] # None <=> r \in Refs(t)
    BY GraphCells DEF Holds
  <2> QED
    BY <2>1, <2>2 DEF NodesIn
<1>2. Root \in Refs(t)
  BY <1>1 DEF Holds, Tree
<1>3. RefGraphIsClosed(Graph(t, c, d))
  BY DEF Holds, Tree, BetreeInv
<1>4. GraphClosed(t)
  <2> SUFFICES ASSUME NEW r \in Refs(t) PROVE t.graph[r] \subseteq Refs(t)
    BY DEF GraphClosed
  <2>1. t.graph[r] = Successors(Graph(t, c, d)[r])
    BY DEF Holds
  <2> QED
    BY <1>1, <1>3, <2>1 DEF RefGraphIsClosed
<1> QED
  BY <1>1, <1>2, <1>4

\* What a table holds it goes on to hold while the nodes it names stay the same.
LEMMA HoldsSame ==
    ASSUME NEW t, NEW c, NEW d, Holds(t, c, d), NEW u, NEW b, NEW e,
           Refs(u) = Refs(t), u.graph = t.graph, Placed(u) \subseteq Refs(u),
           \A r \in Refs(t) : Graph(u, b, e)[r] = Graph(t, c, d)[r]
    PROVE  Holds(u, b, e) /\ Graph(u, b, e) = Graph(t, c, d)
<1>1. \A r \in Ref : r \notin Refs(t) => Graph(u, b, e)[r] = None /\ Graph(t, c, d)[r] = None
  BY GraphCells
<1>2. Graph(u, b, e) = Graph(t, c, d)
  BY <1>1, GraphSame
<1> QED
  BY <1>2 DEF Holds

\* A complete table depends on the disk only.
LEMMA CompleteSame ==
    ASSUME NEW t, NEW c, NEW d, Holds(t, c, d), Refs(t) \subseteq Placed(t), NEW b, NEW e,
           \A r \in Placed(t) : e[t.locs[r]] = d[t.locs[r]]
    PROVE  Holds(t, b, e) /\ Graph(t, b, e) = Graph(t, c, d)
<1>1. Placed(t) \subseteq Refs(t) /\ Refs(t) \subseteq Ref
  BY DEF Holds, Refs
<1>2. ASSUME NEW r \in Refs(t) PROVE Graph(t, b, e)[r] = Graph(t, c, d)[r]
  <2>1. Graph(t, b, e)[r] = e[t.locs[r]]
    BY <1>1, GraphCells
  <2>2. Graph(t, c, d)[r] = d[t.locs[r]]
    BY <1>1, GraphCells
  <2> QED
    BY <2>1, <2>2
<1> QED
  BY <1>1, <1>2, HoldsSame

(***************************************************************************)
(* What is at a location.                                                  *)
(***************************************************************************)
\* The dictionary that table t, if it is one, stands for on disk d.
StateAt(t, d) ==
    IF /\ t # None /\ WFCompleteIndirectionTable(t)
       /\ \A r \in Refs(t) : Graph(t, d, d)[r] # None /\ t.graph[r] = Successors(Graph(t, d, d)[r])
       /\ BetreeInv(Graph(t, d, d))
    THEN IView(Graph(t, d, d)) ELSE NoState

\* The one member of a set of one.
LEMMA InterpIs ==
    ASSUME NEW g
    PROVE  Interp(g) = IF BetreeInv(g) THEN IView(g) ELSE NoState
<1> DEFINE x == IF BetreeInv(g) THEN IView(g) ELSE NoState
<1>1. {IF BetreeInv(h) THEN IView(h) ELSE NoState : h \in {g}} = {x}
  OBVIOUS
<1>2. Interp(g) = CHOOSE y \in {x} : TRUE
  BY <1>1 DEF Interp
<1> HIDE DEF x
<1>3. Interp(g) = x
  BY <1>2
<1> QED
  BY <1>3 DEF x

\* It is what DiskState says.
LEMMA DiskStateIs == \A loc \in Loc : DiskState[loc] = StateAt(tables[loc], nodes)
<1> SUFFICES ASSUME NEW loc \in Loc PROVE DiskState[loc] = StateAt(tables[loc], nodes)
  OBVIOUS
<1> DEFINE t == tables[loc]
<1>1. CASE t # None /\ WFCompleteIndirectionTable(t)
  <2>1. DiskGraph(t) = Graph(t, nodes, nodes)
    <3>1. \A r \in Ref : r \in Refs(t) <=> r \in Placed(t)
      BY <1>1 DEF WFCompleteIndirectionTable
    <3> HIDE DEF t
    <3> QED
      BY <3>1 DEF DiskGraph, Graph
  <2>2. WFSuccs(loc) <=> \A r \in Refs(t) : Graph(t, nodes, nodes)[r] # None /\ t.graph[r] = Successors(Graph(t, nodes, nodes)[r])
    BY <1>1, <2>1 DEF WFSuccs, SuccessorsAgree
  <2>3. Interp(DiskGraph(t)) = IF BetreeInv(Graph(t, nodes, nodes)) THEN IView(Graph(t, nodes, nodes)) ELSE NoState
    BY <2>1, InterpIs
  <2>4. DiskState[loc] = IF WFSuccs(loc) THEN Interp(DiskGraph(t)) ELSE NoState
    BY DEF DiskState
  <2> HIDE DEF t
  <2> QED
    BY <1>1, <2>2, <2>3, <2>4 DEF StateAt, t
<1>2. CASE ~(t # None /\ WFCompleteIndirectionTable(t))
  BY <1>2 DEF DiskState, WFSuccs, StateAt
<1> QED
  BY <1>1, <1>2

\* A table that leads to a dictionary holds a tree.
LEMMA StateAtHolds ==
    ASSUME NEW t \in Table, NEW d \in [NodeLoc -> Node \cup {None}], StateAt(t, d) # NoState, NEW c \in NodeMap
    PROVE  /\ Refs(t) = Placed(t) /\ Holds(t, c, d)
           /\ StateAt(t, d) = IView(Graph(t, c, d))
<1>1. /\ Refs(t) = Placed(t) /\ Root \in Refs(t)
      /\ \A r \in Refs(t) : Graph(t, d, d)[r] # None /\ t.graph[r] = Successors(Graph(t, d, d)[r])
      /\ BetreeInv(Graph(t, d, d))
      /\ StateAt(t, d) = IView(Graph(t, d, d))
  BY DEF StateAt, WFCompleteIndirectionTable
<1>2. Graph(t, c, d) = Graph(t, d, d)
  <2>1. \A r \in Ref : Graph(t, c, d)[r] = Graph(t, d, d)[r]
    <3>1. \A r \in Ref : r \in Refs(t) => r \in Placed(t)
      BY <1>1
    <3>2. \A r \in Refs(t) : r \in Ref
      BY DEF Refs
    <3> QED
      BY <3>1, <3>2, GraphCells
  <2> QED
    BY <2>1, GraphSame
<1>3. Graph(t, c, d) \in NodeMap
  BY GraphType
<1>4. Root \in NodesIn(Graph(t, c, d))
  BY <1>1, <1>2, RootAssumption DEF NodesIn
<1> QED
  BY <1>1, <1>2, <1>3, <1>4 DEF Holds, Tree

\* The other way round.
LEMMA HoldsStateAt ==
    ASSUME NEW t \in Table, NEW c, NEW d, Holds(t, c, d), Refs(t) \subseteq Placed(t)
    PROVE  /\ StateAt(t, d) = IView(Graph(t, c, d))
           /\ StateAt(t, d) \in State
           /\ StateAt(t, d) # NoState
<1>1. Holds(t, d, d) /\ Graph(t, d, d) = Graph(t, c, d)
  BY CompleteSame
<1>2. t # None
  BY NoneAssumption
<1>3. Refs(t) = Placed(t) /\ Root \in Refs(t) /\ GraphClosed(t)
  BY HoldsNodes DEF Holds
<1>4. WFCompleteIndirectionTable(t)
  BY <1>3 DEF WFCompleteIndirectionTable
<1>5. StateAt(t, d) = IView(Graph(t, d, d))
  BY <1>1, <1>2, <1>4 DEF StateAt, Holds, Tree
<1>6. IView(Graph(t, d, d)) \in State
  BY <1>1, TreeIs DEF Holds
<1> QED
  BY <1>1, <1>5, <1>6, NoStateAssumption

\* There is a dictionary or nothing at a location.
LEMMA StateAtType ==
    ASSUME NEW t \in Table \cup {None}, NEW d \in [NodeLoc -> Node \cup {None}]
    PROVE  StateAt(t, d) \in State \cup {NoState}
<1>1. CASE t = None
  BY <1>1 DEF StateAt
<1>2. CASE t # None /\ StateAt(t, d) # NoState
  <2> DEFINE c == [r \in Ref |-> None]
  <2>1. c \in NodeMap /\ t \in Table
    BY <1>2 DEF NodeMap
  <2> HIDE DEF c
  <2>2. Holds(t, c, d) /\ Refs(t) \subseteq Placed(t)
    BY <1>2, <2>1, StateAtHolds
  <2> QED
    BY <2>1, <2>2, HoldsStateAt
<1> QED
  BY <1>1, <1>2

\* The disk as the view sees it.
LEMMA DiskStateType == DiskTypes => DiskState \in [Loc -> State \cup {NoState}]
<1> SUFFICES ASSUME DiskTypes PROVE DiskState \in [Loc -> State \cup {NoState}]
  OBVIOUS
<1>1. tables \in [Loc -> Table \cup {None}] /\ nodes \in [NodeLoc -> Node \cup {None}]
  BY DEF DiskTypes
<1>2. \A loc \in Loc : DiskState[loc] \in State \cup {NoState}
  <2> SUFFICES ASSUME NEW loc \in Loc PROVE StateAt(tables[loc], nodes) \in State \cup {NoState}
    BY DiskStateIs
  <2>1. tables[loc] \in Table \cup {None}
    BY <1>1
  <2> QED
    BY <1>1, <2>1, StateAtType
<1>3. DiskState = [loc \in Loc |-> DiskState[loc]]
  BY DEF DiskState
<1> QED
  BY <1>2, <1>3

\* The types the lemmas about graphs need.
LEMMA ReadyTypes ==
    ASSUME IInv, Ready
    PROVE  /\ machine \in ReadyState
           /\ machine.persistent \in Table /\ machine.ephemeral \in Table /\ machine.frozen \in Table \cup {None}
           /\ machine.persistentLoc \in Loc /\ machine.frozenLoc \in Loc \cup {NoLoc}
           /\ machine.cache \in NodeMap
           /\ nodes \in [NodeLoc -> Node \cup {None}] /\ tables \in [Loc -> Table \cup {None}]
<1>1. machine \in ReadyState /\ DiskTypes
  BY ReadyParts
<1> QED
  BY <1>1, ReadyFields DEF NodeMap, DiskTypes

\* What the state means to the view while the machine is ready.
LEMMA ReadyView ==
    IInv /\ TreeInv /\ Ready =>
       /\ PersistentLoc = machine.persistentLoc
       /\ FrozenLoc = IF machine.tableWrite = None THEN machine.frozenLoc ELSE NoLoc
       /\ EphemeralState = IView(Graph(machine.ephemeral, machine.cache, nodes))
       /\ EphemeralState \in State
       /\ machine.frozen = None => FrozenState = NoState
       /\ machine.frozen # None => /\ FrozenState = IView(Graph(machine.frozen, machine.cache, nodes))
                                   /\ FrozenState \in State
       /\ DiskState[machine.persistentLoc] = IView(Graph(machine.persistent, machine.cache, nodes))
       /\ DiskState[machine.persistentLoc] \in State
       /\ machine.frozenLoc # NoLoc => /\ DiskState[machine.frozenLoc] = IView(Graph(machine.frozen, machine.cache, nodes))
                                       /\ DiskState[machine.frozenLoc] \in State
                                       /\ machine.frozen # None
       /\ DiskState \in [Loc -> State \cup {NoState}]
<1> SUFFICES ASSUME IInv, TreeInv, Ready
             PROVE  /\ PersistentLoc = machine.persistentLoc
                    /\ FrozenLoc = IF machine.tableWrite = None THEN machine.frozenLoc ELSE NoLoc
                    /\ EphemeralState = IView(Graph(machine.ephemeral, machine.cache, nodes))
                    /\ EphemeralState \in State
                    /\ machine.frozen = None => FrozenState = NoState
                    /\ machine.frozen # None => /\ FrozenState = IView(Graph(machine.frozen, machine.cache, nodes))
                                                /\ FrozenState \in State
                    /\ DiskState[machine.persistentLoc] = IView(Graph(machine.persistent, machine.cache, nodes))
                    /\ DiskState[machine.persistentLoc] \in State
                    /\ machine.frozenLoc # NoLoc =>
                          /\ DiskState[machine.frozenLoc] = IView(Graph(machine.frozen, machine.cache, nodes))
                          /\ DiskState[machine.frozenLoc] \in State
                          /\ machine.frozen # None
                    /\ DiskState \in [Loc -> State \cup {NoState}]
  OBVIOUS
<1>1. /\ Holds(machine.persistent, machine.cache, nodes)
      /\ Refs(machine.persistent) \subseteq Placed(machine.persistent)
      /\ tables[machine.persistentLoc] = machine.persistent
      /\ Holds(machine.ephemeral, machine.cache, nodes)
      /\ machine.frozen # None => Holds(machine.frozen, machine.cache, nodes)
      /\ machine.frozenLoc # NoLoc => tables[machine.frozenLoc] = machine.frozen
  BY DEF TreeInv, TreesOf
<1>2. /\ machine.persistent \in Table /\ machine.ephemeral \in Table /\ machine.frozen \in Table \cup {None}
      /\ machine.persistentLoc \in Loc /\ machine.frozenLoc \in Loc \cup {NoLoc}
  BY ReadyTypes
<1>3. PersistentLoc = machine.persistentLoc /\ FrozenLoc = IF machine.tableWrite = None THEN machine.frozenLoc ELSE NoLoc
  BY DEF PersistentLoc, FrozenLoc, Ready, Loading, Unready
<1>4. ASSUME NEW t, Holds(t, machine.cache, nodes)
      PROVE  /\ Interp(DiskCacheGraph(t)) = IView(Graph(t, machine.cache, nodes))
             /\ IView(Graph(t, machine.cache, nodes)) \in State
  <2>1. DiskCacheGraph(t) = Graph(t, machine.cache, nodes)
    BY DEF DiskCacheGraph, LookupNode, Graph
  <2>2. Tree(Graph(t, machine.cache, nodes))
    BY <1>4 DEF Holds
  <2>3. BetreeInv(Graph(t, machine.cache, nodes))
    BY <2>2 DEF Tree
  <2> QED
    BY <2>1, <2>2, <2>3, TreeIs, InterpIs
<1>5. EphemeralState = IView(Graph(machine.ephemeral, machine.cache, nodes)) /\ EphemeralState \in State
  <2>1. EphemeralState = Interp(DiskCacheGraph(machine.ephemeral))
    BY DEF EphemeralState, Ready, Loading, Unready
  <2> QED
    BY <1>1, <1>4, <2>1
<1>6. machine.frozen = None => FrozenState = NoState
  BY DEF FrozenState
<1>7. machine.frozen # None => /\ FrozenState = IView(Graph(machine.frozen, machine.cache, nodes))
                               /\ FrozenState \in State
  <2> SUFFICES ASSUME machine.frozen # None
               PROVE  /\ FrozenState = IView(Graph(machine.frozen, machine.cache, nodes))
                      /\ FrozenState \in State
    OBVIOUS
  <2>1. FrozenState = Interp(DiskCacheGraph(machine.frozen))
    BY DEF FrozenState
  <2> QED
    BY <1>1, <1>4, <2>1
<1>8. /\ DiskState[machine.persistentLoc] = IView(Graph(machine.persistent, machine.cache, nodes))
      /\ DiskState[machine.persistentLoc] \in State
  <2>1. DiskState[machine.persistentLoc] = StateAt(machine.persistent, nodes)
    BY <1>1, <1>2, DiskStateIs
  <2> QED
    BY <1>1, <1>2, <2>1, HoldsStateAt
<1>9. ASSUME machine.frozenLoc # NoLoc
      PROVE  /\ DiskState[machine.frozenLoc] = IView(Graph(machine.frozen, machine.cache, nodes))
             /\ DiskState[machine.frozenLoc] \in State
             /\ machine.frozen # None
  <2>1. machine.frozen # None /\ Refs(machine.frozen) \subseteq Placed(machine.frozen)
    BY <1>9, ReadyParts DEF TableWriteInv
  <2>2. machine.frozen \in Table /\ machine.frozenLoc \in Loc
    BY <1>2, <1>9, <2>1
  <2>3. DiskState[machine.frozenLoc] = StateAt(machine.frozen, nodes)
    BY <1>1, <1>9, <2>2, DiskStateIs
  <2> QED
    BY <1>1, <2>1, <2>2, <2>3, HoldsStateAt
<1>10. DiskState \in [Loc -> State \cup {NoState}]
  BY DiskStateType DEF IInv, Types
<1> QED
  BY <1>3, <1>5, <1>6, <1>7, <1>8, <1>9, <1>10

\* What it means while the machine is not ready.
LEMMA LoadingView ==
    IInv /\ TreeInv /\ ~Ready =>
       /\ PersistentLoc = IF Loading THEN machine.loc ELSE NoLoc
       /\ FrozenLoc = NoLoc /\ FrozenState = NoState
       /\ EphemeralState = IF Loading THEN DiskState[machine.loc] ELSE NoState
       /\ Loading => machine.loc \in Loc /\ DiskState[machine.loc] # NoState
       /\ DiskState \in [Loc -> State \cup {NoState}]
<1> SUFFICES ASSUME IInv, TreeInv, ~Ready
             PROVE  /\ PersistentLoc = IF Loading THEN machine.loc ELSE NoLoc
                    /\ FrozenLoc = NoLoc /\ FrozenState = NoState
                    /\ EphemeralState = IF Loading THEN DiskState[machine.loc] ELSE NoState
                    /\ Loading => machine.loc \in Loc /\ DiskState[machine.loc] # NoState
                    /\ DiskState \in [Loc -> State \cup {NoState}]
  OBVIOUS
<1>1. DiskState \in [Loc -> State \cup {NoState}]
  BY DiskStateType DEF IInv, Types
<1>2. FrozenLoc = NoLoc /\ FrozenState = NoState
  BY DEF FrozenLoc, FrozenState
<1>3. CASE Loading
  <2>1. machine.loc \in Loc
    BY <1>3, Phases DEF IInv, LoadingState
  <2>2. PersistentLoc = machine.loc /\ EphemeralState = DiskState[machine.loc]
    BY <1>3 DEF PersistentLoc, EphemeralState, Ready, Loading, Unready
  <2> QED
    BY <1>1, <1>2, <1>3, <2>1, <2>2 DEF TreeInv, LoadInv
<1>4. CASE ~Loading
  <2>1. Unready
    BY <1>4, Phases DEF IInv, Types
  <2>2. PersistentLoc = NoLoc /\ EphemeralState = NoState
    BY <2>1 DEF PersistentLoc, EphemeralState, Ready, Loading, Unready
  <2> QED
    BY <1>1, <1>2, <1>4, <2>2
<1> QED
  BY <1>3, <1>4

\* The trees of the invariant are usable.
LEMMA TreesUsableFollows == IInv /\ TreeInv => TreesUsable
<1> SUFFICES ASSUME IInv, TreeInv PROVE TreesUsable
  OBVIOUS
<1>0. NoState \notin State
  BY NoStateAssumption
<1>1. CASE Ready
  BY <1>0, <1>1, ReadyView DEF TreesUsable
<1>2. CASE ~Ready
  BY <1>0, <1>2, LoadingView DEF TreesUsable
<1> QED
  BY <1>1, <1>2

(***************************************************************************)
(* The steps of the view.                                                  *)
(***************************************************************************)
\* Some step of StatesView, or none.
ViewStep ==
    \/ SV!ObtainPersistentLoc
    \/ vop'.type = "AdvanceOp" /\ SV!Advance(vop'.uiop)
    \/ SV!SCrash
    \/ SV!Freeze
    \/ SV!DiskChange
    \/ SV!ProvideFrozenLoc
    \/ SV!ForgetOld
    \/ SV!SStutter

\* The view is what it was.
ViewUnchanged ==
    /\ DiskState' = DiskState
    /\ PersistentLoc' = PersistentLoc /\ FrozenLoc' = FrozenLoc
    /\ FrozenState' = FrozenState /\ EphemeralState' = EphemeralState

\* A step that the view does not see.
LEMMA QuietStep ==
    ASSUME ViewUnchanged, vop'.type \in {"JournalInternalOp", "StatesInternalOp", "PushSyncOp", "PopSyncOp"}
    PROVE  ViewStep
<1>1. SV!SStutter
  BY DEF ViewUnchanged, SV!SStutter, SV!svars
<1> QED
  BY <1>1 DEF ViewStep

\* A step of this side that the view does not see.
LEMMA StutterStep ==
    ASSUME ViewUnchanged, vop' = StatesInternalOp
    PROVE  ViewStep
  BY QuietStep DEF StatesInternalOp

\* Locations keep their dictionaries while tables and nodes stay the same.
LEMMA SameDisk ==
    ASSUME tables' = tables, nodes' = nodes
    PROVE  DiskState' = DiskState
  BY DEF DiskState, WFSuccs, SuccessorsAgree, DiskGraph

\* Two functions that are the same at every location.
LEMMA PrimedDiskState == \A loc \in Loc : DiskState'[loc] = StateAt(tables'[loc], nodes')
<1>1. (\A loc \in Loc : DiskState[loc] = StateAt(tables[loc], nodes))'
  BY DiskStateIs, PTL
<1> QED
  BY <1>1

\* The copies of the operators of MapSpec and ViewOp inside the instance.
LEMMA SameOperators ==
    /\ \A x : SV!MapOps(x) = MapOps(x)
    /\ \A x, y : SV!MapStep(x, y) = MapStep(x, y)
    /\ SV!EmptyMap = EmptyMap /\ SV!State = State
    /\ \A x, y : SV!AdvanceOp(x, y) = AdvanceOp(x, y)
    /\ \A x : SV!SendPersistentLocOp(x) = SendPersistentLocOp(x) /\ SV!SendFrozenLocOp(x) = SendFrozenLocOp(x)
    /\ SV!StatesInternalOp = StatesInternalOp /\ SV!FreezeOp = FreezeOp
    /\ SV!CleanUpOp = CleanUpOp /\ SV!CrashVOp = CrashVOp
<1>1. \A x : SV!MapOps(x) = MapOps(x)
  BY DEF SV!MapOps, SV!Query, SV!Succ, SV!Write, SV!NoOp, SV!GetOp, SV!PutOp, SV!SuccOp, SV!SuccResults, SV!NonEmptyRange, SV!InRange, SV!LowerBound, SV!UpperBound,
         MapOps, Query, Succ, Write, NoOp, GetOp, PutOp, SuccOp, SuccResults, NonEmptyRange, InRange, LowerBound, UpperBound
<1>2. \A x, y : SV!MapStep(x, y) = MapStep(x, y)
  BY DEF SV!MapStep, MapStep
<1>3. SV!EmptyMap = EmptyMap /\ SV!State = State
  BY DEF SV!EmptyMap, EmptyMap, SV!State, State
<1>4. \A x, y : SV!AdvanceOp(x, y) = AdvanceOp(x, y)
  BY DEF SV!AdvanceOp, AdvanceOp
<1>5. \A x : SV!SendPersistentLocOp(x) = SendPersistentLocOp(x) /\ SV!SendFrozenLocOp(x) = SendFrozenLocOp(x)
  BY DEF SV!SendPersistentLocOp, SendPersistentLocOp, SV!SendFrozenLocOp, SendFrozenLocOp
<1>6. /\ SV!StatesInternalOp = StatesInternalOp /\ SV!FreezeOp = FreezeOp
      /\ SV!CleanUpOp = CleanUpOp /\ SV!CrashVOp = CrashVOp
  BY DEF SV!StatesInternalOp, StatesInternalOp, SV!FreezeOp, FreezeOp, SV!CleanUpOp, CleanUpOp, SV!CrashVOp, CrashVOp
<1> QED
  BY <1>1, <1>2, <1>3, <1>4, <1>5, <1>6

\* The same after a step.
LEMMA ReadyViewNext ==
    ASSUME IInv', TreeInv', Ready'
    PROVE  /\ PersistentLoc' = machine'.persistentLoc
           /\ FrozenLoc' = IF machine'.tableWrite = None THEN machine'.frozenLoc ELSE NoLoc
           /\ EphemeralState' = IView(Graph(machine'.ephemeral, machine'.cache, nodes'))
           /\ machine'.frozen = None => FrozenState' = NoState
           /\ machine'.frozen # None => FrozenState' = IView(Graph(machine'.frozen, machine'.cache, nodes'))
           /\ DiskState'[machine'.persistentLoc] = IView(Graph(machine'.persistent, machine'.cache, nodes'))
           /\ machine'.frozenLoc # NoLoc =>
                 DiskState'[machine'.frozenLoc] = IView(Graph(machine'.frozen, machine'.cache, nodes'))
           /\ DiskState' \in [Loc -> State \cup {NoState}]
<1>1. (IInv /\ TreeInv /\ Ready =>
         /\ PersistentLoc = machine.persistentLoc
         /\ FrozenLoc = IF machine.tableWrite = None THEN machine.frozenLoc ELSE NoLoc
         /\ EphemeralState = IView(Graph(machine.ephemeral, machine.cache, nodes))
         /\ EphemeralState \in State
         /\ machine.frozen = None => FrozenState = NoState
         /\ machine.frozen # None => /\ FrozenState = IView(Graph(machine.frozen, machine.cache, nodes))
                                     /\ FrozenState \in State
         /\ DiskState[machine.persistentLoc] = IView(Graph(machine.persistent, machine.cache, nodes))
         /\ DiskState[machine.persistentLoc] \in State
         /\ machine.frozenLoc # NoLoc => /\ DiskState[machine.frozenLoc] = IView(Graph(machine.frozen, machine.cache, nodes))
                                         /\ DiskState[machine.frozenLoc] \in State
                                         /\ machine.frozen # None
         /\ DiskState \in [Loc -> State \cup {NoState}])'
  BY ReadyView, PTL
<1> QED
  BY <1>1

\* How to make the invariant of a machine that is ready.
LEMMA TreeMakesInv ==
    ASSUME Ready', TreesOf'
    PROVE  TreeInv'
  BY DEF TreeInv, LoadInv, Ready, Loading, Unready

\* A step of a machine that is ready and stays ready, and changes at most the copies of nodes that the disk has.
LEMMA CacheStep ==
    ASSUME IInv, TreeInv, Ready, IInv', Ready',
           machine'.persistent = machine.persistent, machine'.ephemeral = machine.ephemeral,
           machine'.frozen = machine.frozen, machine'.persistentLoc = machine.persistentLoc,
           machine'.frozenLoc = machine.frozenLoc, machine'.tableWrite = machine.tableWrite,
           tables' = tables, nodes' = nodes,
           \A r \in Refs(machine.ephemeral) \ Placed(machine.ephemeral) : machine'.cache[r] = machine.cache[r],
           machine.frozen # None =>
              \A r \in Refs(machine.frozen) \ Placed(machine.frozen) : machine'.cache[r] = machine.cache[r]
    PROVE  TreeInv' /\ ViewUnchanged
<1>1. /\ Holds(machine.persistent, machine.cache, nodes)
      /\ Refs(machine.persistent) \subseteq Placed(machine.persistent)
      /\ tables[machine.persistentLoc] = machine.persistent
      /\ Holds(machine.ephemeral, machine.cache, nodes)
      /\ machine.frozen # None => Holds(machine.frozen, machine.cache, nodes)
      /\ machine.frozenLoc # NoLoc => tables[machine.frozenLoc] = machine.frozen
  BY DEF TreeInv, TreesOf
<1>2. ASSUME NEW t, Holds(t, machine.cache, nodes), \A r \in Refs(t) \ Placed(t) : machine'.cache[r] = machine.cache[r]
      PROVE  Holds(t, machine'.cache, nodes) /\ Graph(t, machine'.cache, nodes) = Graph(t, machine.cache, nodes)
  <2>1. \A r \in Refs(t) : r \in Ref
    BY DEF Refs
  <2>2. \A r \in Refs(t) : Graph(t, machine'.cache, nodes)[r] = Graph(t, machine.cache, nodes)[r]
    BY <1>2, <2>1, GraphCells
  <2>3. Placed(t) \subseteq Refs(t)
    BY <1>2 DEF Holds
  <2> QED
    BY <1>2, <2>2, <2>3, HoldsSame
<1>3. /\ Holds(machine.persistent, machine'.cache, nodes)
      /\ Graph(machine.persistent, machine'.cache, nodes) = Graph(machine.persistent, machine.cache, nodes)
  BY <1>1, <1>2
<1>4. /\ Holds(machine.ephemeral, machine'.cache, nodes)
      /\ Graph(machine.ephemeral, machine'.cache, nodes) = Graph(machine.ephemeral, machine.cache, nodes)
  BY <1>1, <1>2
<1>5. machine.frozen # None =>
         /\ Holds(machine.frozen, machine'.cache, nodes)
         /\ Graph(machine.frozen, machine'.cache, nodes) = Graph(machine.frozen, machine.cache, nodes)
  BY <1>1, <1>2
<1>6. TreesOf'
  BY <1>1, <1>3, <1>4, <1>5 DEF TreesOf
<1>7. TreeInv'
  BY <1>6, TreeMakesInv
<1>8. DiskState' = DiskState
  BY SameDisk
<1>9. PersistentLoc' = PersistentLoc /\ FrozenLoc' = FrozenLoc
  BY <1>7, ReadyView, ReadyViewNext
<1>10. EphemeralState' = EphemeralState
  BY <1>4, <1>7, ReadyView, ReadyViewNext
<1>11. FrozenState' = FrozenState
  <2>1. CASE machine.frozen = None
    BY <1>7, <2>1, ReadyView, ReadyViewNext
  <2>2. CASE machine.frozen # None
    BY <1>5, <1>7, <2>2, ReadyView, ReadyViewNext
  <2> QED
    BY <2>1, <2>2
<1> QED
  BY <1>7, <1>8, <1>9, <1>10, <1>11 DEF ViewUnchanged

\* A step that changes the ephemeral tree as an operation of the dictionary does.
LEMMA AdvanceStep ==
    ASSUME IInv, TreeInv, Ready, IInv', Ready',
           machine'.persistent = machine.persistent,
           machine'.frozen = machine.frozen, machine'.persistentLoc = machine.persistentLoc,
           machine'.frozenLoc = machine.frozenLoc, machine'.tableWrite = machine.tableWrite,
           tables' = tables, nodes' = nodes,
           machine.frozen # None =>
              \A r \in Refs(machine.frozen) \ Placed(machine.frozen) : machine'.cache[r] = machine.cache[r],
           Holds(machine'.ephemeral, machine'.cache, nodes'),
           NEW op, op \in MapOps(IView(Graph(machine.ephemeral, machine.cache, nodes))),
           IView(Graph(machine'.ephemeral, machine'.cache, nodes'))
             = MapStep(IView(Graph(machine.ephemeral, machine.cache, nodes)), op),
           NEW replay \in BOOLEAN, vop' = AdvanceOp(op, replay)
    PROVE  TreeInv' /\ ViewStep
<1>1. /\ Holds(machine.persistent, machine.cache, nodes)
      /\ Refs(machine.persistent) \subseteq Placed(machine.persistent)
      /\ tables[machine.persistentLoc] = machine.persistent
      /\ machine.frozen # None => Holds(machine.frozen, machine.cache, nodes)
      /\ machine.frozenLoc # NoLoc => tables[machine.frozenLoc] = machine.frozen
  BY DEF TreeInv, TreesOf
<1>2. ASSUME NEW t, Holds(t, machine.cache, nodes), \A r \in Refs(t) \ Placed(t) : machine'.cache[r] = machine.cache[r]
      PROVE  Holds(t, machine'.cache, nodes) /\ Graph(t, machine'.cache, nodes) = Graph(t, machine.cache, nodes)
  <2>1. \A r \in Refs(t) : r \in Ref
    BY DEF Refs
  <2>2. \A r \in Refs(t) : Graph(t, machine'.cache, nodes)[r] = Graph(t, machine.cache, nodes)[r]
    BY <1>2, <2>1, GraphCells
  <2>3. Placed(t) \subseteq Refs(t)
    BY <1>2 DEF Holds
  <2> QED
    BY <1>2, <2>2, <2>3, HoldsSame
<1>3. Holds(machine.persistent, machine'.cache, nodes)
  BY <1>1, <1>2
<1>4. machine.frozen # None =>
         /\ Holds(machine.frozen, machine'.cache, nodes)
         /\ Graph(machine.frozen, machine'.cache, nodes) = Graph(machine.frozen, machine.cache, nodes)
  BY <1>1, <1>2
<1>5. TreesOf'
  BY <1>1, <1>3, <1>4 DEF TreesOf
<1>6. TreeInv'
  BY <1>5, TreeMakesInv
<1>7. DiskState' = DiskState
  BY SameDisk
<1>8. PersistentLoc' = PersistentLoc /\ FrozenLoc' = FrozenLoc
  BY <1>6, ReadyView, ReadyViewNext
<1>9. FrozenState' = FrozenState
  <2>1. CASE machine.frozen = None
    BY <1>6, <2>1, ReadyView, ReadyViewNext
  <2>2. CASE machine.frozen # None
    BY <1>4, <1>6, <2>2, ReadyView, ReadyViewNext
  <2> QED
    BY <2>1, <2>2
<1>10. /\ EphemeralState # NoState /\ op \in MapOps(EphemeralState)
       /\ EphemeralState' = MapStep(EphemeralState, op)
  <2>1. EphemeralState = IView(Graph(machine.ephemeral, machine.cache, nodes)) /\ EphemeralState \in State
    BY ReadyView
  <2>2. EphemeralState' = IView(Graph(machine'.ephemeral, machine'.cache, nodes'))
    BY <1>6, ReadyViewNext
  <2> QED
    BY <2>1, <2>2, NoStateAssumption
<1>11. vop'.type = "AdvanceOp" /\ vop'.uiop = op
  BY DEF AdvanceOp
<1>12. SV!Advance(op)
  <2>1. \E r \in BOOLEAN : vop' = SV!AdvanceOp(op, r)
    BY SameOperators
  <2> QED
    BY <1>7, <1>8, <1>9, <1>10, <2>1, SameOperators DEF SV!Advance
<1> QED
  BY <1>6, <1>11, <1>12 DEF ViewStep

\* Writes that are done, and reads that begin, leave the trees alone.
LEMMA QuietTrees ==
    IInv /\ TreeInv /\ (WriteBackNodeRespStep \/ PageInNodeReqStep) => TreeInv' /\ ViewStep
<1> SUFFICES ASSUME IInv, TreeInv, WriteBackNodeRespStep \/ PageInNodeReqStep PROVE TreeInv' /\ ViewStep
  OBVIOUS
<1>1. IInv' /\ Ready
  BY WriteBackNodeRespInv, PageInNodeReqInv DEF WriteBackNodeRespStep, WriteBackNodeResp, PageInNodeReqStep, PageInNodeReq
<1>2. machine \in ReadyState
  BY <1>1, ReadyTypes
<1>3. /\ \/ \E id \in ReqId : machine' = [machine EXCEPT !.blockWrites[id] = None]
         \/ \E id \in ReqId, r \in Ref : machine' = [machine EXCEPT !.blockReads[id] = r]
      /\ tables' = tables /\ nodes' = nodes /\ vop' = StatesInternalOp
  BY DEF WriteBackNodeRespStep, WriteBackNodeResp, AckWriteNode, PageInNodeReqStep, PageInNodeReq, RecvReadNode
<1>4. /\ Ready'
      /\ machine'.persistent = machine.persistent /\ machine'.ephemeral = machine.ephemeral
      /\ machine'.frozen = machine.frozen /\ machine'.persistentLoc = machine.persistentLoc
      /\ machine'.frozenLoc = machine.frozenLoc /\ machine'.tableWrite = machine.tableWrite
      /\ machine'.cache = machine.cache
  BY <1>1, <1>2, <1>3 DEF ReadyState, Ready
<1>5. TreeInv' /\ ViewUnchanged
  BY <1>1, <1>3, <1>4, CacheStep
<1> QED
  BY <1>3, <1>5, StutterStep

\* A node that is read has a place in every tree that has it.
LEMMA PageInNodeRespTrees == IInv /\ TreeInv /\ PageInNodeRespStep => TreeInv' /\ ViewStep
<1> SUFFICES ASSUME IInv, TreeInv, PageInNodeRespStep PROVE TreeInv' /\ ViewStep
  OBVIOUS
<1>1. PICK id \in ReqId : \E node \in {nodes[l] : l \in NodeLoc} \ {None} :
              WFNode(node) /\ PageInNodeResp(id, node) /\ AckReadNode(id, node)
  BY DEF PageInNodeRespStep
<1>2. PICK node \in {nodes[l] : l \in NodeLoc} \ {None} :
              WFNode(node) /\ PageInNodeResp(id, node) /\ AckReadNode(id, node)
  BY <1>1
<1>3. IInv' /\ Ready
  BY <1>2, PageInNodeRespInv DEF PageInNodeResp
<1>4. machine \in ReadyState /\ ReadInv
  BY <1>3, ReadyParts
<1> DEFINE r == machine.blockReads[id]
<1>5. /\ machine' = [machine EXCEPT !.cache[r] = node, !.blockReads[id] = None]
      /\ r # None /\ machine.cache[r] = None /\ reqReadNodes[id] # None
      /\ tables' = tables /\ nodes' = nodes /\ vop' = StatesInternalOp
  BY <1>2 DEF PageInNodeRespStep, PageInNodeResp, AckReadNode
<1>6. r \in Ref /\ machine.ephemeral.locs[r] # None
  <2>1. r \in Ref
    BY <1>4, <1>5, ReadyFields
  <2>2. reqReadNodes[id] = machine.ephemeral.locs[r]
    BY <1>4, <1>5 DEF ReadInv, ReadsOf
  <2> QED
    BY <1>5, <2>1, <2>2
<1> HIDE DEF r
<1>7. /\ Ready'
      /\ machine'.persistent = machine.persistent /\ machine'.ephemeral = machine.ephemeral
      /\ machine'.frozen = machine.frozen /\ machine'.persistentLoc = machine.persistentLoc
      /\ machine'.frozenLoc = machine.frozenLoc /\ machine'.tableWrite = machine.tableWrite
      /\ machine'.cache = [machine.cache EXCEPT ![r] = node]
  BY <1>3, <1>4, <1>5 DEF ReadyState, Ready
<1>8. \A s \in Ref : s # r => machine'.cache[s] = machine.cache[s]
  BY <1>4, <1>7, ReadyFields
<1>9. r \in Placed(machine.ephemeral)
  BY <1>6 DEF Placed
<1>10. machine.frozen # None => r \notin Refs(machine.frozen) \ Placed(machine.frozen)
  <2> SUFFICES ASSUME machine.frozen # None, r \in Refs(machine.frozen) \ Placed(machine.frozen) PROVE FALSE
    OBVIOUS
  <2>1. Holds(machine.frozen, machine.cache, nodes)
    BY <1>3 DEF TreeInv, TreesOf
  <2>2. Graph(machine.frozen, machine.cache, nodes)[r] = None
    BY <1>5, <1>6, GraphCells
  <2> QED
    BY <2>1, <2>2 DEF Holds
<1>11. /\ \A s \in Refs(machine.ephemeral) \ Placed(machine.ephemeral) : machine'.cache[s] = machine.cache[s]
       /\ machine.frozen # None =>
              \A s \in Refs(machine.frozen) \ Placed(machine.frozen) : machine'.cache[s] = machine.cache[s]
  BY <1>8, <1>9, <1>10 DEF Refs
<1>12. TreeInv' /\ ViewUnchanged
  BY <1>3, <1>5, <1>7, <1>11, CacheStep
<1> QED
  BY <1>5, <1>12, StutterStep

\* A node is dropped only if it has a place in every tree that has it.
LEMMA EvictTrees == IInv /\ TreeInv /\ EvictStep => TreeInv' /\ ViewStep
<1> SUFFICES ASSUME IInv, TreeInv, EvictStep PROVE TreeInv' /\ ViewStep
  OBVIOUS
<1>1. PICK r \in Ref : Evict(r)
  BY DEF EvictStep
<1>2. IInv' /\ Ready
  BY <1>1, EvictInv DEF Evict
<1>3. machine \in ReadyState
  BY <1>2, ReadyTypes
<1>4. /\ machine' = [machine EXCEPT !.cache[r] = None]
      /\ tables' = tables /\ nodes' = nodes /\ vop' = StatesInternalOp
  BY <1>1 DEF EvictStep, Evict, dvars
<1>5. /\ r \in Refs(machine.ephemeral) => r \in Placed(machine.ephemeral)
      /\ machine.frozen # None /\ r \in Refs(machine.frozen) => r \in Placed(machine.frozen)
  BY <1>1 DEF Evict, MayEvict, FrozenHas
<1>6. /\ Ready'
      /\ machine'.persistent = machine.persistent /\ machine'.ephemeral = machine.ephemeral
      /\ machine'.frozen = machine.frozen /\ machine'.persistentLoc = machine.persistentLoc
      /\ machine'.frozenLoc = machine.frozenLoc /\ machine'.tableWrite = machine.tableWrite
      /\ machine'.cache = [machine.cache EXCEPT ![r] = None]
  BY <1>2, <1>3, <1>4 DEF ReadyState, Ready
<1>7. \A s \in Ref : s # r => machine'.cache[s] = machine.cache[s]
  BY <1>3, <1>6, ReadyFields
<1>8. /\ \A s \in Refs(machine.ephemeral) \ Placed(machine.ephemeral) : machine'.cache[s] = machine.cache[s]
      /\ machine.frozen # None =>
             \A s \in Refs(machine.frozen) \ Placed(machine.frozen) : machine'.cache[s] = machine.cache[s]
  BY <1>5, <1>7 DEF Refs
<1>9. TreeInv' /\ ViewUnchanged
  BY <1>2, <1>4, <1>6, <1>8, CacheStep
<1> QED
  BY <1>4, <1>9, StutterStep

\* The frozen tree is the ephemeral one.
LEMMA FreezeTrees == IInv /\ TreeInv /\ FreezeStep => TreeInv' /\ ViewStep
<1> SUFFICES ASSUME IInv, TreeInv, FreezeStep PROVE TreeInv' /\ ViewStep
  OBVIOUS
<1>1. IInv' /\ Ready
  BY FreezeInv DEF FreezeStep, Freeze
<1>2. machine \in ReadyState /\ machine.ephemeral \in Table
  BY <1>1, ReadyTypes
<1>3. /\ machine.tableWrite = None
      /\ machine' = [machine EXCEPT !.frozen = machine.ephemeral, !.frozenLoc = NoLoc]
      /\ tables' = tables /\ nodes' = nodes /\ vop' = FreezeOp
  BY DEF FreezeStep, Freeze, dvars
<1>4. /\ Ready'
      /\ machine'.persistent = machine.persistent /\ machine'.ephemeral = machine.ephemeral
      /\ machine'.frozen = machine.ephemeral /\ machine'.persistentLoc = machine.persistentLoc
      /\ machine'.frozenLoc = NoLoc /\ machine'.tableWrite = machine.tableWrite
      /\ machine'.cache = machine.cache
  BY <1>1, <1>2, <1>3 DEF ReadyState, Ready
<1>5. TreesOf'
  BY <1>1, <1>3, <1>4 DEF TreeInv, TreesOf
<1>6. TreeInv'
  BY <1>4, <1>5, TreeMakesInv
<1>7. DiskState' = DiskState
  BY <1>3, SameDisk
<1>8. PersistentLoc' = PersistentLoc /\ FrozenLoc' = NoLoc /\ EphemeralState' = EphemeralState
  BY <1>1, <1>3, <1>4, <1>6, ReadyView, ReadyViewNext
<1>9. FrozenState' = EphemeralState
  <2>1. machine.ephemeral # None
    BY <1>2, NoneAssumption
  <2> QED
    BY <1>1, <1>3, <1>4, <1>6, <2>1, ReadyView, ReadyViewNext
<1>10. SV!Freeze
  BY <1>3, <1>7, <1>8, <1>9, SameOperators DEF SV!Freeze
<1> QED
  BY <1>6, <1>10 DEF ViewStep

\* A frozen table is written somewhere else than the persistent one.
LEMMA WriteBackIndirectionTableReqTrees ==
    IInv /\ TreeInv /\ WriteBackIndirectionTableReqStep => TreeInv' /\ ViewStep
<1> SUFFICES ASSUME IInv, TreeInv, WriteBackIndirectionTableReqStep PROVE TreeInv' /\ ViewStep
  OBVIOUS
<1>1. PICK id \in ReqId, loc \in Loc :
          /\ WriteBackIndirectionTableReq(id, loc, machine.frozen)
          /\ RecvWriteTable(id, loc, machine.frozen)
  BY DEF WriteBackIndirectionTableReqStep
<1>2. IInv' /\ Ready
  BY <1>1, WriteBackIndirectionTableReqInv DEF WriteBackIndirectionTableReq
<1>3. machine \in ReadyState /\ tables \in [Loc -> Table \cup {None}] /\ machine.persistentLoc \in Loc
  BY <1>2, ReadyTypes
<1>4. /\ machine' = [machine EXCEPT !.tableWrite = id, !.frozenLoc = loc]
      /\ machine.frozen # None /\ machine.frozenLoc = NoLoc /\ loc # machine.persistentLoc
      /\ tables' = [tables EXCEPT ![loc] = machine.frozen] /\ nodes' = nodes /\ vop' = StatesInternalOp
  BY <1>1 DEF WriteBackIndirectionTableReqStep, WriteBackIndirectionTableReq, RecvWriteTable
<1>5. /\ Ready'
      /\ machine'.persistent = machine.persistent /\ machine'.ephemeral = machine.ephemeral
      /\ machine'.frozen = machine.frozen /\ machine'.persistentLoc = machine.persistentLoc
      /\ machine'.frozenLoc = loc /\ machine'.tableWrite = id
      /\ machine'.cache = machine.cache
  BY <1>2, <1>3, <1>4 DEF ReadyState, Ready
<1>6. tables'[loc] = machine.frozen /\ tables'[machine.persistentLoc] = tables[machine.persistentLoc]
  BY <1>3, <1>4
<1>7. TreesOf'
  BY <1>2, <1>4, <1>5, <1>6 DEF TreeInv, TreesOf
<1>8. TreeInv'
  BY <1>5, <1>7, TreeMakesInv
<1>9. id # None
  BY NoneAssumption
<1>10. PersistentLoc' = PersistentLoc /\ FrozenLoc' = NoLoc /\ FrozenLoc = NoLoc /\ EphemeralState' = EphemeralState
  BY <1>2, <1>4, <1>5, <1>8, <1>9, ReadyView, ReadyViewNext
<1>11. FrozenState' = FrozenState
  BY <1>2, <1>4, <1>5, <1>8, ReadyView, ReadyViewNext
<1>12. /\ PersistentLoc = machine.persistentLoc /\ PersistentLoc # NoLoc
       /\ DiskState[PersistentLoc] # NoState /\ DiskState'[PersistentLoc] = DiskState[PersistentLoc]
       /\ DiskState' \in [Loc -> State \cup {NoState}]
  BY <1>2, <1>3, <1>4, <1>5, <1>8, ReadyView, ReadyViewNext, LocAssumption, NoStateAssumption
<1>13. SV!DiskChange
  BY <1>4, <1>10, <1>11, <1>12, SameOperators DEF SV!DiskChange, SV!DiskChangesPreservesPersistentAndFrozen
<1> QED
  BY <1>8, <1>13 DEF ViewStep

\* The frozen tree is on disk where the machine says.
LEMMA WriteBackIndirectionTableRespTrees ==
    IInv /\ TreeInv /\ WriteBackIndirectionTableRespStep => TreeInv' /\ ViewStep
<1> SUFFICES ASSUME IInv, TreeInv, WriteBackIndirectionTableRespStep PROVE TreeInv' /\ ViewStep
  OBVIOUS
<1>1. PICK id \in ReqId :
          /\ WriteBackIndirectionTableResp(id) /\ AckWriteTable(id)
          /\ vop' = SendFrozenLocOp(machine.frozenLoc)
  BY DEF WriteBackIndirectionTableRespStep
<1>2. IInv' /\ Ready
  BY <1>1, WriteBackIndirectionTableRespInv DEF WriteBackIndirectionTableResp
<1>3. machine \in ReadyState /\ machine.frozenLoc \in Loc \cup {NoLoc}
  BY <1>2, ReadyTypes
<1>4. /\ machine.tableWrite = id /\ machine' = [machine EXCEPT !.tableWrite = None]
      /\ tables' = tables /\ nodes' = nodes
  BY <1>1 DEF WriteBackIndirectionTableResp, AckWriteTable
<1>5. /\ Ready'
      /\ machine'.persistent = machine.persistent /\ machine'.ephemeral = machine.ephemeral
      /\ machine'.frozen = machine.frozen /\ machine'.persistentLoc = machine.persistentLoc
      /\ machine'.frozenLoc = machine.frozenLoc /\ machine'.tableWrite = None
      /\ machine'.cache = machine.cache
  BY <1>2, <1>3, <1>4 DEF ReadyState, Ready
<1>6. TreesOf'
  BY <1>2, <1>4, <1>5 DEF TreeInv, TreesOf
<1>7. TreeInv'
  BY <1>5, <1>6, TreeMakesInv
<1>8. id # None /\ machine.frozenLoc # NoLoc /\ machine.frozenLoc \in Loc /\ machine.frozen # None
  <2>1. id # None
    BY NoneAssumption
  <2>2. TableWriteInv
    BY <1>2, ReadyParts
  <2> QED
    BY <1>3, <1>4, <2>1, <2>2 DEF TableWriteInv
<1>9. PersistentLoc' = PersistentLoc /\ FrozenLoc' = machine.frozenLoc /\ FrozenLoc = NoLoc /\ EphemeralState' = EphemeralState
  BY <1>2, <1>4, <1>5, <1>7, <1>8, ReadyView, ReadyViewNext
<1>10. FrozenState' = FrozenState /\ FrozenState # NoState /\ DiskState[machine.frozenLoc] = FrozenState
  BY <1>2, <1>4, <1>5, <1>7, <1>8, ReadyView, ReadyViewNext, NoStateAssumption
<1>11. DiskState' = DiskState
  BY <1>4, SameDisk
<1>12. SV!ProvideFrozenLoc
  <2>1. vop' = SV!SendFrozenLocOp(machine.frozenLoc)
    BY <1>1, SameOperators
  <2> QED
    BY <1>8, <1>9, <1>10, <1>11, <2>1 DEF SV!ProvideFrozenLoc
<1> QED
  BY <1>7, <1>12 DEF ViewStep

\* The frozen tree becomes the persistent one.
LEMMA CleanUpTrees == IInv /\ TreeInv /\ CleanUpStep => TreeInv' /\ ViewStep
<1> SUFFICES ASSUME IInv, TreeInv, CleanUpStep PROVE TreeInv' /\ ViewStep
  OBVIOUS
<1>1. IInv' /\ Ready
  BY CleanUpInv DEF CleanUpStep, CleanUp
<1>2. machine \in ReadyState
  BY <1>1, ReadyTypes
<1>3. /\ machine.tableWrite = None /\ machine.frozenLoc # NoLoc /\ machine.frozen # None
      /\ machine' = [machine EXCEPT !.persistent = machine.frozen, !.persistentLoc = machine.frozenLoc,
                                    !.frozen = None, !.frozenLoc = NoLoc]
      /\ tables' = tables /\ nodes' = nodes /\ vop' = CleanUpOp
  BY DEF CleanUpStep, CleanUp, dvars
<1>4. /\ Ready'
      /\ machine'.persistent = machine.frozen /\ machine'.ephemeral = machine.ephemeral
      /\ machine'.frozen = None /\ machine'.persistentLoc = machine.frozenLoc
      /\ machine'.frozenLoc = NoLoc /\ machine'.tableWrite = machine.tableWrite
      /\ machine'.cache = machine.cache
  BY <1>1, <1>2, <1>3 DEF ReadyState, Ready
<1>5. Refs(machine.frozen) \subseteq Placed(machine.frozen)
  BY <1>1, <1>3, ReadyParts DEF TableWriteInv
<1>6. TreesOf'
  BY <1>1, <1>3, <1>4, <1>5 DEF TreeInv, TreesOf
<1>7. TreeInv'
  BY <1>4, <1>6, TreeMakesInv
<1>8. DiskState' = DiskState
  BY <1>3, SameDisk
<1>9. PersistentLoc' = FrozenLoc /\ FrozenLoc' = NoLoc /\ EphemeralState' = EphemeralState /\ FrozenState' = NoState
  BY <1>1, <1>3, <1>4, <1>7, ReadyView, ReadyViewNext
<1>10. SV!ForgetOld
  BY <1>3, <1>8, <1>9, SameOperators DEF SV!ForgetOld
<1> QED
  BY <1>7, <1>10 DEF ViewStep

\* A node that is written for a table where the table has nothing else is what the table had in the cache.
LEMMA AssignHolds ==
    ASSUME NEW t \in Table, NEW c, NEW d \in [NodeLoc -> Node \cup {None}], Holds(t, c, d),
           NEW r \in Ref, NEW loc \in NodeLoc, loc \notin LocsOf(t),
           NEW u, u = AssignRefToLocation(t, r, loc), NEW e, e[loc] = c[r], \A l \in NodeLoc : l # loc => e[l] = d[l]
    PROVE  Holds(u, c, e) /\ Graph(u, c, e) = Graph(t, c, d)
<1>1. /\ u \in Table /\ u.graph = t.graph /\ Refs(u) = Refs(t)
      /\ r \in Refs(t) \ Placed(t) => u.locs = [t.locs EXCEPT ![r] = loc] /\ Placed(u) = Placed(t) \cup {r}
      /\ r \notin Refs(t) \ Placed(t) => u = t
  BY AssignFields
<1>2. /\ t.locs \in [Ref -> NodeLoc \cup {None}] /\ Refs(t) \subseteq Ref /\ Placed(t) \subseteq Ref
      /\ \A s \in Placed(t) : t.locs[s] \in LocsOf(t)
  BY TableFields
<1>3. Placed(t) \subseteq Refs(t)
  BY DEF Holds
<1>4. e[loc] = c[r] /\ \A s \in Placed(t) : e[t.locs[s]] = d[t.locs[s]]
  <2>1. \A s \in Placed(t) : t.locs[s] # loc /\ t.locs[s] \in NodeLoc
    BY <1>2 DEF Placed
  <2> QED
    BY <2>1
<1>5. Placed(u) \subseteq Refs(u)
  BY <1>1, <1>3
<1>6. ASSUME NEW s \in Refs(t) PROVE Graph(u, c, e)[s] = Graph(t, c, d)[s]
  <2>0. s \in Ref
    BY <1>2
  <2>1. CASE r \notin Refs(t) \ Placed(t)
    BY <1>1, <1>4, <2>0, <2>1, GraphCells
  <2>2. CASE r \in Refs(t) \ Placed(t) /\ s = r
    <3>1. u.locs[s] = loc /\ s \in Placed(u)
      BY <1>1, <1>2, <2>0, <2>2
    <3> QED
      BY <1>1, <1>4, <2>0, <2>2, <3>1, GraphCells
  <2>3. CASE r \in Refs(t) \ Placed(t) /\ s # r
    <3>1. u.locs[s] = t.locs[s] /\ (s \in Placed(u) <=> s \in Placed(t))
      BY <1>1, <1>2, <2>0, <2>3
    <3> QED
      BY <1>1, <1>4, <2>0, <3>1, GraphCells
  <2> QED
    BY <2>1, <2>2, <2>3
<1> QED
  BY <1>1, <1>5, <1>6, HoldsSame

\* A node is written somewhere no tree has a node, and has that place in the trees that lack it.
LEMMA WriteBackNodeReqTrees == IInv /\ TreeInv /\ WriteBackNodeReqStep => TreeInv' /\ ViewStep
<1> SUFFICES ASSUME IInv, TreeInv, WriteBackNodeReqStep PROVE TreeInv' /\ ViewStep
  OBVIOUS
<1>1. PICK id \in ReqId, r \in Ref, loc \in NodeLoc :
          /\ WriteBackNodeReq(id, r, loc, machine.cache[r])
          /\ RecvWriteNode(id, loc, machine.cache[r])
  BY DEF WriteBackNodeReqStep
<1>2. IInv' /\ Ready
  BY <1>1, WriteBackNodeReqInv DEF WriteBackNodeReq
<1>3. /\ machine \in ReadyState /\ machine.persistent \in Table /\ machine.ephemeral \in Table
      /\ machine.frozen \in Table \cup {None} /\ machine.persistentLoc \in Loc
      /\ nodes \in [NodeLoc -> Node \cup {None}]
  BY <1>2, ReadyTypes
<1>4. /\ machine.tableWrite = None
      /\ loc \notin LocsOf(machine.persistent) /\ loc \notin LocsOf(machine.ephemeral)
      /\ machine.frozen # None => loc \notin LocsOf(machine.frozen)
      /\ machine' = [machine EXCEPT
                     !.ephemeral = AssignRefToLocation(@, r, loc),
                     !.frozen = IF @ = None THEN None ELSE AssignRefToLocation(@, r, loc),
                     !.blockWrites[id] = [ref |-> r, loc |-> loc]]
      /\ nodes' = [nodes EXCEPT ![loc] = machine.cache[r]]
      /\ tables' = tables /\ vop' = StatesInternalOp
  BY <1>1 DEF WriteBackNodeReq, ValidAllocation, RecvWriteNode, WriteBackNodeReqStep
<1>5. /\ Ready'
      /\ machine'.persistent = machine.persistent
      /\ machine'.ephemeral = AssignRefToLocation(machine.ephemeral, r, loc)
      /\ machine'.frozen = IF machine.frozen = None THEN None ELSE AssignRefToLocation(machine.frozen, r, loc)
      /\ machine'.persistentLoc = machine.persistentLoc
      /\ machine'.frozenLoc = machine.frozenLoc /\ machine'.tableWrite = machine.tableWrite
      /\ machine'.cache = machine.cache
  BY <1>2, <1>3, <1>4 DEF ReadyState, Ready
<1>6. /\ Holds(machine.persistent, machine.cache, nodes)
      /\ Refs(machine.persistent) \subseteq Placed(machine.persistent)
      /\ tables[machine.persistentLoc] = machine.persistent
      /\ Holds(machine.ephemeral, machine.cache, nodes)
      /\ machine.frozen # None => Holds(machine.frozen, machine.cache, nodes)
      /\ machine.frozenLoc # NoLoc => tables[machine.frozenLoc] = machine.frozen
  BY <1>2 DEF TreeInv, TreesOf
<1>0. nodes'[loc] = machine.cache[r] /\ \A l \in NodeLoc : l # loc => nodes'[l] = nodes[l]
  BY <1>3, <1>4
<1>a. /\ loc \notin LocsOf(machine.persistent) /\ loc \notin LocsOf(machine.ephemeral)
      /\ machine.frozen # None => loc \notin LocsOf(machine.frozen)
      /\ nodes \in [NodeLoc -> Node \cup {None}]
      /\ machine.persistent \in Table /\ machine.ephemeral \in Table
  BY <1>3, <1>4
<1>b. machine'.ephemeral = AssignRefToLocation(machine.ephemeral, r, loc)
  BY <1>5
<1>c. \A t \in Table : AssignRefToLocation(t, r, loc) \in Table
  BY AssignFields
<1>7. /\ Holds(machine.persistent, machine.cache, nodes')
      /\ Graph(machine.persistent, machine.cache, nodes') = Graph(machine.persistent, machine.cache, nodes)
  <2>1. AssignRefToLocation(machine.persistent, r, loc) = machine.persistent
    BY <1>6 DEF AssignRefToLocation
  <2> QED
    BY ONLY <1>0, <1>a, <1>6, <2>1, AssignHolds, r \in Ref, loc \in NodeLoc
<1>8. /\ Holds(machine'.ephemeral, machine.cache, nodes')
      /\ Graph(machine'.ephemeral, machine.cache, nodes') = Graph(machine.ephemeral, machine.cache, nodes)
  BY ONLY <1>0, <1>a, <1>b, <1>6, AssignHolds, r \in Ref, loc \in NodeLoc
<1>9. ASSUME machine.frozen # None
      PROVE  /\ machine'.frozen # None
             /\ Holds(machine'.frozen, machine.cache, nodes')
             /\ Graph(machine'.frozen, machine.cache, nodes') = Graph(machine.frozen, machine.cache, nodes)
  <2>1. machine.frozen \in Table /\ machine'.frozen = AssignRefToLocation(machine.frozen, r, loc)
    BY <1>3, <1>5, <1>9
  <2>2. machine'.frozen \in Table
    BY <1>c, <2>1
  <2>3. /\ Holds(machine'.frozen, machine.cache, nodes')
        /\ Graph(machine'.frozen, machine.cache, nodes') = Graph(machine.frozen, machine.cache, nodes)
    BY ONLY <1>0, <1>a, <1>6, <1>9, <2>1, AssignHolds, r \in Ref, loc \in NodeLoc
  <2> QED
    BY <2>2, <2>3, NoneAssumption
<1>10. machine.frozenLoc # NoLoc => machine.frozen # None /\ machine'.frozen = machine.frozen
  <2> SUFFICES ASSUME machine.frozenLoc # NoLoc PROVE machine.frozen # None /\ machine'.frozen = machine.frozen
    OBVIOUS
  <2>1. machine.frozen # None /\ Refs(machine.frozen) \subseteq Placed(machine.frozen)
    BY <1>2, ReadyParts DEF TableWriteInv
  <2>2. AssignRefToLocation(machine.frozen, r, loc) = machine.frozen
    BY <2>1 DEF AssignRefToLocation
  <2> QED
    BY <1>5, <2>1, <2>2
<1>11. machine.frozen = None <=> machine'.frozen = None
  BY <1>5, <1>9
<1>12. TreesOf'
  <2>1. tables'[machine'.persistentLoc] = machine'.persistent
    BY <1>4, <1>5, <1>6
  <2>2. machine'.frozenLoc # NoLoc => tables'[machine'.frozenLoc] = machine'.frozen
    BY <1>4, <1>5, <1>6, <1>10
  <2> QED
    BY <1>5, <1>6, <1>7, <1>8, <1>9, <1>11, <2>1, <2>2 DEF TreesOf
<1>13. TreeInv'
  BY <1>5, <1>12, TreeMakesInv
<1>14. PersistentLoc' = PersistentLoc /\ FrozenLoc' = FrozenLoc /\ EphemeralState' = EphemeralState
  BY <1>2, <1>4, <1>5, <1>8, <1>13, ReadyView, ReadyViewNext
<1>15. FrozenState' = FrozenState
  <2>1. CASE machine.frozen = None
    BY <1>2, <1>5, <1>11, <1>13, <2>1, ReadyView, ReadyViewNext
  <2>2. CASE machine.frozen # None
    BY <1>2, <1>5, <1>9, <1>13, <2>2, ReadyView, ReadyViewNext
  <2> QED
    BY <2>1, <2>2
<1>16. /\ PersistentLoc = machine.persistentLoc /\ PersistentLoc # NoLoc
       /\ DiskState[PersistentLoc] # NoState /\ DiskState'[PersistentLoc] = DiskState[PersistentLoc]
       /\ DiskState' \in [Loc -> State \cup {NoState}]
  BY <1>2, <1>3, <1>4, <1>5, <1>7, <1>13, ReadyView, ReadyViewNext, LocAssumption, NoStateAssumption
<1>17. FrozenLoc = machine.frozenLoc
  BY <1>2, <1>4, ReadyView
<1>18. machine.frozenLoc # NoLoc => DiskState[machine.frozenLoc] # NoState
                                  /\ DiskState'[machine.frozenLoc] = DiskState[machine.frozenLoc]
  <2> SUFFICES ASSUME machine.frozenLoc # NoLoc
               PROVE  DiskState[machine.frozenLoc] # NoState /\ DiskState'[machine.frozenLoc] = DiskState[machine.frozenLoc]
    OBVIOUS
  <2>1. DiskState[machine.frozenLoc] = IView(Graph(machine.frozen, machine.cache, nodes)) /\ DiskState[machine.frozenLoc] \in State
    BY <1>2, ReadyView
  <2>2. DiskState'[machine.frozenLoc] = IView(Graph(machine'.frozen, machine.cache, nodes'))
    BY <1>2, <1>5, <1>13, ReadyViewNext
  <2> QED
    BY <1>9, <1>10, <2>1, <2>2, NoStateAssumption
<1>19. SV!DiskChangesPreservesPersistentAndFrozen(DiskState')
  BY <1>16, <1>17, <1>18 DEF SV!DiskChangesPreservesPersistentAndFrozen
<1>20. SV!DiskChange
  BY <1>4, <1>14, <1>15, <1>16, <1>19, SameOperators DEF SV!DiskChange
<1> QED
  BY <1>13, <1>20 DEF ViewStep

\* Nothing happens to the dictionary.
LEMMA NoOpStepIs ==
    ASSUME NEW s
    PROVE  NoOp \in MapOps(s) /\ MapStep(s, NoOp) = s
  BY DEF MapOps, MapStep, NoOp

\* A node that nothing leads to is forgotten.
LEMMA UnallocTrees == IInv /\ TreeInv /\ UnallocStep => TreeInv' /\ ViewStep
<1> SUFFICES ASSUME IInv, TreeInv, UnallocStep PROVE TreeInv' /\ ViewStep
  OBVIOUS
<1>1. PICK r \in Ref : Unalloc(r)
  BY DEF UnallocStep
<1>2. IInv' /\ Ready
  BY <1>1, UnallocInv DEF Unalloc
<1>3. /\ machine \in ReadyState /\ machine.ephemeral \in Table /\ machine.cache \in NodeMap
      /\ nodes \in [NodeLoc -> Node \cup {None}]
  BY <1>2, ReadyTypes
<1> DEFINE E == machine.ephemeral
           E2 == [E EXCEPT !.locs[r] = None, !.graph[r] = None]
           c2 == [machine.cache EXCEPT ![r] = None]
           g == Graph(E, machine.cache, nodes)
           h == Graph(E2, c2, nodes)
<1>4. /\ r \in Refs(E) /\ r # Root
      /\ \A p \in Refs(E) : r \notin E.graph[p]
      /\ machine.frozen # None /\ r \in Refs(machine.frozen) => r \in Placed(machine.frozen)
      /\ machine' = [machine EXCEPT !.ephemeral.locs[r] = None, !.ephemeral.graph[r] = None, !.cache[r] = None]
      /\ tables' = tables /\ nodes' = nodes
  BY <1>1 DEF Unalloc, NoPredecessors, FrozenHas, UnallocStep, dvars
<1>5. [machine EXCEPT !.ephemeral.locs[r] = None, !.ephemeral.graph[r] = None, !.cache[r] = None]
        = [machine EXCEPT !.ephemeral = E2, !.cache = c2]
  BY <1>3 DEF ReadyState, Table
<1>6. /\ E2 \in Table
      /\ E2.locs = [E.locs EXCEPT ![r] = None] /\ E2.graph = [E.graph EXCEPT ![r] = None]
  BY <1>3 DEF Table
<1>7. c2 \in NodeMap /\ \A s \in Ref : c2[s] = IF s = r THEN None ELSE machine.cache[s]
  BY <1>3 DEF NodeMap
<1> HIDE DEF E2, c2
<1>8. /\ Ready'
      /\ machine'.persistent = machine.persistent /\ machine'.ephemeral = E2
      /\ machine'.frozen = machine.frozen /\ machine'.persistentLoc = machine.persistentLoc
      /\ machine'.frozenLoc = machine.frozenLoc /\ machine'.tableWrite = machine.tableWrite
      /\ machine'.cache = c2
  BY <1>2, <1>3, <1>4, <1>5 DEF ReadyState, Ready
<1>9. /\ E.locs \in [Ref -> NodeLoc \cup {None}] /\ E.graph \in [Ref -> (SUBSET Ref) \cup {None}]
      /\ Refs(E) \subseteq Ref /\ Placed(E) \subseteq Ref
  BY <1>3, TableFields
<1> HIDE DEF E
<1>10. \A s \in Ref : /\ E2.locs[s] = IF s = r THEN None ELSE E.locs[s]
                      /\ E2.graph[s] = IF s = r THEN None ELSE E.graph[s]
  BY <1>6, <1>9
<1>11. Placed(E2) = Placed(E) \ {r}
  BY <1>10 DEF Placed
<1>12. Refs(E2) = Refs(E) \ {r}
  BY <1>10 DEF Refs
<1>13. Holds(E, machine.cache, nodes)
  BY <1>2 DEF TreeInv, TreesOf, E
<1>14. ASSUME NEW s \in Ref PROVE h[s] = IF s = r THEN None ELSE g[s]
  <2>1. CASE s = r
    BY <1>12, <2>1, GraphCells
  <2>2. CASE s # r
    BY <1>7, <1>10, <1>11, <1>12, <2>2, GraphCells
  <2> QED
    BY <2>1, <2>2
<1>15. h \in NodeMap
  BY <1>3, <1>6, <1>7, GraphType
<1>16. /\ Placed(E) \subseteq Refs(E)
       /\ \A s \in Refs(E) : E.graph[s] = Successors(g[s]) /\ g[s] # None
       /\ Tree(g)
  BY <1>13 DEF Holds
<1>17. NodesIn(g) = Refs(E)
  BY <1>13, HoldsNodes
<1> HIDE DEF g
<1>18. Tree(h) /\ IView(h) = IView(g)
  <2>1. \A p \in NodesIn(g) : r \notin Successors(g[p])
    BY <1>4, <1>16, <1>17
  <2>2. h[r] = None /\ \A s \in Ref : s # r => h[s] = g[s]
    BY <1>14
  <2> HIDE DEF h
  <2> QED
    BY <1>4, <1>15, <1>16, <2>1, <2>2, UnallocTree
<1>19. Holds(E2, c2, nodes)
  <2>1. Placed(E2) \subseteq Refs(E2)
    BY <1>11, <1>12, <1>16
  <2>2. \A s \in Refs(E2) : E2.graph[s] = Successors(h[s]) /\ h[s] # None
    <3> HIDE DEF h
    <3> QED
      BY <1>9, <1>10, <1>12, <1>14, <1>16
  <2> QED
    BY <1>18, <2>1, <2>2 DEF Holds
<1>20. NoOp \in MapOps(IView(g)) /\ MapStep(IView(g), NoOp) = IView(g)
  BY NoOpStepIs
<1>21. machine.frozen # None => \A s \in Refs(machine.frozen) \ Placed(machine.frozen) : machine'.cache[s] = machine.cache[s]
  BY <1>4, <1>7, <1>8 DEF Refs
<1>22. /\ Holds(machine'.ephemeral, machine'.cache, nodes')
       /\ NoOp \in MapOps(IView(Graph(machine.ephemeral, machine.cache, nodes)))
       /\ IView(Graph(machine'.ephemeral, machine'.cache, nodes'))
            = MapStep(IView(Graph(machine.ephemeral, machine.cache, nodes)), NoOp)
  BY <1>4, <1>8, <1>18, <1>19, <1>20 DEF E, g
<1>23. PICK replay \in BOOLEAN : vop' = AdvanceOp(NoOp, replay)
  BY DEF UnallocStep, AdvanceLabel
<1> QED
  BY <1>2, <1>4, <1>8, <1>21, <1>22, <1>23, AdvanceStep

\* A read that fails changes nothing.
LEMMA NoOpTrees == IInv /\ TreeInv /\ NoOpStep => TreeInv' /\ ViewStep
<1> SUFFICES ASSUME IInv, TreeInv, NoOpStep PROVE TreeInv' /\ ViewStep
  OBVIOUS
<1>1. vop'.type \in {"JournalInternalOp", "StatesInternalOp", "PushSyncOp", "PopSyncOp"}
  BY DEF NoOpStep, JournalInternalOp, StatesInternalOp, PushSyncVOp, PopSyncVOp
<1>2. /\ machine' = machine /\ tables' = tables /\ nodes' = nodes
      /\ \/ \E id \in ReqId : reqReadTables' = [reqReadTables EXCEPT ![id] = None]
         \/ reqReadTables' = reqReadTables
  BY NoOpIs
<1>3. IInv'
  BY NoOpInv
<1>4. DiskState' = DiskState
  BY <1>2, SameDisk
<1>5. CASE Ready
  <2>1. TreesOf'
    BY <1>2, <1>5 DEF TreeInv, TreesOf
  <2>2. Ready'
    BY <1>2, <1>5 DEF Ready
  <2> QED
    BY <1>1, <1>2, <1>3, <1>5, <2>2, CacheStep, QuietStep
<1>6. CASE ~Ready
  <2>1. reqReadTables \in [ReqId -> Loc \cup {None}]
    BY DEF IInv, Types, DiskTypes
  <2>2. \A i \in ReqId : reqReadTables'[i] = reqReadTables[i] \/ reqReadTables'[i] = None
    BY <1>2, <2>1
  <2>3. Unready => reqReadTables' = NoRequests
    <3> SUFFICES ASSUME Unready PROVE reqReadTables' = NoRequests
      OBVIOUS
    <3>1. reqReadTables = NoRequests
      BY DEF TreeInv, LoadInv
    <3> QED
      BY <1>2, <3>1 DEF NoRequests
  <2>4. Loading => \A i \in ReqId : reqReadTables'[i] # None => reqReadTables'[i] = machine.loc
    BY <2>2 DEF TreeInv, LoadInv
  <2>5. Loading => DiskState[machine.loc] # NoState
    BY DEF TreeInv, LoadInv
  <2>6. TreeInv'
    BY <1>2, <1>4, <1>6, <2>3, <2>4, <2>5 DEF TreeInv, LoadInv, Ready, Loading, Unready
  <2>7. /\ PersistentLoc' = PersistentLoc /\ FrozenLoc' = FrozenLoc
        /\ FrozenState' = FrozenState /\ EphemeralState' = EphemeralState
    BY <1>2, <1>4 DEF PersistentLoc, FrozenLoc, FrozenState, EphemeralState, DiskCacheGraph, LookupNode, Ready, Loading, Unready
  <2> QED
    BY <1>1, <1>2, <1>4, <2>6, <2>7, QuietStep DEF ViewUnchanged
<1> QED
  BY <1>5, <1>6

\* What the state means after a step while the machine is not ready.
LEMMA LoadingViewNext ==
    ASSUME IInv', TreeInv', ~Ready'
    PROVE  /\ PersistentLoc' = IF Loading' THEN machine'.loc ELSE NoLoc
           /\ FrozenLoc' = NoLoc /\ FrozenState' = NoState
           /\ EphemeralState' = IF Loading' THEN DiskState'[machine'.loc] ELSE NoState
           /\ DiskState' \in [Loc -> State \cup {NoState}]
<1>1. (IInv /\ TreeInv /\ ~Ready =>
       /\ PersistentLoc = IF Loading THEN machine.loc ELSE NoLoc
       /\ FrozenLoc = NoLoc /\ FrozenState = NoState
       /\ EphemeralState = IF Loading THEN DiskState[machine.loc] ELSE NoState
       /\ Loading => machine.loc \in Loc /\ DiskState[machine.loc] # NoState
       /\ DiskState \in [Loc -> State \cup {NoState}])'
  BY LoadingView, PTL
<1> QED
  BY <1>1

\* The journal's side says which table to load.
LEMMA ReceiveLocTrees == IInv /\ TreeInv /\ ReceiveLocStep => TreeInv' /\ ViewStep
<1> SUFFICES ASSUME IInv, TreeInv, ReceiveLocStep PROVE TreeInv' /\ ViewStep
  OBVIOUS
<1>1. PICK loc \in Loc : DiskState[loc] # NoState /\ ReceiveLoc(loc) /\ vop' = SendPersistentLocOp(loc)
  BY DEF ReceiveLocStep
<1>2. IInv'
  BY LoadingInv
<1>3. /\ Unready /\ machine' = [phase |-> "LoadingIndirectionTable", loc |-> loc, read |-> None]
      /\ reqReadTables' = reqReadTables /\ tables' = tables /\ nodes' = nodes
  BY <1>1 DEF ReceiveLocStep, ReceiveLoc, dvars
<1>4. ~Ready /\ ~Loading /\ Loading' /\ ~Ready' /\ ~Unready' /\ machine'.loc = loc
  BY <1>3 DEF Ready, Loading, Unready
<1>5. DiskState' = DiskState
  BY <1>3, SameDisk
<1>6. TreeInv'
  <2>1. \A id \in ReqId : reqReadTables'[id] = None
    BY <1>3 DEF TreeInv, LoadInv, NoRequests
  <2> QED
    BY <1>1, <1>4, <1>5, <2>1 DEF TreeInv, LoadInv
<1>7. /\ PersistentLoc = NoLoc /\ FrozenLoc = NoLoc /\ FrozenState = NoState
      /\ PersistentLoc' = loc /\ FrozenLoc' = NoLoc /\ FrozenState' = NoState /\ EphemeralState' = DiskState[loc]
  BY <1>2, <1>4, <1>5, <1>6, LoadingView, LoadingViewNext
<1>8. SV!ObtainPersistentLoc
  <2>1. vop' = SV!SendPersistentLocOp(loc)
    BY <1>1, SameOperators
  <2> QED
    BY <1>1, <1>5, <1>7, <2>1 DEF SV!ObtainPersistentLoc
<1> QED
  BY <1>6, <1>8 DEF ViewStep

\* The read of the table begins.
LEMMA PageInIndirectionTableReqTrees ==
    IInv /\ TreeInv /\ PageInIndirectionTableReqStep => TreeInv' /\ ViewStep
<1> SUFFICES ASSUME IInv, TreeInv, PageInIndirectionTableReqStep PROVE TreeInv' /\ ViewStep
  OBVIOUS
<1>1. PICK id \in ReqId, loc \in Loc : PageInIndirectionTableReq(id, loc) /\ RecvReadTable(id, loc)
  BY DEF PageInIndirectionTableReqStep
<1>2. IInv'
  BY LoadingInv
<1>3. /\ Loading /\ loc = machine.loc /\ machine' = [machine EXCEPT !.read = id]
      /\ reqReadTables' = [reqReadTables EXCEPT ![id] = loc]
      /\ tables' = tables /\ nodes' = nodes /\ vop' = StatesInternalOp
  BY <1>1 DEF PageInIndirectionTableReqStep, PageInIndirectionTableReq, RecvReadTable
<1>4. machine \in LoadingState
  BY <1>3, Phases DEF IInv
<1>5. ~Ready /\ Loading' /\ ~Ready' /\ ~Unready' /\ machine'.loc = machine.loc
  BY <1>3, <1>4 DEF LoadingState, Ready, Loading, Unready
<1>6. DiskState' = DiskState
  BY <1>3, SameDisk
<1>7. TreeInv'
  <2>1. reqReadTables \in [ReqId -> Loc \cup {None}]
    BY DEF IInv, Types, DiskTypes
  <2>2. \A i \in ReqId : reqReadTables'[i] = IF i = id THEN loc ELSE reqReadTables[i]
    BY <1>3, <2>1
  <2>3. \A i \in ReqId : reqReadTables'[i] # None => reqReadTables'[i] = machine.loc
    BY <1>3, <2>2 DEF TreeInv, LoadInv
  <2>4. DiskState[machine.loc] # NoState
    BY <1>3 DEF TreeInv, LoadInv
  <2> QED
    BY <1>5, <1>6, <2>3, <2>4 DEF TreeInv, LoadInv
<1>8. ViewUnchanged
  BY <1>2, <1>3, <1>5, <1>6, <1>7, LoadingView, LoadingViewNext DEF ViewUnchanged
<1> QED
  BY <1>3, <1>7, <1>8, StutterStep

\* The table that is read is the one at the location asked for, so the tree is the one that was there.
LEMMA PageInIndirectionTableRespTrees ==
    IInv /\ TreeInv /\ PageInIndirectionTableRespStep => TreeInv' /\ ViewStep
<1> SUFFICES ASSUME IInv, TreeInv, PageInIndirectionTableRespStep PROVE TreeInv' /\ ViewStep
  OBVIOUS
<1>1. PICK id \in ReqId : \E table \in {tables[l] : l \in Loc} :
              PageInIndirectionTableResp(id, table) /\ AckReadTable(id, table)
  BY DEF PageInIndirectionTableRespStep
<1>2. PICK table \in {tables[l] : l \in Loc} : PageInIndirectionTableResp(id, table) /\ AckReadTable(id, table)
  BY <1>1
<1>3. IInv'
  BY PageInIndirectionTableRespInv
<1>4. Loading /\ ~Ready /\ machine.loc \in Loc
  BY <1>2, Phases DEF PageInIndirectionTableResp, IInv, Loading, Ready, LoadingState
<1>5. /\ tables \in [Loc -> Table \cup {None}] /\ nodes \in [NodeLoc -> Node \cup {None}]
  BY DEF IInv, Types, DiskTypes
<1>6. /\ table # None /\ reqReadTables[id] # None /\ table \in {None, tables[reqReadTables[id]]}
      /\ tables' = tables /\ nodes' = nodes /\ vop' = StatesInternalOp
  BY <1>2 DEF PageInIndirectionTableRespStep, PageInIndirectionTableResp, AckReadTable
<1>7. table = tables[machine.loc] /\ table \in Table
  BY <1>4, <1>5, <1>6 DEF TreeInv, LoadInv
<1>8. /\ Ready' /\ machine'.persistent = table /\ machine'.ephemeral = table
      /\ machine'.frozen = None /\ machine'.persistentLoc = machine.loc
      /\ machine'.frozenLoc = NoLoc /\ machine'.tableWrite = None
      /\ machine'.cache = [r \in Ref |-> None]
  BY <1>2 DEF PageInIndirectionTableResp, Ready
<1>9. machine'.cache \in NodeMap
  BY <1>8 DEF NodeMap
<1>10. StateAt(table, nodes) # NoState /\ DiskState[machine.loc] = StateAt(table, nodes)
  BY <1>4, <1>7, DiskStateIs DEF TreeInv, LoadInv
<1>11. /\ Refs(table) = Placed(table) /\ Holds(table, machine'.cache, nodes)
       /\ StateAt(table, nodes) = IView(Graph(table, machine'.cache, nodes))
  BY <1>5, <1>7, <1>9, <1>10, StateAtHolds
<1>12. TreesOf'
  BY <1>6, <1>7, <1>8, <1>11 DEF TreesOf
<1>13. TreeInv'
  BY <1>8, <1>12, TreeMakesInv
<1>14. DiskState' = DiskState
  BY <1>6, SameDisk
<1>15. ViewUnchanged
  <2>1. PersistentLoc' = machine.loc /\ FrozenLoc' = NoLoc /\ FrozenState' = NoState
        /\ EphemeralState' = IView(Graph(table, machine'.cache, nodes))
    BY <1>3, <1>6, <1>8, <1>13, ReadyViewNext
  <2>2. PersistentLoc = machine.loc /\ FrozenLoc = NoLoc /\ FrozenState = NoState /\ EphemeralState = DiskState[machine.loc]
    BY <1>4, LoadingView
  <2> QED
    BY <1>10, <1>11, <1>14, <2>1, <2>2 DEF ViewUnchanged
<1> QED
  BY <1>6, <1>13, <1>15, StutterStep

\* A crash leaves a place alone that is not being written.
LEMMA HavocSame ==
    ASSUME NEW s, NEW reqs, NEW junk, NEW t \in Havoc(s, reqs, junk),
           NEW l \in DOMAIN s, \A id \in ReqId : reqs[id] # l
    PROVE  t[l] = s[l]
  BY DEF Havoc

\* A complete tree, none of whose nodes is being written, survives a crash.
LEMMA CrashKeeps ==
    ASSUME IInv, Ready, Crash, NEW loc \in Loc, NEW t \in Table, tables[loc] = t,
           Holds(t, machine.cache, nodes), Refs(t) \subseteq Placed(t),
           \A id \in ReqId : reqWriteTables[id] # loc,
           \A id \in ReqId : reqWriteNodes[id] # None => reqWriteNodes[id] \notin LocsOf(t)
    PROVE  DiskState'[loc] = DiskState[loc] /\ DiskState[loc] # NoState
<1>1. DOMAIN tables = Loc /\ DOMAIN nodes = NodeLoc
  BY DEF IInv, Types, DiskTypes
<1>2. tables' \in Havoc(tables, reqWriteTables, HavocTable) /\ nodes' \in Havoc(nodes, reqWriteNodes, HavocNode)
  BY DEF Crash, DCrash
<1>3. tables'[loc] = t
  BY <1>1, <1>2, HavocSame
<1>4. ASSUME NEW r \in Placed(t) PROVE nodes'[t.locs[r]] = nodes[t.locs[r]]
  <2>1. t.locs[r] \in LocsOf(t) /\ t.locs[r] \in NodeLoc /\ t.locs[r] # None
    BY TableFields, NoneAssumption DEF Placed
  <2>2. \A id \in ReqId : reqWriteNodes[id] # t.locs[r]
    BY <2>1
  <2> QED
    BY <1>1, <1>2, <2>1, <2>2, HavocSame
<1>5. Holds(t, machine.cache, nodes') /\ Graph(t, machine.cache, nodes') = Graph(t, machine.cache, nodes)
  BY <1>4, CompleteSame
<1>6. StateAt(t, nodes') = IView(Graph(t, machine.cache, nodes'))
  BY <1>5, HoldsStateAt
<1>7. StateAt(t, nodes) = IView(Graph(t, machine.cache, nodes)) /\ StateAt(t, nodes) # NoState
  BY HoldsStateAt
<1>8. DiskState[loc] = StateAt(t, nodes)
  BY DiskStateIs
<1>9. DiskState'[loc] = StateAt(t, nodes')
  BY <1>3, PrimedDiskState
<1> QED
  BY <1>5, <1>6, <1>7, <1>8, <1>9

\* What a crash leaves at the locations that matter.
LEMMA CrashPreserves ==
    ASSUME IInv, TreeInv, Crash
    PROVE  SV!DiskChangesPreservesPersistentAndFrozen(DiskState')
<1>1. CASE Ready
  <2>1. /\ machine \in ReadyState /\ machine.persistent \in Table /\ machine.frozen \in Table \cup {None}
        /\ machine.persistentLoc \in Loc /\ machine.frozenLoc \in Loc \cup {NoLoc}
    BY <1>1, ReadyTypes
  <2>2. TableWriteInv /\ PlaceInv
    BY <1>1, ReadyParts
  <2>3. TreesOf
    BY <1>1 DEF TreeInv
  <2>4. machine.persistentLoc # NoLoc /\ machine.persistentLoc # None
    BY <2>1, LocAssumption, NoneAssumption
  <2>5. \A id \in ReqId : reqWriteTables[id] # machine.persistentLoc
    <3> SUFFICES ASSUME NEW id \in ReqId, reqWriteTables[id] = machine.persistentLoc PROVE FALSE
      OBVIOUS
    <3>1. machine.tableWrite = id /\ machine.frozenLoc = machine.persistentLoc
      BY <2>2, <2>4 DEF TableWriteInv
    <3> QED
      BY <2>2, <2>4, <3>1 DEF TableWriteInv
  <2>6. DiskState'[machine.persistentLoc] = DiskState[machine.persistentLoc] /\ DiskState[machine.persistentLoc] # NoState
    <3>1. \A id \in ReqId : reqWriteNodes[id] # None => reqWriteNodes[id] \notin LocsOf(machine.persistent)
      BY <2>2 DEF PlaceInv
    <3> QED
      BY <1>1, <2>1, <2>3, <2>5, <3>1, CrashKeeps DEF TreesOf
  <2>7. ASSUME machine.tableWrite = None, machine.frozenLoc # NoLoc
        PROVE  DiskState'[machine.frozenLoc] = DiskState[machine.frozenLoc] /\ DiskState[machine.frozenLoc] # NoState
    <3>1. machine.frozen # None /\ Refs(machine.frozen) \subseteq Placed(machine.frozen)
      BY <2>2, <2>7 DEF TableWriteInv
    <3>2. machine.frozen \in Table /\ machine.frozenLoc \in Loc /\ machine.frozenLoc # None
      BY <2>1, <2>7, <3>1, NoneAssumption
    <3>3. \A id \in ReqId : reqWriteTables[id] # machine.frozenLoc
      BY <2>2, <2>7, <3>2, NoneAssumption DEF TableWriteInv
    <3>4. \A id \in ReqId : reqWriteNodes[id] # None => reqWriteNodes[id] \notin LocsOf(machine.frozen)
      BY <2>2, <2>7 DEF PlaceInv
    <3>5. Holds(machine.frozen, machine.cache, nodes) /\ tables[machine.frozenLoc] = machine.frozen
      BY <2>3, <2>7, <3>1 DEF TreesOf
    <3> QED
      BY <1>1, <3>1, <3>2, <3>3, <3>4, <3>5, CrashKeeps
  <2>8. PersistentLoc = machine.persistentLoc /\ FrozenLoc = IF machine.tableWrite = None THEN machine.frozenLoc ELSE NoLoc
    BY <1>1, ReadyView
  <2> QED
    BY <2>4, <2>6, <2>7, <2>8 DEF SV!DiskChangesPreservesPersistentAndFrozen
<1>2. CASE ~Ready
  <2>1. reqWriteNodes = NoRequests /\ reqWriteTables = NoRequests
    BY <1>2 DEF IInv, IdleInv
  <2>2. tables \in [Loc -> Table \cup {None}] /\ nodes \in [NodeLoc -> Node \cup {None}]
    BY DEF IInv, Types, DiskTypes
  <2>3. tables' \in Havoc(tables, reqWriteTables, HavocTable) /\ nodes' \in Havoc(nodes, reqWriteNodes, HavocNode)
    BY DEF Crash, DCrash
  <2>4. tables' \in [Loc -> Table \cup {None}] /\ nodes' \in [NodeLoc -> Node \cup {None}]
    BY CrashInv DEF IInv, Types, DiskTypes
  <2>a. DOMAIN tables = Loc /\ DOMAIN nodes = NodeLoc
    BY <2>2
  <2>5. \A l \in Loc : tables'[l] = tables[l]
    <3>1. \A l \in Loc : \A id \in ReqId : reqWriteTables[id] # l
      BY <2>1, NoneAssumption DEF NoRequests
    <3> QED
      BY <2>3, <2>a, <3>1, HavocSame
  <2>6. \A l \in NodeLoc : nodes'[l] = nodes[l]
    <3>1. \A l \in NodeLoc : \A id \in ReqId : reqWriteNodes[id] # l
      BY <2>1, NoneAssumption DEF NoRequests
    <3> QED
      BY <2>3, <2>a, <3>1, HavocSame
  <2>7. tables' = tables
    BY <2>2, <2>4, <2>5
  <2>8. nodes' = nodes
    BY <2>2, <2>4, <2>6
  <2>9. DiskState' = DiskState
    BY <2>7, <2>8, SameDisk
  <2>10. /\ PersistentLoc = IF Loading THEN machine.loc ELSE NoLoc
         /\ FrozenLoc = NoLoc
         /\ Loading => DiskState[machine.loc] # NoState
    BY <1>2, LoadingView
  <2> QED
    BY <2>9, <2>10 DEF SV!DiskChangesPreservesPersistentAndFrozen
<1> QED
  BY <1>1, <1>2

\* A crash forgets everything but the disk.
LEMMA CrashTrees == IInv /\ TreeInv /\ Crash => TreeInv' /\ ViewStep
<1> SUFFICES ASSUME IInv, TreeInv, Crash PROVE TreeInv' /\ ViewStep
  OBVIOUS
<1>1. IInv'
  BY CrashInv
<1>2. Unready' /\ ~Loading' /\ ~Ready' /\ reqReadTables' = NoRequests /\ vop' = CrashVOp
  BY DEF Crash, StartState, DCrash, Unready, Loading, Ready
<1>3. TreeInv'
  BY <1>2 DEF TreeInv, LoadInv, NoRequests
<1>4. /\ PersistentLoc' = NoLoc /\ FrozenLoc' = NoLoc /\ FrozenState' = NoState /\ EphemeralState' = NoState
      /\ DiskState' \in [Loc -> State \cup {NoState}]
  BY <1>1, <1>2, <1>3, LoadingViewNext
<1>5. SV!DiskChangesPreservesPersistentAndFrozen(DiskState')
  BY CrashPreserves
<1>6. SV!SCrash
  BY <1>2, <1>4, <1>5, SameOperators DEF SV!SCrash
<1> QED
  BY <1>3, <1>6 DEF ViewStep

(***************************************************************************)
(* What a transaction makes of the tree.                                   *)
(***************************************************************************)
\* The tree of machine x.
GraphOf(x) == Graph(x.ephemeral, x.cache, nodes)

\* The machine x that the operations D have led to: they are done, their successors are there, and nothing else
\* is different, nor is anything that only the frozen tree still has in the cache.
TransInv(x, D) ==
    /\ x \in MoveStates
    /\ Refs(machine.ephemeral) \subseteq Refs(x.ephemeral)
    /\ \A op \in D : /\ Successors(op.node) \subseteq Refs(x.ephemeral)
                     /\ op.type = "AllocOp" => op.ref \notin Refs(machine.ephemeral)
    /\ \A r \in Ref : \/ \E op \in D : op.ref = r /\ GraphOf(x)[r] = op.node
                      \/ GraphOf(x)[r] = GraphOf(machine)[r] /\ \A op \in D : op.ref # r
    /\ \A r \in Refs(x.ephemeral) : x.ephemeral.graph[r] = Successors(GraphOf(x)[r]) /\ GraphOf(x)[r] # None
    /\ machine.frozen # None =>
          \A r \in Refs(machine.frozen) \ Placed(machine.frozen) : x.cache[r] = machine.cache[r]

\* One operation more.
LEMMA TransStep ==
    ASSUME IInv, TreeInv, Ready, NEW D, NEW x, TransInv(x, D), NEW op \in Op, NEW d, d = OpStep(x, op), d # None
    PROVE  TransInv(d, D \cup {op})
<1>1. /\ x \in MoveStates
      /\ Refs(machine.ephemeral) \subseteq Refs(x.ephemeral)
      /\ \A o \in D : /\ Successors(o.node) \subseteq Refs(x.ephemeral)
                      /\ o.type = "AllocOp" => o.ref \notin Refs(machine.ephemeral)
      /\ \A r \in Ref : \/ \E o \in D : o.ref = r /\ GraphOf(x)[r] = o.node
                        \/ GraphOf(x)[r] = GraphOf(machine)[r] /\ \A o \in D : o.ref # r
      /\ \A r \in Refs(x.ephemeral) : x.ephemeral.graph[r] = Successors(GraphOf(x)[r]) /\ GraphOf(x)[r] # None
      /\ machine.frozen # None =>
            \A r \in Refs(machine.frozen) \ Placed(machine.frozen) : x.cache[r] = machine.cache[r]
  BY DEF TransInv
<1>2. x \in ReadyState /\ DiskTypes
  BY <1>1, ReadyParts DEF MoveStates
<1>3. d \in MoveStates
  BY <1>1, <1>2, OpStepKeeps
<1>4. /\ d = Dirtied(x, op)
      /\ Successors(op.node) \subseteq Refs(x.ephemeral)
      /\ op.type = "AllocOp" => op.ref \notin Refs(x.ephemeral) /\ x.cache[op.ref] = None
      /\ op.type # "AllocOp" => op.ref \in Refs(x.ephemeral) /\ x.cache[op.ref] # None /\ FrozenHas(op.ref)
  BY OpStepIs
<1>5. op.ref \in Ref /\ op.node \in Node /\ op.node # None
  BY NoneAssumption DEF Op
<1>6. /\ \A s \in Ref :
            /\ d.cache[s] = IF s = op.ref THEN op.node ELSE x.cache[s]
            /\ d.ephemeral.locs[s] = IF s = op.ref THEN None ELSE x.ephemeral.locs[s]
            /\ d.ephemeral.graph[s] = IF s = op.ref THEN Successors(op.node) ELSE x.ephemeral.graph[s]
      /\ Placed(d.ephemeral) = Placed(x.ephemeral) \ {op.ref}
      /\ Refs(d.ephemeral) = Refs(x.ephemeral) \cup {op.ref}
  BY <1>2, <1>4, DirtiedCells
<1>7. ASSUME NEW s \in Ref PROVE GraphOf(d)[s] = IF s = op.ref THEN op.node ELSE GraphOf(x)[s]
  <2>1. CASE s = op.ref
    <3>1. s \in Refs(d.ephemeral) /\ s \notin Placed(d.ephemeral) /\ d.cache[s] = op.node
      BY <1>6, <2>1
    <3> QED
      BY <2>1, <3>1, GraphCells DEF GraphOf
  <2>2. CASE s # op.ref
    <3>1. /\ s \in Refs(d.ephemeral) <=> s \in Refs(x.ephemeral)
          /\ s \in Placed(d.ephemeral) <=> s \in Placed(x.ephemeral)
          /\ d.cache[s] = x.cache[s] /\ d.ephemeral.locs[s] = x.ephemeral.locs[s]
      BY <1>6, <2>2
    <3> QED
      BY <2>2, <3>1, GraphCells DEF GraphOf
  <2> QED
    BY <2>1, <2>2
<1>8. Refs(machine.ephemeral) \subseteq Refs(d.ephemeral)
  BY <1>1, <1>6
<1>9. \A o \in D \cup {op} : /\ Successors(o.node) \subseteq Refs(d.ephemeral)
                             /\ o.type = "AllocOp" => o.ref \notin Refs(machine.ephemeral)
  BY <1>1, <1>4, <1>6
<1>10. \A r \in Ref : \/ \E o \in D \cup {op} : o.ref = r /\ GraphOf(d)[r] = o.node
                      \/ GraphOf(d)[r] = GraphOf(machine)[r] /\ \A o \in D \cup {op} : o.ref # r
  <2> SUFFICES ASSUME NEW r \in Ref
               PROVE  \/ \E o \in D \cup {op} : o.ref = r /\ GraphOf(d)[r] = o.node
                      \/ GraphOf(d)[r] = GraphOf(machine)[r] /\ \A o \in D \cup {op} : o.ref # r
    OBVIOUS
  <2>1. CASE r = op.ref
    BY <1>7, <2>1
  <2>2. CASE r # op.ref
    <3>1. GraphOf(d)[r] = GraphOf(x)[r]
      BY <1>7, <2>2
    <3> QED
      BY <1>1, <2>2, <3>1
  <2> QED
    BY <2>1, <2>2
<1>11. \A r \in Refs(d.ephemeral) : d.ephemeral.graph[r] = Successors(GraphOf(d)[r]) /\ GraphOf(d)[r] # None
  <2> SUFFICES ASSUME NEW r \in Refs(d.ephemeral)
               PROVE  d.ephemeral.graph[r] = Successors(GraphOf(d)[r]) /\ GraphOf(d)[r] # None
    OBVIOUS
  <2>0. r \in Ref
    BY DEF Refs
  <2>1. CASE r = op.ref
    BY <1>5, <1>6, <1>7, <2>0, <2>1
  <2>2. CASE r # op.ref
    BY <1>1, <1>6, <1>7, <2>0, <2>2
  <2> QED
    BY <2>1, <2>2
<1>12. ASSUME machine.frozen # None, NEW r \in Refs(machine.frozen) \ Placed(machine.frozen)
       PROVE  d.cache[r] = machine.cache[r]
  <2>1. r \in Ref /\ x.cache[r] = machine.cache[r]
    BY <1>1, <1>12 DEF Refs
  <2>2. r # op.ref
    <3> SUFFICES ASSUME r = op.ref PROVE FALSE
      OBVIOUS
    <3>1. ~FrozenHas(op.ref)
      BY <1>12 DEF FrozenHas
    <3>2. Holds(machine.frozen, machine.cache, nodes)
      BY <1>12 DEF TreeInv, TreesOf
    <3>3. Graph(machine.frozen, machine.cache, nodes)[r] = machine.cache[r]
      BY <1>12, <2>1, GraphCells
    <3>4. machine.cache[r] # None
      BY <1>12, <3>2, <3>3 DEF Holds
    <3> QED
      BY <1>4, <2>1, <3>1, <3>4
  <2> QED
    BY <1>6, <2>1, <2>2
<1> QED
  BY <1>3, <1>8, <1>9, <1>10, <1>11, <1>12 DEF TransInv

\* Before the first operation.
LEMMA TransInit ==
    ASSUME IInv, TreeInv, Ready
    PROVE  TransInv(machine, {})
<1>1. machine \in ReadyState /\ CacheInv /\ ReadInv
  BY ReadyParts
<1>2. machine \in MoveStates
  BY <1>1 DEF MoveStates, CacheInv, ReadInv
<1>3. \A r \in Refs(machine.ephemeral) : /\ machine.ephemeral.graph[r] = Successors(GraphOf(machine)[r])
                                         /\ GraphOf(machine)[r] # None
  BY DEF TreeInv, TreesOf, Holds, GraphOf
<1> QED
  BY <1>2, <1>3 DEF TransInv

\* The operations of a sequence.
OpsOf(ops) == {ops[i] : i \in 1..Len(ops)}

\* All of them.
LEMMA TransAll ==
    ASSUME IInv, TreeInv, Ready, NEW ops \in Seq(Op), OpTransaction(machine, ops) # None
    PROVE  TransInv(OpTransaction(machine, ops), OpsOf(ops))
<1>0. Len(ops) \in Nat
  OBVIOUS
<1>1. PICK p : /\ p[0] = machine
               /\ \A i \in 1..Len(ops) : p[i] = OpStep(p[i - 1], ops[i])
               /\ OpTransaction(machine, ops) = p[Len(ops)]
  BY TransactionPath
<1> DEFINE done(i) == {ops[j] : j \in 1..i}
           S == {i \in Nat : i <= Len(ops) => p[i] = None \/ TransInv(p[i], done(i))}
<1>2. 0 \in S
  <2>1. done(0) = {}
    OBVIOUS
  <2> HIDE DEF done
  <2> QED
    BY <1>1, <2>1, TransInit
<1>3. ASSUME NEW i \in Nat, i \in S PROVE i + 1 \in S
  <2> DEFINE j == i + 1
  <2> SUFFICES ASSUME j <= Len(ops) PROVE p[j] = None \/ TransInv(p[j], done(j))
    OBVIOUS
  <2>1. j \in 1..Len(ops) /\ j - 1 = i /\ i <= Len(ops)
    BY <1>0
  <2>2. p[i] = None \/ TransInv(p[i], done(i))
    BY <1>3, <2>1
  <2>3. done(j) = done(i) \cup {ops[j]}
    <3>1. \A k : k \in 1..j <=> k \in 1..i \/ k = j
      OBVIOUS
    <3> HIDE DEF j
    <3> QED
      BY <3>1
  <2> HIDE DEF j, done
  <2>4. p[j] = OpStep(p[i], ops[j]) /\ ops[j] \in Op
    BY <1>1, <2>1
  <2>5. OpStep(None, ops[j]) = None
    BY DEF OpStep
  <2>6. CASE p[i] = None
    BY <2>4, <2>5, <2>6
  <2>7. CASE p[j] # None /\ TransInv(p[i], done(i))
    BY <2>3, <2>4, <2>7, TransStep
  <2> QED
    BY <2>2, <2>6, <2>7
<1> HIDE DEF S
<1>4. Nat \subseteq S
  BY <1>2, <1>3, SetInduction
<1>5. Len(ops) \in S /\ Len(ops) <= Len(ops)
  BY <1>0, <1>4
<1>6. TransInv(p[Len(ops)], done(Len(ops)))
  BY <1>1, <1>5 DEF S
<1> QED
  BY <1>1, <1>6 DEF OpsOf

\* The ephemeral tree.
Current == Graph(machine.ephemeral, machine.cache, nodes)

\* It is a tree.
LEMMA CurrentIs ==
    ASSUME IInv, TreeInv, Ready
    PROVE  Tree(Current) /\ Current \in NodeMap /\ NodesIn(Current) = Refs(machine.ephemeral) /\ Root \in NodesIn(Current)
<1>1. Holds(machine.ephemeral, machine.cache, nodes)
  BY DEF TreeInv, TreesOf
<1>2. Tree(Current)
  BY <1>1 DEF Holds, Current
<1>3. NodesIn(Current) = Refs(machine.ephemeral)
  BY <1>1, HoldsNodes DEF Current
<1> QED
  BY <1>2, <1>3, TreeIs

\* What can be read of it is what it is.
LEMMA ReadableIs ==
    ASSUME IInv, TreeInv, Ready
    PROVE  \A r \in NodesIn(Readable) : r \in NodesIn(Current) /\ Readable[r] = Current[r]
<1> SUFFICES ASSUME NEW r \in NodesIn(Readable) PROVE r \in NodesIn(Current) /\ Readable[r] = Current[r]
  OBVIOUS
<1>1. r \in Ref /\ r \in Refs(machine.ephemeral) /\ machine.cache[r] # None /\ Readable[r] = machine.cache[r]
  BY DEF NodesIn, Readable
<1>2. r \in NodesIn(Current)
  BY <1>1, CurrentIs
<1>3. CASE r \in Placed(machine.ephemeral)
  <2>1. machine.cache[r] = nodes[machine.ephemeral.locs[r]]
    BY <1>1, <1>3, ReadyParts DEF CacheInv, CacheOf
  <2> QED
    BY <1>1, <1>2, <1>3, <2>1, GraphCells DEF Current
<1>4. CASE r \notin Placed(machine.ephemeral)
  BY <1>1, <1>2, <1>4, GraphCells DEF Current
<1> QED
  BY <1>3, <1>4

\* The tree after a transaction.
LEMMA MoveGraph ==
    ASSUME IInv, TreeInv, Ready, NEW t, t.ops \in Seq(Op), BetreeMove(t), UNCHANGED dvars
    PROVE  /\ Current' \in NodeMap /\ RefGraphIsClosed(Current')
           /\ \A op \in OpsOf(t.ops) : op.type = "AllocOp" => op.ref \notin NodesIn(Current)
           /\ \A r \in Ref : \/ \E op \in OpsOf(t.ops) : op.ref = r /\ Current'[r] = op.node
                             \/ Current'[r] = Current[r] /\ \A op \in OpsOf(t.ops) : op.ref # r
           /\ \A r \in Refs(machine'.ephemeral) : machine'.ephemeral.graph[r] = Successors(Current'[r]) /\ Current'[r] # None
<1>1. nodes' = nodes
  BY DEF dvars
<1>2. TransInv(machine', OpsOf(t.ops))
  BY TransAll DEF BetreeMove
<1> DEFINE D == OpsOf(t.ops)
<1>3. /\ machine' \in MoveStates
      /\ Refs(machine.ephemeral) \subseteq Refs(machine'.ephemeral)
      /\ \A op \in D : /\ Successors(op.node) \subseteq Refs(machine'.ephemeral)
                       /\ op.type = "AllocOp" => op.ref \notin Refs(machine.ephemeral)
      /\ \A r \in Ref : \/ \E op \in D : op.ref = r /\ GraphOf(machine')[r] = op.node
                        \/ GraphOf(machine')[r] = GraphOf(machine)[r] /\ \A op \in D : op.ref # r
      /\ \A r \in Refs(machine'.ephemeral) :
            machine'.ephemeral.graph[r] = Successors(GraphOf(machine')[r]) /\ GraphOf(machine')[r] # None
  BY <1>2 DEF TransInv
<1>4. GraphOf(machine') = Current' /\ GraphOf(machine) = Current
  BY <1>1 DEF GraphOf, Current
<1>5. /\ NodesIn(Current) = Refs(machine.ephemeral) /\ RefGraphIsClosed(Current)
      /\ nodes \in [NodeLoc -> Node \cup {None}]
  BY CurrentIs, TreeIs, ReadyTypes
<1>6. Current' \in NodeMap
  <2>1. machine'.ephemeral \in Table /\ machine'.cache \in NodeMap
    BY <1>3, ReadyFields DEF MoveStates, NodeMap
  <2> QED
    BY <1>1, <1>5, <2>1, GraphType DEF Current
<1> HIDE DEF D
<1>7. NodesIn(Current') = Refs(machine'.ephemeral)
  <2>1. \A r \in Refs(machine'.ephemeral) : r \in Ref /\ Current'[r] # None
    BY <1>3, <1>4 DEF Refs
  <2>2. \A r \in Ref : r \notin Refs(machine'.ephemeral) => Current'[r] = None
    BY GraphCells DEF Current
  <2> QED
    BY <2>1, <2>2 DEF NodesIn
<1>8. RefGraphIsClosed(Current')
  <2> SUFFICES ASSUME NEW r \in NodesIn(Current') PROVE Successors(Current'[r]) \subseteq NodesIn(Current')
    BY DEF RefGraphIsClosed
  <2>0. r \in Ref /\ Current'[r] # None
    BY DEF NodesIn
  <2>1. CASE \E op \in D : op.ref = r /\ Current'[r] = op.node
    BY <1>3, <1>7, <2>1
  <2>2. CASE Current'[r] = Current[r]
    <3>1. r \in NodesIn(Current)
      BY <2>0, <2>2 DEF NodesIn
    <3>2. Successors(Current[r]) \subseteq NodesIn(Current)
      BY <1>5, <3>1 DEF RefGraphIsClosed
    <3> QED
      BY <1>3, <1>5, <1>7, <2>2, <3>2
  <2> QED
    BY <1>3, <1>4, <2>0, <2>1, <2>2
<1> QED
  BY <1>3, <1>4, <1>5, <1>6, <1>8 DEF D

\* A transaction that leaves a tree with the dictionary that its operation asks for.
LEMMA MoveAdvance ==
    ASSUME IInv, TreeInv, Ready, NEW t, t.ops \in Seq(Op), BetreeMove(t), UNCHANGED dvars,
           AdvanceLabel(t.uiop), Tree(Current'),
           t.uiop \in MapOps(IView(Current)), IView(Current') = MapStep(IView(Current), t.uiop)
    PROVE  TreeInv' /\ ViewStep
<1>1. nodes' = nodes /\ tables' = tables
  BY DEF dvars
<1>2. TransInv(machine', OpsOf(t.ops))
  BY TransAll DEF BetreeMove
<1>3. machine' \in MoveStates
  BY <1>2 DEF TransInv
<1>4. /\ machine' \in ReadyState /\ CacheOf(machine')
      /\ machine'.persistent = machine.persistent /\ machine'.frozen = machine.frozen
      /\ machine'.persistentLoc = machine.persistentLoc /\ machine'.frozenLoc = machine.frozenLoc
      /\ machine'.tableWrite = machine.tableWrite
  BY <1>3 DEF MoveStates
<1>5. Ready' /\ IInv'
  BY <1>4, MoveInv DEF ReadyState, Ready
<1>6. machine.frozen # None => \A r \in Refs(machine.frozen) \ Placed(machine.frozen) : machine'.cache[r] = machine.cache[r]
  BY <1>2 DEF TransInv
<1>7. Holds(machine'.ephemeral, machine'.cache, nodes')
  <2>1. Placed(machine'.ephemeral) \subseteq Refs(machine'.ephemeral)
    BY <1>4 DEF CacheOf
  <2>2. \A r \in Refs(machine'.ephemeral) : machine'.ephemeral.graph[r] = Successors(Current'[r]) /\ Current'[r] # None
    BY MoveGraph
  <2> QED
    BY <2>1, <2>2 DEF Holds, Current
<1>8. /\ t.uiop \in MapOps(IView(Graph(machine.ephemeral, machine.cache, nodes)))
      /\ IView(Graph(machine'.ephemeral, machine'.cache, nodes'))
           = MapStep(IView(Graph(machine.ephemeral, machine.cache, nodes)), t.uiop)
  BY DEF Current
<1> DEFINE op == t.uiop
<1>9. /\ op \in MapOps(IView(Graph(machine.ephemeral, machine.cache, nodes)))
      /\ IView(Graph(machine'.ephemeral, machine'.cache, nodes'))
           = MapStep(IView(Graph(machine.ephemeral, machine.cache, nodes)), op)
  BY <1>8
<1>10. PICK replay \in BOOLEAN : vop' = AdvanceOp(op, replay)
  BY DEF AdvanceLabel
<1> HIDE DEF op
<1> QED
  BY <1>1, <1>4, <1>5, <1>6, <1>7, <1>9, <1>10, AdvanceStep

\* The operations of short sequences.
LEMMA OpsOfShort ==
    /\ OpsOf(<< >>) = {}
    /\ \A a : OpsOf(<<a>>) = {a}
    /\ \A a, b : OpsOf(<<a, b>>) = {a, b}
<1>1. OpsOf(<< >>) = {}
  BY DEF OpsOf
<1>2. ASSUME NEW a PROVE OpsOf(<<a>>) = {a}
  BY DEF OpsOf
<1>3. ASSUME NEW a, NEW b PROVE OpsOf(<<a, b>>) = {a, b}
  <2> DEFINE q == <<a, b>>
  <2>1. Len(q) = 2 /\ q[1] = a /\ q[2] = b
    OBVIOUS
  <2>2. \A i : i \in 1..2 <=> i = 1 \/ i = 2
    OBVIOUS
  <2> HIDE DEF q
  <2>3. OpsOf(q) = {a, b}
    BY <2>1, <2>2 DEF OpsOf
  <2> QED
    BY <2>3 DEF q
<1> QED
  BY <1>1, <1>2, <1>3

\* The fields of operations.
LEMMA OpFields ==
    /\ \A r, n : WriteOp(r, n).type # "AllocOp" /\ WriteOp(r, n).ref = r /\ WriteOp(r, n).node = n
    /\ \A r, n : AllocOp(r, n).type = "AllocOp" /\ AllocOp(r, n).ref = r /\ AllocOp(r, n).node = n
  BY DEF WriteOp, AllocOp

\* An insert.
LEMMA InsertTrees ==
    ASSUME IInv, TreeInv, Ready, BetreeMoveStep(BetreeInsert(Readable))
    PROVE  TreeInv' /\ ViewStep
<1>1. PICK t \in BetreeInsert(Readable) : BetreeMove(t) /\ AdvanceLabel(t.uiop) /\ UNCHANGED dvars
  BY DEF BetreeMoveStep
<1>2. Readable \in NodeMap
  BY ReadyParts, ReadableType
<1>3. PICK k \in Key, v \in Value :
              /\ Root \in NodesIn(Readable) /\ WFNode(Readable[Root])
              /\ t.uiop = PutOp(k, v)
              /\ t.ops = <<WriteOp(Root, AddMessageToNode(Readable[Root], k, Define(v)))>>
              /\ t.ops \in Seq(Op)
  BY <1>1, <1>2, InsertIs
<1> DEFINE g == Current
           h == Current'
           node == AddMessageToNode(g[Root], k, Define(v))
           w == WriteOp(Root, node)
<1>4. Readable[Root] = g[Root]
  BY <1>3, ReadableIs
<1>5. t.ops = <<w>> /\ WFNode(g[Root])
  BY <1>3, <1>4
<1>6. OpsOf(t.ops) = {w} /\ w.ref = Root /\ w.node = node
  <2> HIDE DEF w, node
  <2>1. OpsOf(t.ops) = {w}
    BY <1>5, OpsOfShort
  <2> QED
    BY <2>1, OpFields DEF w
<1>7. Tree(g)
  BY CurrentIs
<1>8. /\ h \in NodeMap
      /\ \A r \in Ref : \/ \E op \in OpsOf(t.ops) : op.ref = r /\ h[r] = op.node
                        \/ h[r] = g[r] /\ \A op \in OpsOf(t.ops) : op.ref # r
  BY <1>1, <1>3, MoveGraph
<1> HIDE DEF g, h, w, node
<1>9. h[Root] = node /\ \A r \in Ref : r # Root => h[r] = g[r]
  BY <1>6, <1>8, RootAssumption
<1>10. Tree(h) /\ IView(h) = [IView(g) EXCEPT ![k] = v]
  BY <1>5, <1>7, <1>8, <1>9, InsertTree DEF node
<1>11. t.uiop \in MapOps(IView(g)) /\ MapStep(IView(g), t.uiop) = [IView(g) EXCEPT ![k] = v]
  <2>1. PutOp(k, v).type = "PutOp" /\ PutOp(k, v).key = k /\ PutOp(k, v).value = v
    BY DEF PutOp
  <2>2. PutOp(k, v) \in Write
    BY DEF Write
  <2> QED
    BY <1>3, <2>1, <2>2 DEF MapOps, MapStep
<1>12. t.uiop \in MapOps(IView(Current)) /\ Tree(Current') /\ IView(Current') = MapStep(IView(Current), t.uiop)
  BY <1>10, <1>11 DEF g, h
<1> QED
  BY <1>1, <1>3, <1>12, MoveAdvance

\* A flush.
LEMMA FlushTrees ==
    ASSUME IInv, TreeInv, Ready, BetreeMoveStep(BetreeFlush(Readable))
    PROVE  TreeInv' /\ ViewStep
<1>1. PICK t \in BetreeFlush(Readable) : BetreeMove(t) /\ AdvanceLabel(t.uiop) /\ UNCHANGED dvars
  BY DEF BetreeMoveStep
<1>2. Readable \in NodeMap
  BY ReadyParts, ReadableType
<1>3. PICK parent, child \in NodesIn(Readable), newref \in Ref, moved, flushed \in SUBSET Key :
              /\ WFNode(Readable[parent]) /\ WFNode(Readable[child])
              /\ flushed \subseteq moved
              /\ \A k \in moved : Readable[parent].children[k] = child
              /\ t.uiop = NoOp
              /\ t.ops = <<AllocOp(newref, FlushedChild(Readable[parent], Readable[child], flushed)),
                           WriteOp(parent, FlushedParent(Readable[parent], newref, moved, flushed))>>
              /\ t.ops \in Seq(Op)
  BY <1>1, <1>2, FlushIs
<1> DEFINE g == Current
           h == Current'
           a == AllocOp(newref, FlushedChild(g[parent], g[child], flushed))
           w == WriteOp(parent, FlushedParent(g[parent], newref, moved, flushed))
<1>4. Readable[parent] = g[parent] /\ Readable[child] = g[child] /\ parent \in NodesIn(g) /\ child \in NodesIn(g)
  BY <1>3, ReadableIs
<1>5. /\ t.ops = <<a, w>> /\ parent \in WF(g) /\ child \in WF(g)
      /\ \A k \in moved : g[parent].children[k] = child
  BY <1>3, <1>4 DEF WF
<1>6. /\ OpsOf(t.ops) = {a, w}
      /\ a.type = "AllocOp" /\ a.ref = newref /\ a.node = FlushedChild(g[parent], g[child], flushed)
      /\ w.ref = parent /\ w.node = FlushedParent(g[parent], newref, moved, flushed)
  <2> HIDE DEF a, w, g
  <2>1. OpsOf(t.ops) = {a, w}
    BY <1>5, OpsOfShort
  <2> QED
    BY <2>1, OpFields DEF a, w
<1>7. Tree(g)
  BY CurrentIs
<1>8. /\ h \in NodeMap /\ RefGraphIsClosed(h)
      /\ \A op \in OpsOf(t.ops) : op.type = "AllocOp" => op.ref \notin NodesIn(g)
      /\ \A r \in Ref : \/ \E op \in OpsOf(t.ops) : op.ref = r /\ h[r] = op.node
                        \/ h[r] = g[r] /\ \A op \in OpsOf(t.ops) : op.ref # r
  BY <1>1, <1>3, MoveGraph
<1> HIDE DEF g, h, a, w
<1>9. newref \in Ref \ NodesIn(g) /\ newref # parent /\ parent \in Ref
  BY <1>4, <1>6, <1>8 DEF NodesIn
<1>10. /\ h[newref] = FlushedChild(g[parent], g[child], flushed)
       /\ h[parent] = FlushedParent(g[parent], newref, moved, flushed)
       /\ \A r \in Ref : r # parent /\ r # newref => h[r] = g[r]
  BY <1>6, <1>8, <1>9
<1>11. Tree(h) /\ IView(h) = IView(g)
  BY <1>3, <1>5, <1>7, <1>8, <1>9, <1>10, FlushTree
<1>12. t.uiop \in MapOps(IView(Current)) /\ Tree(Current') /\ IView(Current') = MapStep(IView(Current), t.uiop)
  BY <1>3, <1>11, NoOpStepIs DEF g, h
<1> QED
  BY <1>1, <1>3, <1>12, MoveAdvance

\* A grow.
LEMMA GrowTrees ==
    ASSUME IInv, TreeInv, Ready, BetreeMoveStep(BetreeGrow(Readable))
    PROVE  TreeInv' /\ ViewStep
<1>1. PICK t \in BetreeGrow(Readable) : BetreeMove(t) /\ AdvanceLabel(t.uiop) /\ UNCHANGED dvars
  BY DEF BetreeMoveStep
<1>2. Readable \in NodeMap
  BY ReadyParts, ReadableType
<1>3. PICK newref \in Ref :
              /\ Root \in NodesIn(Readable)
              /\ t.uiop = NoOp
              /\ t.ops = <<AllocOp(newref, Readable[Root]), WriteOp(Root, GrownRoot(newref))>>
              /\ t.ops \in Seq(Op)
  BY <1>1, <1>2, GrowIs
<1> DEFINE g == Current
           h == Current'
           a == AllocOp(newref, g[Root])
           w == WriteOp(Root, GrownRoot(newref))
<1>4. Readable[Root] = g[Root] /\ Root \in NodesIn(g)
  BY <1>3, ReadableIs
<1>5. t.ops = <<a, w>>
  BY <1>3, <1>4
<1>6. /\ OpsOf(t.ops) = {a, w}
      /\ a.type = "AllocOp" /\ a.ref = newref /\ a.node = g[Root]
      /\ w.ref = Root /\ w.node = GrownRoot(newref)
  <2> HIDE DEF a, w, g
  <2>1. OpsOf(t.ops) = {a, w}
    BY <1>5, OpsOfShort
  <2> QED
    BY <2>1, OpFields DEF a, w
<1>7. Tree(g)
  BY CurrentIs
<1>8. /\ h \in NodeMap /\ RefGraphIsClosed(h)
      /\ \A op \in OpsOf(t.ops) : op.type = "AllocOp" => op.ref \notin NodesIn(g)
      /\ \A r \in Ref : \/ \E op \in OpsOf(t.ops) : op.ref = r /\ h[r] = op.node
                        \/ h[r] = g[r] /\ \A op \in OpsOf(t.ops) : op.ref # r
  BY <1>1, <1>3, MoveGraph
<1> HIDE DEF g, h, a, w
<1>9. newref \in Ref \ NodesIn(g) /\ newref # Root /\ Root \in Ref
  BY <1>4, <1>6, <1>8, RootAssumption
<1>10. h[newref] = g[Root] /\ h[Root] = GrownRoot(newref) /\ \A r \in Ref : r # Root /\ r # newref => h[r] = g[r]
  BY <1>6, <1>8, <1>9
<1>11. Tree(h) /\ IView(h) = IView(g)
  BY <1>7, <1>8, <1>9, <1>10, GrowTree
<1>12. t.uiop \in MapOps(IView(Current)) /\ Tree(Current') /\ IView(Current') = MapStep(IView(Current), t.uiop)
  BY <1>3, <1>11, NoOpStepIs DEF g, h
<1> QED
  BY <1>1, <1>3, <1>12, MoveAdvance

\* A finite set as a sequence, and one operation more.
LEMMA OpsOfSet ==
    ASSUME NEW S, IsFiniteSet(S), NEW w
    PROVE  OpsOf(SeqExt!SetToSeq(S) \o <<w>>) = S \cup {w}
<1> DEFINE q == SeqExt!SetToSeq(S)
           n == Len(q)
           z == q \o <<w>>
<1>1. q \in Seq(S) /\ \A x \in S : \E i \in 1..n : q[i] = x
  BY SetToSeqIs
<1> HIDE DEF q
<1>2. n \in Nat /\ \A i \in 1..n : q[i] \in S
  BY <1>1
<1>3. Len(z) = n + 1 /\ z[n + 1] = w /\ \A i \in 1..n : z[i] = q[i]
  BY <1>1
<1> HIDE DEF n, z
<1>4. \A i : i \in 1..n + 1 <=> i \in 1..n \/ i = n + 1
  BY <1>2
<1>5. OpsOf(z) = S \cup {w}
  <2> DEFINE m == n + 1
  <2>1. Len(z) = m /\ z[m] = w /\ \A i : i \in 1..m <=> i \in 1..n \/ i = m
    BY <1>3, <1>4
  <2> HIDE DEF m
  <2> QED
    BY <1>1, <1>2, <1>3, <2>1 DEF OpsOf
<1> QED
  BY <1>5 DEF z, q

\* A child that is made from what can be read is the one made from the tree.
LEMMA RedirectedSame ==
    ASSUME NEW g, NEW h, NEW parent, NEW R \in SUBSET Key, \A k \in R : g[parent.children[k]] = h[parent.children[k]]
    PROVE  RedirectedChild(g, parent, R) = RedirectedChild(h, parent, R)
  BY DEF RedirectedChild

\* A redirect.
LEMMA RedirectTrees ==
    ASSUME IInv, TreeInv, Ready, BetreeMoveStep(BetreeRedirect(Readable))
    PROVE  TreeInv' /\ ViewStep
<1>1. PICK t \in BetreeRedirect(Readable) : BetreeMove(t) /\ AdvanceLabel(t.uiop) /\ UNCHANGED dvars
  BY DEF BetreeMoveStep
<1>2. Readable \in NodeMap
  BY ReadyParts, ReadableType
<1>3. PICK parent \in NodesIn(Readable), keys \in SUBSET Key \ {{}} : \E route \in [keys -> Ref] :
              /\ \A s \in {parent} \cup (Successors(Readable[parent]) \cap NodesIn(Readable)) : WFNode(Readable[s])
              /\ \A k \in keys : Readable[parent].children[k] \in NodesIn(Readable)
              /\ t.uiop = NoOp
              /\ t.ops = SeqExt!SetToSeq(RedirectAllocs(Readable, parent, route, keys))
                           \o <<WriteOp(parent, RedirectedParent(Readable[parent], route))>>
              /\ t.ops \in Seq(Op)
  BY <1>1, <1>2, RedirectIs
<1>4. PICK route \in [keys -> Ref] :
              /\ \A s \in {parent} \cup (Successors(Readable[parent]) \cap NodesIn(Readable)) : WFNode(Readable[s])
              /\ \A k \in keys : Readable[parent].children[k] \in NodesIn(Readable)
              /\ t.uiop = NoOp
              /\ t.ops = SeqExt!SetToSeq(RedirectAllocs(Readable, parent, route, keys))
                           \o <<WriteOp(parent, RedirectedParent(Readable[parent], route))>>
              /\ t.ops \in Seq(Op)
  BY <1>3
<1> DEFINE g == Current
           h == Current'
           A == RedirectAllocs(Readable, parent, route, keys)
           w == WriteOp(parent, RedirectedParent(g[parent], route))
           C(r) == RedirectedChild(g, g[parent], {k \in keys : route[k] = r})
           T == {route[k] : k \in keys}
<1>5. \A r \in NodesIn(Readable) : r \in NodesIn(g) /\ Readable[r] = g[r]
  BY ReadableIs
<1>6. Readable[parent] = g[parent] /\ parent \in NodesIn(g) /\ parent \in Ref /\ keys \in SUBSET Key
  BY <1>5 DEF NodesIn
<1>7. OpsOf(t.ops) = A \cup {w}
  <2>1. IsFiniteSet(A)
    BY <1>2, <1>4, <1>6, RedirectAllocsFinite
  <2>2. t.ops = SeqExt!SetToSeq(A) \o <<w>>
    BY <1>4, <1>6
  <2> HIDE DEF A, w, g
  <2> QED
    BY <2>1, <2>2, OpsOfSet
<1>8. A = {AllocOp(r, C(r)) : r \in T}
  <2>1. ASSUME NEW r
        PROVE  RedirectedChild(Readable, Readable[parent], {k \in keys : route[k] = r}) = C(r)
    <3> DEFINE R == {k \in keys : route[k] = r}
    <3>1. R \in SUBSET Key /\ \A k \in R : Readable[g[parent].children[k]] = g[g[parent].children[k]]
      BY <1>4, <1>5, <1>6
    <3> HIDE DEF R, g
    <3>2. RedirectedChild(Readable, g[parent], R) = RedirectedChild(g, g[parent], R)
      BY <3>1, RedirectedSame
    <3> QED
      BY <1>6, <3>2 DEF R, g
  <2> DEFINE B(r) == RedirectedChild(Readable, Readable[parent], {k \in keys : route[k] = r})
  <2>2. A = {AllocOp(r, B(r)) : r \in T}
    BY DEF RedirectAllocs
  <2>3. \A r : B(r) = C(r)
    BY <2>1
  <2> HIDE DEF A, B, C, T
  <2> QED
    BY <2>2, <2>3
<1>9. Tree(g)
  BY CurrentIs
<1>10. /\ h \in NodeMap /\ RefGraphIsClosed(h)
       /\ \A op \in OpsOf(t.ops) : op.type = "AllocOp" => op.ref \notin NodesIn(g)
       /\ \A r \in Ref : \/ \E op \in OpsOf(t.ops) : op.ref = r /\ h[r] = op.node
                         \/ h[r] = g[r] /\ \A op \in OpsOf(t.ops) : op.ref # r
  BY <1>1, <1>4, MoveGraph
<1>11. w.ref = parent /\ w.node = RedirectedParent(g[parent], route)
  BY OpFields
<1>12. \A k \in keys : g[parent].children[k] \in WF(g)
  <2> SUFFICES ASSUME NEW k \in keys PROVE g[parent].children[k] \in WF(g)
    OBVIOUS
  <2> DEFINE c == g[parent].children[k]
  <2>1. c \in NodesIn(Readable) /\ c = Readable[parent].children[k]
    BY <1>4, <1>6
  <2>2. c \in Successors(Readable[parent])
    <3>1. c # None
      BY <2>1, RootAssumption DEF NodesIn
    <3> QED
      BY <1>6, <2>1, <3>1 DEF Successors
  <2>3. WFNode(Readable[c])
    BY <1>4, <2>1, <2>2
  <2> QED
    BY <1>5, <2>1, <2>3 DEF WF
<1>13. parent \in WF(g)
  BY <1>4, <1>6 DEF WF
<1>14. T \subseteq Ref /\ \A k \in keys : route[k] \in T
  OBVIOUS
<1> HIDE DEF g, h, A, w, C, T
<1>15. \A op \in A : \E r \in T : op.type = "AllocOp" /\ op.ref = r /\ op.node = C(r)
  BY <1>8, OpFields
<1>16. \A r \in T : \E op \in A : op.type = "AllocOp" /\ op.ref = r /\ op.node = C(r)
  BY <1>8, OpFields
<1>17. \A r \in T : r \notin NodesIn(g) /\ r # parent
  BY <1>6, <1>7, <1>10, <1>16
<1>18. h[parent] = RedirectedParent(g[parent], route)
  BY <1>6, <1>7, <1>10, <1>11, <1>15, <1>17
<1>19. \A r \in T : h[r] = C(r)
  BY <1>7, <1>10, <1>11, <1>14, <1>15, <1>16, <1>17
<1>20. \A r \in Ref : r # parent /\ r \notin T => h[r] = g[r]
  BY <1>7, <1>10, <1>11, <1>15
<1>21. Tree(h) /\ IView(h) = IView(g)
  <2>1. \A k \in keys : h[route[k]] = RedirectedChild(g, g[parent], {i \in keys : route[i] = route[k]})
    BY <1>14, <1>19 DEF C
  <2>2. \A r \in Ref : r # parent /\ r \notin {route[k] : k \in keys} => h[r] = g[r]
    BY <1>20 DEF T
  <2>3. \A k \in keys : g[parent].children[k] \in WF(g) /\ route[k] \notin NodesIn(g)
    BY <1>12, <1>14, <1>17
  <2> QED
    BY <1>6, <1>9, <1>10, <1>13, <1>18, <2>1, <2>2, <2>3, RedirectTree
<1>22. t.uiop \in MapOps(IView(Current)) /\ Tree(Current') /\ IView(Current') = MapStep(IView(Current), t.uiop)
  BY <1>4, <1>21, NoOpStepIs DEF g, h
<1> QED
  BY <1>1, <1>4, <1>22, MoveAdvance

\* What a lookup in what can be read finds is what the dictionary has.
LEMMA ReadableFinds ==
    ASSUME IInv, TreeInv, Ready, NEW k \in Key, NEW v, Root \in Decided(Readable, k, v)
    PROVE  IView(Current)[k] = v
<1>1. \A r \in NodesIn(Readable) : r \in NodesIn(Current) /\ Readable[r] = Current[r]
  BY ReadableIs
<1>2. \A r \in WF(Readable) : r \in WF(Current) /\ Current[r].buffer[k] = Readable[r].buffer[k]
                                               /\ Current[r].children[k] = Readable[r].children[k]
  BY <1>1 DEF WF
<1>3. Root \in Decided(Current, k, v)
  BY <1>2, DecidedGrows
<1> QED
  BY <1>3, CurrentIs, IViewIs

\* The answers to queries are those of the dictionary.
LEMMA QueryAnswers ==
    ASSUME IInv, TreeInv, Ready, NEW t \in BetreeQuery(Readable) \cup BetreeSuccQuery(Readable)
    PROVE  t.uiop \in MapOps(IView(Current)) /\ MapStep(IView(Current), t.uiop) = IView(Current)
<1>1. Readable \in NodeMap
  BY ReadyParts, ReadableType
<1> DEFINE s == IView(Current)
<1>2. CASE t \in BetreeQuery(Readable)
  <2>1. PICK k \in Key : \E v \in ValuesOf(Readable, k) : t = Transaction(GetOp(k, v), << >>)
    BY <1>2 DEF BetreeQuery
  <2>2. PICK v \in ValuesOf(Readable, k) : t = Transaction(GetOp(k, v), << >>)
    BY <2>1
  <2>3. Root \in Decided(Readable, k, v)
    BY <1>1, <2>2, ValuesAre
  <2>4. s[k] = v
    BY <2>3, ReadableFinds
  <2>5. t.uiop = GetOp(k, v)
    BY <2>2 DEF Transaction
  <2> HIDE DEF s
  <2>6. GetOp(k, v) \in Query(s) /\ GetOp(k, v).type # "PutOp"
    BY <2>4 DEF Query, GetOp
  <2>7. t.uiop \in MapOps(s) /\ MapStep(s, t.uiop) = s
    BY <2>5, <2>6 DEF MapOps, MapStep
  <2> QED
    BY <2>7 DEF s
<1>3. CASE t \in BetreeSuccQuery(Readable)
  <2> DEFINE KeysIn(r) == {k \in Key : InRange(r[1], k, r[2])}
             Answers(r) == {p \in Lookups(Readable) : \A k \in KeysIn(r) :
                              FollowsChildRefs(Readable, p, k) /\ Defines(InterpretLookup(Readable, p, k))}
             Found(p, r) == [k \in Key |-> IF k \in KeysIn(r) THEN InterpretLookup(Readable, p, k).value
                                           ELSE EmptyValue]
             Asked == {q \in Ranges : NonEmptyRange(q[1], q[2])}
             Results(r) == {Transaction(SuccOp(r[1], SuccResults(Found(p, r), r[1], r[2]), r[2]), << >>) : p \in Answers(r)}
  <2>1. BetreeSuccQuery(Readable) = UNION {Results(r) : r \in Asked}
    BY DEF BetreeSuccQuery
  <2>2. PICK r \in Asked : t \in Results(r)
    <3> HIDE DEF Results, Asked
    <3> QED
      BY <1>3, <2>1
  <2>3. PICK p \in Answers(r) : t = Transaction(SuccOp(r[1], SuccResults(Found(p, r), r[1], r[2]), r[2]), << >>)
    BY <2>2
  <2>4. ASSUME NEW k \in KeysIn(r) PROVE Found(p, r)[k] = s[k]
    <3>1. k \in Key /\ p \in Lookups(Readable) /\ FollowsChildRefs(Readable, p, k) /\ Defines(InterpretLookup(Readable, p, k))
      BY <2>3, <2>4
    <3>2. PICK v \in Value : InterpretLookup(Readable, p, k) = Define(v) /\ Root \in Decided(Readable, k, v)
      BY <1>1, <3>1, LookupDecides
    <3>3. InterpretLookup(Readable, p, k).value = v
      BY <3>2 DEF Define
    <3>4. s[k] = v
      BY <3>1, <3>2, ReadableFinds
    <3>5. Found(p, r)[k] = InterpretLookup(Readable, p, k).value
      BY <2>4, <3>1
    <3> QED
      BY <3>3, <3>4, <3>5
  <2> DEFINE f == Found(p, r)
  <2>5. \A k \in Key : InRange(r[1], k, r[2]) => f[k] = s[k]
    BY <2>4
  <2>6. t.uiop = SuccOp(r[1], SuccResults(f, r[1], r[2]), r[2])
    BY <2>3 DEF Transaction
  <2> HIDE DEF f, s, Results, Found, Answers, KeysIn
  <2>7. SuccResults(f, r[1], r[2]) = SuccResults(s, r[1], r[2])
    BY <2>5 DEF SuccResults
  <2>8. SuccOp(r[1], SuccResults(s, r[1], r[2]), r[2]) \in Succ(s)
    BY DEF Succ
  <2>9. \A x, y, z : SuccOp(x, y, z).type # "PutOp"
    BY DEF SuccOp
  <2>10. t.uiop \in MapOps(s) /\ MapStep(s, t.uiop) = s
    BY <2>6, <2>7, <2>8, <2>9 DEF MapOps, MapStep
  <2> QED
    BY <2>10 DEF s
<1> QED
  BY <1>2, <1>3

\* A query.
LEMMA QueryTrees ==
    ASSUME IInv, TreeInv, Ready, BetreeMoveStep(BetreeQuery(Readable) \cup BetreeSuccQuery(Readable))
    PROVE  TreeInv' /\ ViewStep
<1>1. PICK t \in BetreeQuery(Readable) \cup BetreeSuccQuery(Readable) :
          BetreeMove(t) /\ AdvanceLabel(t.uiop) /\ UNCHANGED dvars
  BY DEF BetreeMoveStep
<1>2. t.ops = << >> /\ t.ops \in Seq(Op)
  BY <1>1, QueryIs
<1>3. OpsOf(t.ops) = {}
  BY <1>2, OpsOfShort
<1>4. /\ Current' \in NodeMap
      /\ \A r \in Ref : \/ \E op \in OpsOf(t.ops) : op.ref = r /\ Current'[r] = op.node
                        \/ Current'[r] = Current[r] /\ \A op \in OpsOf(t.ops) : op.ref # r
  BY <1>1, <1>2, MoveGraph
<1>5. Tree(Current) /\ Current \in NodeMap
  BY CurrentIs
<1>6. Current' = Current
  <2>1. \A r \in Ref : Current'[r] = Current[r]
    BY <1>3, <1>4
  <2> QED
    BY <1>4, <1>5, <2>1 DEF NodeMap
<1>7. t.uiop \in MapOps(IView(Current)) /\ MapStep(IView(Current), t.uiop) = IView(Current)
  BY QueryAnswers
<1> QED
  BY <1>1, <1>2, <1>5, <1>6, <1>7, MoveAdvance

\* A tree of one node that has the empty dictionary.
LEMMA EmptyTree ==
    ASSUME NEW g \in NodeMap, g[Root] = EmptyNode, \A r \in Ref : r # Root => g[r] = None
    PROVE  Tree(g) /\ IView(g) = EmptyMap
<1>1. EmptyNode \in Node /\ EmptyNode # None
  <2>1. EmptyNode \in Node
    BY EmptyValueAssumption DEF EmptyNode, Node, Message, Define
  <2> QED
    BY <2>1, NoneAssumption
<1>2. NodesIn(g) = {Root}
  BY <1>1, RootAssumption DEF NodesIn
<1>3. Successors(EmptyNode) = {}
  BY DEF Successors, EmptyNode
<1>4. RefGraphIsClosed(g) /\ RootIsFirst(g)
  BY <1>2, <1>3 DEF RefGraphIsClosed, RootIsFirst
<1>5. IsRanked(g)
  <2> DEFINE rank == [r \in Ref |-> 0]
  <2>1. rank \in [Ref -> Nat]
    OBVIOUS
  <2>2. \A r \in NodesIn(g) : \A s \in Successors(g[r]) : rank[s] < rank[r]
    BY <1>2, <1>3
  <2> QED
    BY <2>1, <2>2 DEF IsRanked
<1>6. EmptyMap \in State /\ \A k \in Key : EmptyMap[k] = EmptyValue
  BY EmptyValueAssumption DEF EmptyMap, State
<1>7. ASSUME NEW k \in Key PROVE Root \in Decided(g, k, EmptyMap[k])
  <2>1. EmptyNode.buffer[k] = Define(EmptyValue) /\ WFNode(EmptyNode)
    BY DefineIs DEF EmptyNode, WFNode
  <2>2. Root \in WF(g)
    BY <1>2, <2>1 DEF WF
  <2>3. DecidedIn(g, k, EmptyValue, Decided(g, k, EmptyValue))
    BY DecidedClosed
  <2> QED
    BY <1>6, <2>1, <2>2, <2>3 DEF DecidedIn
<1> QED
  BY <1>2, <1>4, <1>5, <1>6, <1>7, TreeMakes

\* A disk as mkfs leaves it has the empty dictionary, and nothing is loaded.
LEMMA InitTrees ==
    ASSUME NEW loc \in Loc, InitWithLoc(loc)
    PROVE  IInv /\ TreeInv /\ SV!SInit(loc)
<1>1. IInv
  BY InitInv DEF Init
<1>2. Unready /\ ~Ready /\ ~Loading /\ reqReadTables = NoRequests
  BY DEF InitWithLoc, MInit, StartState, Unready, Ready, Loading
<1>3. TreeInv
  BY <1>2 DEF TreeInv, LoadInv
<1>4. PICK place \in NodeLoc :
          /\ nodes = [l \in NodeLoc |-> IF l = place THEN EmptyNode ELSE None]
          /\ tables = [l \in Loc |-> IF l # loc THEN None
                                     ELSE [locs  |-> [r \in Ref |-> IF r = Root THEN place ELSE None],
                                           graph |-> [r \in Ref |-> IF r = Root THEN {} ELSE None]]]
  BY DEF InitWithLoc
<1>5. tables \in [Loc -> Table \cup {None}] /\ nodes \in [NodeLoc -> Node \cup {None}]
  BY <1>1 DEF IInv, Types, DiskTypes
<1> DEFINE t == tables[loc]
           c == [r \in Ref |-> None]
           g == Graph(t, c, nodes)
<1>6. /\ t.locs = [r \in Ref |-> IF r = Root THEN place ELSE None]
      /\ t.graph = [r \in Ref |-> IF r = Root THEN {} ELSE None]
      /\ t = [locs |-> [r \in Ref |-> IF r = Root THEN place ELSE None], graph |-> [r \in Ref |-> IF r = Root THEN {} ELSE None]]
  BY <1>4
<1>7. t \in Table /\ nodes[place] = EmptyNode /\ c \in NodeMap
  BY <1>4, <1>6 DEF Table, NodeMap
<1> HIDE DEF t, c
<1>8. place # None /\ {} # None /\ Root \in Ref
  <2>1. {} \in SUBSET Ref
    OBVIOUS
  <2> QED
    BY <2>1, NoneAssumption, RootAssumption
<1>9. Refs(t) = {Root} /\ Placed(t) = {Root} /\ t.locs[Root] = place /\ t.graph[Root] = {}
  <2>1. \A r \in Ref : t.locs[r] = (IF r = Root THEN place ELSE None) /\ t.graph[r] = (IF r = Root THEN {} ELSE None)
    BY <1>6
  <2> QED
    BY <1>8, <2>1 DEF Refs, Placed
<1>10. g \in NodeMap
  BY <1>5, <1>7, GraphType
<1>11. g[Root] = EmptyNode /\ \A r \in Ref : r # Root => g[r] = None
  BY <1>7, <1>8, <1>9, GraphCells
<1>12. Tree(g) /\ IView(g) = EmptyMap
  <2> HIDE DEF g
  <2> QED
    BY <1>10, <1>11, EmptyTree
<1>13. Holds(t, c, nodes)
  <2>1. Successors(EmptyNode) = {}
    BY DEF Successors, EmptyNode
  <2>2. EmptyNode # None
    BY <1>11, <1>12, TreeIs DEF NodesIn
  <2> QED
    BY <1>9, <1>11, <1>12, <2>1, <2>2 DEF Holds
<1>14. DiskState[loc] = EmptyMap
  <2>1. StateAt(t, nodes) = IView(g)
    BY <1>7, <1>9, <1>13, HoldsStateAt
  <2> QED
    BY <1>12, <2>1, DiskStateIs DEF t
<1>15. /\ PersistentLoc = NoLoc /\ FrozenLoc = NoLoc /\ FrozenState = NoState /\ EphemeralState = NoState
       /\ DiskState \in [Loc -> State \cup {NoState}]
  BY <1>1, <1>2, <1>3, LoadingView
<1>16. SV!SInit(loc)
  BY <1>14, <1>15, SameOperators DEF SV!SInit, SV!NothingLoaded
<1> QED
  BY <1>1, <1>3, <1>16

\* Nothing happens.
LEMMA SameTrees == TreeInv /\ UNCHANGED vars => TreeInv'
<1> SUFFICES ASSUME TreeInv, UNCHANGED vars PROVE TreeInv'
  OBVIOUS
<1>1. machine' = machine /\ tables' = tables /\ nodes' = nodes /\ reqReadTables' = reqReadTables
  BY DEF vars, dvars
<1>2. DiskState' = DiskState
  BY <1>1, SameDisk
<1>3. LoadInv'
  BY <1>1, <1>2 DEF TreeInv, LoadInv, Unready, Loading
<1>4. Ready' => TreesOf'
  BY <1>1 DEF TreeInv, TreesOf, Ready
<1> QED
  BY <1>3, <1>4 DEF TreeInv

\* Every step keeps the trees and is a step of the view.
LEMMA NextTrees == IInv /\ TreeInv /\ Next => TreeInv' /\ ViewStep
<1> SUFFICES ASSUME IInv, TreeInv, Next PROVE TreeInv' /\ ViewStep
  OBVIOUS
<1>1. CASE \/ Ready /\ BetreeMoveStep(BetreeInsert(Readable))
           \/ Ready /\ BetreeMoveStep(BetreeFlush(Readable))
           \/ Ready /\ BetreeMoveStep(BetreeGrow(Readable))
           \/ Ready /\ BetreeMoveStep(BetreeRedirect(Readable))
           \/ Ready /\ BetreeMoveStep(BetreeQuery(Readable) \cup BetreeSuccQuery(Readable))
  BY <1>1, InsertTrees, FlushTrees, GrowTrees, RedirectTrees, QueryTrees
<1>2. CASE \/ ReceiveLocStep \/ PageInIndirectionTableReqStep \/ PageInIndirectionTableRespStep
           \/ WriteBackNodeReqStep \/ WriteBackNodeRespStep \/ PageInNodeReqStep \/ PageInNodeRespStep
           \/ EvictStep \/ FreezeStep \/ WriteBackIndirectionTableReqStep \/ WriteBackIndirectionTableRespStep
           \/ CleanUpStep \/ UnallocStep \/ NoOpStep \/ Crash
  BY <1>2, ReceiveLocTrees, PageInIndirectionTableReqTrees, PageInIndirectionTableRespTrees, WriteBackNodeReqTrees,
     QuietTrees, PageInNodeRespTrees, EvictTrees, FreezeTrees, WriteBackIndirectionTableReqTrees,
     WriteBackIndirectionTableRespTrees, CleanUpTrees, UnallocTrees, NoOpTrees, CrashTrees
<1> QED
  BY <1>1, <1>2 DEF Next

\* The trees hold in every reachable state.
LEMMA AlwaysTrees == Spec => [](IInv /\ TreeInv)
<1>1. Init => IInv /\ TreeInv
  BY InitTrees DEF Init
<1>2. IInv /\ TreeInv /\ [Next]_vars => (IInv /\ TreeInv)'
  BY NextInv, NextTrees, SameTrees
<1> QED
  BY <1>1, <1>2, PTL DEF Spec

\* The persistent tree, a frozen tree and the ephemeral one, each gathered from the disk and the cache, can be used in
\* every reachable state, whatever writes, evictions, deallocations and crashes come in between: TreesUsable always holds.
THEOREM TreesAlwaysUsable == Spec => []TreesUsable
  BY AlwaysTrees, TreesUsableFollows, PTL

\* BetreeSystem implements StatesView: every step of the tree, the cache and the disk, crashes included, is a step of
\* the view on the dictionaries that the tables stand for, or none.
THEOREM BetreeSystemRefinesStatesView == Spec => RefinesStatesView
<1>1. Init => \E loc \in Loc : SV!SInit(loc)
  BY InitTrees DEF Init
<1>2. IInv /\ TreeInv /\ [Next]_vars =>
         [\/ SV!ObtainPersistentLoc
          \/ vop'.type = "AdvanceOp" /\ SV!Advance(vop'.uiop)
          \/ SV!SCrash
          \/ SV!Freeze
          \/ SV!DiskChange
          \/ SV!ProvideFrozenLoc
          \/ SV!ForgetOld
          \/ SV!SStutter]_vars
  BY NextTrees DEF ViewStep
<1> QED
  BY <1>1, <1>2, AlwaysTrees, PTL DEF Spec, RefinesStatesView

-----------------------------------------------------------------------------
(***************************************************************************)
(* What the other half of the machine can see of a step.                   *)
(***************************************************************************)
\* Nothing new is frozen and nothing frozen is given up, and a frozen table that
\* is stored stays where it is.
KeepsFrozen ==
    /\ machine'.frozen = None <=> machine.frozen = None
    /\ machine.frozenLoc # NoLoc =>
          /\ machine'.frozenLoc = machine.frozenLoc
          /\ machine'.tableWrite = machine.tableWrite

\* How each label goes with the phase of the machine and with what is frozen.
FrozenByLabel ==
    \/ vop' = CrashVOp /\ Unready'
    \/ \E loc \in Loc : vop' = SendPersistentLocOp(loc) /\ Unready /\ Loading'
    \/ vop' = FreezeOp /\ Ready /\ Ready' /\ machine'.frozen # None
    \/ /\ vop' = SendFrozenLocOp(machine.frozenLoc)
       /\ Ready /\ Ready' /\ machine'.frozen = machine.frozen
       /\ machine'.frozenLoc = machine.frozenLoc /\ machine'.tableWrite = None
    \/ vop' = CleanUpOp /\ Ready /\ Ready' /\ machine'.frozen = None
    \/ vop' = StatesInternalOp /\ Loading /\ Ready' /\ machine'.frozen = None
    \/ /\ vop'.type \in {"JournalInternalOp", "StatesInternalOp", "AdvanceOp", "PushSyncOp", "PopSyncOp"}
       /\ machine'.phase = machine.phase
       /\ Ready => KeepsFrozen

\* Start-up and crashes.
LEMMA LoadingByLabel ==
    ASSUME IInv, ReceiveLocStep \/ PageInIndirectionTableReqStep \/ PageInIndirectionTableRespStep \/ Crash \/ NoOpStep
    PROVE  FrozenByLabel
<1>1. CASE ReceiveLocStep
  BY <1>1 DEF ReceiveLocStep, ReceiveLoc, FrozenByLabel, Loading
<1>2. CASE PageInIndirectionTableReqStep
  <2>1. PICK id, loc : PageInIndirectionTableReq(id, loc)
    BY <1>2 DEF PageInIndirectionTableReqStep
  <2>2. machine \in LoadingState /\ ~Ready
    BY <2>1, Phases DEF PageInIndirectionTableReq, IInv, Types, Loading, Ready
  <2>3. machine'.phase = machine.phase
    BY <2>1, <2>2 DEF PageInIndirectionTableReq, LoadingState
  <2> QED
    BY <1>2, <2>2, <2>3 DEF PageInIndirectionTableReqStep, FrozenByLabel, StatesInternalOp
<1>3. CASE PageInIndirectionTableRespStep
  <2>1. PICK id, table : PageInIndirectionTableResp(id, table)
    BY <1>3 DEF PageInIndirectionTableRespStep
  <2>2. Loading /\ machine'.phase = "Ready" /\ machine'.frozen = None
    BY <2>1 DEF PageInIndirectionTableResp
  <2> QED
    BY <1>3, <2>2 DEF PageInIndirectionTableRespStep, FrozenByLabel, Ready
<1>4. CASE Crash
  BY <1>4 DEF Crash, StartState, FrozenByLabel, Unready
<1>5. CASE NoOpStep
  <2>1. vop'.type \in {"StatesInternalOp", "JournalInternalOp", "PushSyncOp", "PopSyncOp"}
    BY <1>5 DEF NoOpStep, StatesInternalOp, JournalInternalOp, PushSyncVOp, PopSyncVOp
  <2>2. machine' = machine
    BY <1>5 DEF NoOpStep
  <2> QED
    BY <2>1, <2>2 DEF FrozenByLabel, KeepsFrozen
<1> QED
  BY <1>1, <1>2, <1>3, <1>4, <1>5

\* Nodes between the cache and the disk.
LEMMA NodesByLabel ==
    ASSUME IInv, WriteBackNodeReqStep \/ WriteBackNodeRespStep \/ PageInNodeReqStep \/ PageInNodeRespStep
    PROVE  FrozenByLabel
<1>1. Ready /\ vop' = StatesInternalOp
  <2>1. vop' = StatesInternalOp
    BY DEF WriteBackNodeReqStep, WriteBackNodeRespStep, PageInNodeReqStep, PageInNodeRespStep
  <2>2. WriteBackNodeReqStep \/ WriteBackNodeRespStep => Ready
    BY DEF WriteBackNodeReqStep, WriteBackNodeRespStep, WriteBackNodeResp
  <2>3. PageInNodeReqStep => Ready
    BY DEF PageInNodeReqStep, PageInNodeReq
  <2>4. PageInNodeRespStep => Ready
    <3>1. \A id, node : PageInNodeResp(id, node) => Ready
      BY DEF PageInNodeResp
    <3> QED
      BY <3>1 DEF PageInNodeRespStep
  <2> QED
    BY <2>1, <2>2, <2>3, <2>4
<1>2. machine \in ReadyState
  BY <1>1, ReadyParts
<1>3. machine'.phase = machine.phase /\ KeepsFrozen
  <2>1. CASE WriteBackNodeReqStep
    <3>0. PICK id \in ReqId, r \in Ref, loc \in NodeLoc : \E node : WriteBackNodeReq(id, r, loc, node)
      BY <2>1 DEF WriteBackNodeReqStep
    <3>1. PICK node : WriteBackNodeReq(id, r, loc, node)
      BY <3>0
    <3>2. /\ machine'.phase = machine.phase /\ machine'.frozenLoc = machine.frozenLoc
          /\ machine'.tableWrite = machine.tableWrite
          /\ machine'.frozen = IF machine.frozen = None THEN None ELSE AssignRefToLocation(machine.frozen, r, loc)
      BY <1>2, <3>1 DEF WriteBackNodeReq, ReadyState
    <3>3. machine.frozen # None => AssignRefToLocation(machine.frozen, r, loc) # None
      <4>1. machine.frozen \in Table \cup {None}
        BY <1>2 DEF ReadyState
      <4>2. machine.frozen \in Table => AssignRefToLocation(machine.frozen, r, loc) \in Table
        BY AssignFields
      <4> QED
        BY <4>1, <4>2, NoneAssumption
    <3> QED
      BY <3>2, <3>3 DEF KeepsFrozen
  <2>2. CASE WriteBackNodeRespStep
    <3>1. PICK id : WriteBackNodeResp(id)
      BY <2>2 DEF WriteBackNodeRespStep
    <3> QED
      BY <1>2, <3>1 DEF WriteBackNodeResp, ReadyState, KeepsFrozen
  <2>3. CASE PageInNodeReqStep
    <3>1. PICK id, r, loc : PageInNodeReq(id, r, loc)
      BY <2>3 DEF PageInNodeReqStep
    <3> QED
      BY <1>2, <3>1 DEF PageInNodeReq, ReadyState, KeepsFrozen
  <2>4. CASE PageInNodeRespStep
    <3>1. PICK id, node : PageInNodeResp(id, node)
      BY <2>4 DEF PageInNodeRespStep
    <3> QED
      BY <1>2, <3>1 DEF PageInNodeResp, ReadyState, KeepsFrozen
  <2> QED
    BY <2>1, <2>2, <2>3, <2>4
<1> QED
  BY <1>1, <1>3 DEF FrozenByLabel, StatesInternalOp

\* Freezing, and making the frozen tree persistent.
LEMMA FreezingByLabel ==
    ASSUME IInv, FreezeStep \/ WriteBackIndirectionTableReqStep \/ WriteBackIndirectionTableRespStep \/ CleanUpStep
    PROVE  FrozenByLabel
<1>1. Ready
  BY DEF FreezeStep, WriteBackIndirectionTableReqStep, WriteBackIndirectionTableRespStep, CleanUpStep, Freeze,
     WriteBackIndirectionTableResp, CleanUp
<1>2. machine \in ReadyState
  BY <1>1, ReadyParts
<1>3. CASE FreezeStep
  <2>1. machine'.phase = machine.phase /\ machine'.frozen = machine.ephemeral
    BY <1>2, <1>3 DEF FreezeStep, Freeze, ReadyState
  <2>2. machine.ephemeral # None
    BY <1>2, NoneAssumption DEF ReadyState
  <2> QED
    BY <1>1, <1>3, <2>1, <2>2 DEF FreezeStep, FrozenByLabel, Ready
<1>4. CASE WriteBackIndirectionTableReqStep
  <2>1. PICK id, loc, table : WriteBackIndirectionTableReq(id, loc, table)
    BY <1>4 DEF WriteBackIndirectionTableReqStep
  <2>2. machine'.phase = machine.phase /\ KeepsFrozen
    BY <1>2, <2>1 DEF WriteBackIndirectionTableReq, ReadyState, KeepsFrozen
  <2> QED
    BY <1>4, <2>2 DEF WriteBackIndirectionTableReqStep, FrozenByLabel, StatesInternalOp
<1>5. CASE WriteBackIndirectionTableRespStep
  <2>1. PICK id : WriteBackIndirectionTableResp(id) /\ vop' = SendFrozenLocOp(machine.frozenLoc)
    BY <1>5 DEF WriteBackIndirectionTableRespStep
  <2>2. /\ machine'.phase = machine.phase /\ machine'.frozen = machine.frozen
        /\ machine'.frozenLoc = machine.frozenLoc /\ machine'.tableWrite = None
    BY <1>2, <2>1 DEF WriteBackIndirectionTableResp, ReadyState
  <2> QED
    BY <1>1, <2>1, <2>2 DEF FrozenByLabel, Ready
<1>6. CASE CleanUpStep
  <2>1. machine'.phase = machine.phase /\ machine'.frozen = None
    BY <1>2, <1>6 DEF CleanUpStep, CleanUp, ReadyState
  <2> QED
    BY <1>1, <1>6, <2>1 DEF CleanUpStep, FrozenByLabel, Ready
<1> QED
  BY <1>3, <1>4, <1>5, <1>6

\* Changes to the tree, and the cache alone.
LEMMA MovesByLabel ==
    ASSUME IInv, Ready,
           \/ EvictStep \/ UnallocStep
           \/ BetreeMoveStep(BetreeInsert(Readable))
           \/ BetreeMoveStep(BetreeFlush(Readable))
           \/ BetreeMoveStep(BetreeGrow(Readable))
           \/ BetreeMoveStep(BetreeRedirect(Readable))
           \/ BetreeMoveStep(BetreeQuery(Readable) \cup BetreeSuccQuery(Readable))
    PROVE  FrozenByLabel
<1>1. machine \in ReadyState
  BY ReadyParts
<1>2. vop'.type \in {"StatesInternalOp", "AdvanceOp"}
  BY DEF EvictStep, UnallocStep, BetreeMoveStep, AdvanceLabel, StatesInternalOp, AdvanceOp
<1>3. machine'.phase = machine.phase /\ KeepsFrozen
  <2>1. CASE EvictStep
    <3>1. PICK r : Evict(r)
      BY <2>1 DEF EvictStep
    <3> QED
      BY <1>1, <3>1 DEF Evict, ReadyState, KeepsFrozen
  <2>2. CASE UnallocStep
    <3>1. PICK r : Unalloc(r)
      BY <2>2 DEF UnallocStep
    <3> QED
      BY <1>1, <3>1 DEF Unalloc, ReadyState, KeepsFrozen
  <2>3. CASE ~EvictStep /\ ~UnallocStep
    <3>1. PICK t \in BetreeInsert(Readable) \cup BetreeFlush(Readable) \cup BetreeGrow(Readable)
                       \cup BetreeRedirect(Readable) \cup (BetreeQuery(Readable) \cup BetreeSuccQuery(Readable)) :
               BetreeMove(t)
      BY <2>3 DEF BetreeMoveStep
    <3>2. t.ops \in Seq(Op)
      BY <3>1, ReadyParts, ReadableType, InsertIs, FlushIs, GrowIs, RedirectIs, QueryIs
    <3>3. machine' \in MoveStates
      BY <3>1, <3>2, MoveStays
    <3> QED
      BY <1>1, <3>3 DEF MoveStates, ReadyState, KeepsFrozen
  <2> QED
    BY <2>1, <2>2, <2>3
<1> QED
  BY <1>2, <1>3 DEF FrozenByLabel

\* Every step goes with its label.
LEMMA NextByLabel == IInv /\ Next => FrozenByLabel
<1> SUFFICES ASSUME IInv, Next PROVE FrozenByLabel
  OBVIOUS
<1>1. CASE EvictStep \/ UnallocStep
  <2>1. Ready
    <3>1. \A r : Evict(r) \/ Unalloc(r) => Ready
      BY DEF Evict, Unalloc
    <3> QED
      BY <1>1, <3>1 DEF EvictStep, UnallocStep
  <2> QED
    BY <1>1, <2>1, MovesByLabel
<1>2. CASE \/ Ready /\ BetreeMoveStep(BetreeInsert(Readable))
           \/ Ready /\ BetreeMoveStep(BetreeFlush(Readable))
           \/ Ready /\ BetreeMoveStep(BetreeGrow(Readable))
           \/ Ready /\ BetreeMoveStep(BetreeRedirect(Readable))
           \/ Ready /\ BetreeMoveStep(BetreeQuery(Readable) \cup BetreeSuccQuery(Readable))
  BY <1>2, MovesByLabel
<1> QED
  BY <1>1, <1>2, LoadingByLabel, NodesByLabel, FreezingByLabel DEF Next
=============================================================================
