---------------------------- MODULE JournalDisk ----------------------------
(***************************************************************************)
(* The part of the disk that holds the two superblocks and the journal,    *)
(* with the requests the machine has made of it.  A superblock write takes *)
(* effect at some point between the request and the response, and as a     *)
(* whole; a journal write is put in place at the request, but a crash      *)
(* before the response may leave anything in its blocks.                   *)
(***************************************************************************)
EXTENDS JournalInterval

CONSTANTS
    ReqId,
    HavocBlock \* bound: what a crash may leave in a block that was being written,
               \* besides what was being written

ASSUME HavocAssumption == HavocBlock \subseteq Block \cup {None}
ASSUME NoneAssumption == None \notin ReqId \cup Block \cup SuperblockSet \cup IntervalSet

VARIABLES
    reqReadSuperblock,  \* slot -> ids of the reads of it under way
    reqReadJournals,    \* id -> interval, or None
    reqWriteSuperblock, \* slot -> the write of it under way, or None
    reqWriteJournals,   \* id -> interval, or None
    superblock,         \* slot -> its content
    journal             \* block -> its content, or None

requests == <<reqReadSuperblock, reqReadJournals, reqWriteSuperblock, reqWriteJournals>>
dvars == <<reqReadSuperblock, reqReadJournals, reqWriteSuperblock, reqWriteJournals,
           superblock, journal>>

NoSuperblockReads == [which \in Slot |-> {}]
NoSuperblockWrites == [which \in Slot |-> None]
NoJournalRequests == [id \in ReqId |-> None]

\* A disk as mkfs leaves it, with the indirection table at loc.
DInit(loc) ==
    /\ reqReadSuperblock = NoSuperblockReads
    /\ reqReadJournals = NoJournalRequests
    /\ reqWriteSuperblock = NoSuperblockWrites
    /\ reqWriteJournals = NoJournalRequests
    /\ superblock = [which \in Slot |-> Superblock(0, 0, 0, loc)]
    /\ journal = [b \in BlockIndex |-> None]

RecvReadSuperblock(id, which) ==
    /\ \A w \in Slot : id \notin reqReadSuperblock[w]
    /\ reqReadSuperblock' = [reqReadSuperblock EXCEPT ![which] = @ \cup {id}]
    /\ UNCHANGED <<reqReadJournals, reqWriteSuperblock, reqWriteJournals, superblock, journal>>

RecvReadJournal(id, interval) ==
    /\ reqReadJournals[id] = None
    /\ ContiguousJournalInterval(interval)
    /\ reqReadJournals' = [reqReadJournals EXCEPT ![id] = interval]
    /\ UNCHANGED <<reqReadSuperblock, reqWriteSuperblock, reqWriteJournals, superblock, journal>>

RecvWriteSuperblock(id, which, sb) ==
    /\ \A w \in Slot : reqWriteSuperblock[w] # None => reqWriteSuperblock[w].id # id
    /\ reqWriteSuperblock' =
          [reqWriteSuperblock EXCEPT ![which] = [id |-> id, superblock |-> sb]]
    /\ UNCHANGED <<reqReadSuperblock, reqReadJournals, reqWriteJournals, superblock, journal>>

\* A write that wraps is two writes, with an id each.
RecvWriteJournal(id1, id2, start, jr) ==
    LET interval == Interval(start, Len(jr))
    IN  /\ reqWriteJournals[id1] = None
        /\ id2 # None => reqWriteJournals[id2] = None
        /\ ValidJournalInterval(interval)
        /\ journal' = JournalUpdate(journal, interval, jr)
        /\ IF start + Len(jr) <= NumJournalBlocks
           THEN /\ id2 = None
                /\ reqWriteJournals' = [reqWriteJournals EXCEPT ![id1] = interval]
           ELSE /\ id2 \notin {None, id1}
                /\ reqWriteJournals' =
                      [reqWriteJournals EXCEPT
                          ![id1] = Interval(start, NumJournalBlocks - start),
                          ![id2] = Interval(0, Len(jr) - (NumJournalBlocks - start))]
        /\ UNCHANGED <<reqReadSuperblock, reqReadJournals, reqWriteSuperblock, superblock>>

\* sb is what the response carries: None when the sector cannot be read.
AckReadSuperblock(id, which, sb) ==
    /\ id \in reqReadSuperblock[which]
    /\ sb \in {None, superblock[which]}
    /\ reqReadSuperblock' = [reqReadSuperblock EXCEPT ![which] = @ \ {id}]
    /\ UNCHANGED <<reqReadJournals, reqWriteSuperblock, reqWriteJournals, superblock, journal>>

AckReadJournal(id, jr) ==
    /\ reqReadJournals[id] # None
    /\ \/ jr = None
       \/ /\ Disk_HasJournalRange(journal, reqReadJournals[id])
          /\ jr = CyclicSlice(journal, reqReadJournals[id])
    /\ reqReadJournals' = [reqReadJournals EXCEPT ![id] = None]
    /\ UNCHANGED <<reqReadSuperblock, reqWriteSuperblock, reqWriteJournals, superblock, journal>>

AckWriteSuperblock(id, which) ==
    /\ reqWriteSuperblock[which] # None
    /\ reqWriteSuperblock[which].id = id
    /\ reqWriteSuperblock[which].superblock = superblock[which]
    /\ reqWriteSuperblock' = [reqWriteSuperblock EXCEPT ![which] = None]
    /\ UNCHANGED <<reqReadSuperblock, reqReadJournals, reqWriteJournals, superblock, journal>>

AckWriteJournal(id) ==
    /\ reqWriteJournals[id] # None
    /\ reqWriteJournals' = [reqWriteJournals EXCEPT ![id] = None]
    /\ UNCHANGED <<reqReadSuperblock, reqReadJournals, reqWriteSuperblock, superblock, journal>>

ProcessWriteSuperblock(which) ==
    /\ reqWriteSuperblock[which] # None
    /\ superblock' = [superblock EXCEPT ![which] = reqWriteSuperblock[which].superblock]
    /\ UNCHANGED <<requests, journal>>

JournalUntouched(b) ==
    \A id \in ReqId : reqWriteJournals[id] # None => ~InCyclicRange(b, reqWriteJournals[id])

\* Every request is forgotten and every block of an unacknowledged journal
\* write holds anything at all.
DCrash ==
    /\ reqReadSuperblock' = NoSuperblockReads
    /\ reqReadJournals' = NoJournalRequests
    /\ reqWriteSuperblock' = NoSuperblockWrites
    /\ reqWriteJournals' = NoJournalRequests
    /\ \E lost \in SUBSET {b \in BlockIndex : ~JournalUntouched(b)} :
          \E havoc \in [lost -> HavocBlock] :
             journal' = [b \in BlockIndex |-> IF b \in lost THEN havoc[b] ELSE journal[b]]
    /\ UNCHANGED superblock
=============================================================================
