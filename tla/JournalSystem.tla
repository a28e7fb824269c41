--------------------------- MODULE JournalSystem ---------------------------
(***************************************************************************)
(* JournalCache attached to JournalDisk: an operation of the machine that  *)
(* sends or receives a disk request happens together with the disk's side  *)
(* of it.  vop is the label of the last step, as in JournalView.           *)
(***************************************************************************)
EXTENDS JournalCache, JournalDisk

VARIABLE vop

vars == <<machine, dvars, vop>>

(***************************************************************************)
(* What the state means as a JournalView.                                  *)
(***************************************************************************)
SuperblockOfDisk == SelectSuperblock(superblock)

PersistentInterval == Interval(SuperblockOfDisk.journalStart, SuperblockOfDisk.journalLen)

FrozenInterval ==
    CASE ~Ready -> PersistentInterval
      [] Ready /\ machine.isFrozen ->
            Interval(JournalPosAdd(machine.superblock.journalStart,
                                   machine.frozenJournalPosition),
                     machine.writtenJournalLen - machine.frozenJournalPosition)
      [] Ready /\ ~machine.isFrozen ->
            Interval(machine.superblock.journalStart, machine.writtenJournalLen)

\* The disk has the new superblock but the machine has not been told.
HasUpdateOccurredUnacked ==
    /\ Ready
    /\ machine.newSuperblock # None
    /\ superblock[OtherSlot(machine.whichSuperblock)] = machine.newSuperblock

HasLocationUpdateOccurredUnacked ==
    HasUpdateOccurredUnacked /\ machine.commitStatus = "CommitAdvanceLocation"

GammaLen ==
    CASE ~Ready -> SuperblockOfDisk.journalLen
      [] Ready /\ HasLocationUpdateOccurredUnacked ->
            machine.writtenJournalLen - machine.frozenJournalPosition
      [] Ready /\ ~HasLocationUpdateOccurredUnacked -> machine.writtenJournalLen

GammaInterval == Interval(SuperblockOfDisk.journalStart, GammaLen)

PersistentJournal == Disk_Journal(journal, PersistentInterval)
FrozenJournal == Disk_Journal(journal, FrozenInterval)
EphemeralJournal == IF Ready THEN machine.replayJournal ELSE PersistentJournal
GammaJournal ==
    Disk_Journal(journal, GammaInterval)
       \o (IF Ready THEN machine.inMemoryJournalFrozen ELSE << >>)
DeltaJournal == IF Ready THEN machine.inMemoryJournal ELSE << >>
PersistentLoc == SuperblockOfDisk.indirectionTableLoc
FrozenLoc == IF Ready THEN machine.frozenLoc ELSE NoLoc
SyncReqs ==
    IF HasUpdateOccurredUnacked THEN SyncReqs2to1(machine.syncReqs) ELSE machine.syncReqs

-----------------------------------------------------------------------------
InitWithLoc(loc) == MInit /\ DInit(loc) /\ vop = JournalInternalOp

Init == \E loc \in Loc : InitWithLoc(loc)

-----------------------------------------------------------------------------
\* The committer writes the journal only when there are entries to write, and
\* writes them as one batch.
WriteBackJournalReqStep ==
    /\ Ready
    /\ JournalToWrite # << >>
    /\ \E id1 \in ReqId, id2 \in ReqId \cup {None}, n \in 1..MaxBlocksPerWrite :
          LET jr == MarshalBatch(JournalToWrite, n)
          IN  /\ WriteBackJournalReq(id1, id2, NextJournalStart, jr)
              /\ RecvWriteJournal(id1, id2, NextJournalStart, jr)
    /\ vop' = JournalInternalOp

WriteBackJournalRespStep ==
    /\ \E id \in ReqId : WriteBackJournalResp(id) /\ AckWriteJournal(id)
    /\ vop' = JournalInternalOp

WriteBackSuperblockReq_AdvanceLog_Step ==
    /\ CommitEnabled
    /\ \E id \in ReqId, which \in Slot :
          /\ WriteBackSuperblockReq_AdvanceLog(id, which, AdvanceLogSuperblock)
          /\ RecvWriteSuperblock(id, which, AdvanceLogSuperblock)
    /\ vop' = JournalInternalOp

WriteBackSuperblockReq_AdvanceLocation_Step ==
    /\ CommitEnabled
    /\ \E id \in ReqId, which \in Slot :
          /\ WriteBackSuperblockReq_AdvanceLocation(id, which, AdvanceLocationSuperblock)
          /\ RecvWriteSuperblock(id, which, AdvanceLocationSuperblock)
    /\ vop' = JournalInternalOp

WriteBackSuperblockRespStep ==
    \E id \in ReqId, which \in Slot :
       /\ \/ WriteBackSuperblockResp_AdvanceLog(id) /\ vop' = JournalInternalOp
          \/ WriteBackSuperblockResp_AdvanceLocation(id) /\ vop' = CleanUpOp
       /\ AckWriteSuperblock(id, which)

PageInJournalReqStep ==
    /\ LoadingOther
    /\ \E id \in ReqId :
          \/ PageInJournalFrontReq(id, FrontInterval) /\ RecvReadJournal(id, FrontInterval)
          \/ PageInJournalBackReq(id, BackInterval) /\ RecvReadJournal(id, BackInterval)
    /\ vop' = JournalInternalOp

\* What a response to the read `id` of the journal may carry.
JournalResponses(id) ==
    IF reqReadJournals[id] = None
    THEN {}
    ELSE {None, CyclicSlice(journal, reqReadJournals[id])}

PageInJournalRespStep ==
    /\ \E id \in ReqId : \E jr \in JournalResponses(id) :
          /\ PageInJournalFrontResp(id, jr) \/ PageInJournalBackResp(id, jr)
          /\ AckReadJournal(id, jr)
    /\ vop' = JournalInternalOp

PageInSuperblockReqStep ==
    /\ \E id \in ReqId, which \in Slot :
          PageInSuperblockReq(id, which) /\ RecvReadSuperblock(id, which)
    /\ vop' = JournalInternalOp

PageInSuperblockRespStep ==
    /\ \E id \in ReqId, which \in Slot : \E sb \in {None, superblock[which]} :
          PageInSuperblockResp(id, which, sb) /\ AckReadSuperblock(id, which, sb)
    /\ vop' = JournalInternalOp

FinishLoadingSuperblockPhaseStep ==
    /\ \E loc \in Loc :
          FinishLoadingSuperblockPhase(loc) /\ vop' = SendPersistentLocOp(loc)
    /\ UNCHANGED dvars

FinishLoadingOtherPhaseStep ==
    FinishLoadingOtherPhase /\ vop' = JournalInternalOp /\ UNCHANGED dvars

FreezeStep == Freeze /\ vop' = FreezeOp /\ UNCHANGED dvars

ReceiveFrozenLocStep ==
    /\ \E loc \in Loc : ReceiveFrozenLoc(loc) /\ vop' = SendFrozenLocOp(loc)
    /\ UNCHANGED dvars

AdvanceStep ==
    /\ \E op \in Write \cup {NoOp} : Advance(op) /\ vop' = AdvanceOp(op, FALSE)
    /\ Len(GammaJournal) + Len(DeltaJournal') <= MaxJournal  \* bound
    /\ UNCHANGED dvars

ReplayStep ==
    /\ \E op \in Write \cup {NoOp} : Replay(op) /\ vop' = AdvanceOp(op, TRUE)
    /\ UNCHANGED dvars

PushSyncReqStep ==
    /\ \E id \in SyncId : PushSyncReq(id) /\ vop' = PushSyncVOp(id)
    /\ UNCHANGED dvars

PopSyncReqStep ==
    /\ \E id \in SyncId : PopSyncReq(id) /\ vop' = PopSyncVOp(id)
    /\ UNCHANGED dvars

\* The machine ignores a response to a read.  (It may also ignore responses
\* to writes it has no record of: there are none, see RequestsRecorded.)
NoOpStep ==
    /\ UNCHANGED machine
    /\ vop' \in {JournalInternalOp, StatesInternalOp}
    /\ \/ UNCHANGED dvars
       \/ \E id \in ReqId, which \in Slot : AckReadSuperblock(id, which, superblock[which])
       \/ \E id \in ReqId : AckReadJournal(id, None)

DiskInternal ==
    /\ \E which \in Slot : ProcessWriteSuperblock(which)
    /\ vop' = JournalInternalOp
    /\ UNCHANGED machine

Crash == machine' = StartState /\ DCrash /\ vop' = CrashVOp

Next ==
    \/ WriteBackJournalReqStep
    \/ WriteBackJournalRespStep
    \/ WriteBackSuperblockReq_AdvanceLog_Step
    \/ WriteBackSuperblockReq_AdvanceLocation_Step
    \/ WriteBackSuperblockRespStep
    \/ PageInJournalReqStep
    \/ PageInJournalRespStep
    \/ PageInSuperblockReqStep
    \/ PageInSuperblockRespStep
    \/ FinishLoadingSuperblockPhaseStep
    \/ FinishLoadingOtherPhaseStep
    \/ FreezeStep
    \/ ReceiveFrozenLocStep
    \/ AdvanceStep
    \/ ReplayStep
    \/ PushSyncReqStep
    \/ PopSyncReqStep
    \/ NoOpStep
    \/ DiskInternal
    \/ Crash

Spec == Init /\ [][Next]_vars

-----------------------------------------------------------------------------
JV == INSTANCE JournalView
        WITH j1 <- PersistentJournal, j2 <- FrozenJournal, j3 <- EphemeralJournal,
             j_gamma <- GammaJournal, j_delta <- DeltaJournal,
             persistentLoc <- PersistentLoc, frozenLoc <- FrozenLoc,
             syncReqs <- SyncReqs

-----------------------------------------------------------------------------
\* Type invariant: the disk's queues, its content, and the machine in each of
\* its phases.
TypeOK ==
    /\ reqReadSuperblock \in [Slot -> SUBSET ReqId]
    /\ reqReadJournals \in [ReqId -> IntervalSet \cup {None}]
    /\ reqWriteJournals \in [ReqId -> IntervalSet \cup {None}]
    /\ \A which \in Slot :
          /\ superblock[which] \in SuperblockSet
          /\ reqWriteSuperblock[which] # None =>
                /\ reqWriteSuperblock[which].id \in ReqId
                /\ reqWriteSuperblock[which].superblock \in SuperblockSet
    /\ \A b \in BlockIndex : journal[b] # None => journal[b] \in Block
    /\ machine.syncReqs \in [SyncId -> SyncReqStatus]
    /\ LoadingSuperblock =>
          \A which \in Slot : machine.outstandingRead[which] \in ReqId \cup {None}
    /\ ~LoadingSuperblock => machine.superblock \in SuperblockSet
    /\ Ready =>
          /\ machine.writtenJournalLen \in 0..NumJournalBlocks
          /\ machine.frozenJournalPosition \in 0..NumJournalBlocks
          /\ machine.newSuperblock # None => machine.newSuperblock \in SuperblockSet

\* Whatever the machine and the disk are doing, the journals that a crash, a
\* commit and a freeze would need are on disk in one piece: every block of
\* them is readable and they parse, also across the end of the array.
JournalsReadable ==
    /\ Disk_HasJournal(journal, PersistentInterval)
    /\ Disk_HasJournal(journal, FrozenInterval)
    /\ Disk_HasJournal(journal, GammaInterval)

\* A journal write under way touches no block of the journal that a crash at
\* this moment would recover, nor of another write under way.
WritesAvoidPersistentJournal ==
    \A id \in ReqId : reqWriteJournals[id] # None =>
       /\ BlocksOf(reqWriteJournals[id]) \cap BlocksOf(PersistentInterval) = {}
       /\ \A other \in ReqId \ {id} : reqWriteJournals[other] # None =>
             BlocksOf(reqWriteJournals[id]) \cap BlocksOf(reqWriteJournals[other]) = {}

\* The superblock that recovery would choose is never the one being
\* overwritten, over any number of commits, crashes and counter wrap-arounds;
\* and it is the one the machine takes for current, or the one it is writing.
CurrentSuperblockSafe ==
    /\ \A which \in Slot :
          reqWriteSuperblock[which] # None
             => \/ SelectSuperblockIndex(superblock) # which
                \/ superblock[which] = reqWriteSuperblock[which].superblock
    /\ ~LoadingSuperblock => superblock[machine.whichSuperblock] = machine.superblock
    /\ LoadingOther => machine.superblock = SuperblockOfDisk
    /\ Ready => SuperblockOfDisk \in {machine.superblock, machine.newSuperblock}

\* Every write under way is one the machine waits for, so no response to a
\* write is ever ignored; and no superblock is written while a journal write
\* is under way.
RequestsRecorded ==
    /\ \A id \in ReqId : reqWriteJournals[id] # None =>
          Ready /\ id \in machine.outstandingJournalWrites
    /\ \A which \in Slot : reqWriteSuperblock[which] # None =>
          /\ Ready /\ machine.superblockWrite = reqWriteSuperblock[which].id
          /\ \A id \in ReqId : reqWriteJournals[id] = None

\* What recovery finds first: requests and the machine's records of them match,
\* and the superblock it would choose is a safe one, in every well-typed state.
RecoverySafe == TypeOK /\ RequestsRecorded /\ CurrentSuperblockSafe

\* The journal side of the system is a JournalView.
RefinesJournalView == JV!JSpec
=============================================================================
