---------------------------- MODULE JournalCache ----------------------------
(***************************************************************************)
(* The machine's side of the journal: loading the superblocks and the      *)
(* journal after a start, collecting the entries of new operations in      *)
(* memory, writing them to the journal, and writing superblocks that       *)
(* either cover more of the journal (AdvanceLog) or name a new indirection *)
(* table and drop the part of the journal it makes obsolete                *)
(* (AdvanceLocation).  An operation that talks to the disk has what it     *)
(* sends or receives as parameters.                                        *)
(***************************************************************************)
EXTENDS JournalInterval

VARIABLE machine

Unfinished == [type |-> "SuperblockUnfinished"]
Corruption == [type |-> "SuperblockCorruption"]
Success(sb) == [type |-> "SuperblockSuccess", value |-> sb]

LoadingSuperblock == machine.phase = "LoadingSuperblock"
LoadingOther == machine.phase = "LoadingOther"
Ready == machine.phase = "Ready"

\* The machine as it starts, the first time and after every crash.
StartState == [phase           |-> "LoadingSuperblock",
               outstandingRead |-> [which \in Slot |-> None],
               superblockRead  |-> [which \in Slot |-> Unfinished],
               syncReqs        |-> NoSyncReqs]

MInit == machine = StartState

-----------------------------------------------------------------------------
(***************************************************************************)
(* Loading.                                                                *)
(***************************************************************************)
PageInSuperblockReq(id, which) ==
    /\ LoadingSuperblock
    /\ machine.outstandingRead[which] = None
    /\ machine.superblockRead[which] = Unfinished
    /\ machine' = [machine EXCEPT !.outstandingRead[which] = id]

PageInSuperblockResp(id, which, sb) ==
    /\ LoadingSuperblock
    /\ machine.outstandingRead[which] = id
    /\ machine' = [machine EXCEPT
                     !.outstandingRead[which] = None,
                     !.superblockRead[which] =
                        IF sb # None /\ WFSuperblock(sb) THEN Success(sb) ELSE Corruption]

\* Both superblocks have to be readable.
FinishLoadingSuperblockPhase(loc) ==
    /\ LoadingSuperblock
    /\ \A which \in Slot : machine.superblockRead[which].type = "SuperblockSuccess"
    /\ LET sb == [which \in Slot |-> machine.superblockRead[which].value]
       IN  /\ loc = SelectSuperblock(sb).indirectionTableLoc
           /\ machine' = [phase            |-> "LoadingOther",
                          superblock       |-> SelectSuperblock(sb),
                          whichSuperblock  |-> SelectSuperblockIndex(sb),
                          journalFrontRead |-> None,
                          journalBackRead  |-> None,
                          journalFront     |-> None,
                          journalBack      |-> None,
                          syncReqs         |-> machine.syncReqs]

FrontInterval == JournalFrontInterval(machine.superblock.journalStart,
                                      machine.superblock.journalLen)
BackInterval == JournalBackInterval(machine.superblock.journalStart,
                                    machine.superblock.journalLen)

\* An id that is reused means the earlier read with it was never answered.
PageInJournalFrontReq(id, interval) ==
    /\ LoadingOther
    /\ FrontInterval # None
    /\ interval = FrontInterval
    /\ machine.journalFrontRead = None
    /\ machine.journalFront = None
    /\ machine' = [machine EXCEPT
                     !.journalFrontRead = id,
                     !.journalBackRead = IF @ = id THEN None ELSE @]

PageInJournalBackReq(id, interval) ==
    /\ LoadingOther
    /\ BackInterval # None
    /\ interval = BackInterval
    /\ machine.journalBackRead = None
    /\ machine.journalBack = None
    /\ machine' = [machine EXCEPT
                     !.journalBackRead = id,
                     !.journalFrontRead = IF @ = id THEN None ELSE @]

PageInJournalFrontResp(id, jr) ==
    /\ LoadingOther
    /\ jr # None
    /\ machine.journalFrontRead = id
    /\ machine' = [machine EXCEPT !.journalFrontRead = None, !.journalFront = jr]

PageInJournalBackResp(id, jr) ==
    /\ LoadingOther
    /\ jr # None
    /\ machine.journalBackRead = id
    /\ machine' = [machine EXCEPT !.journalBackRead = None, !.journalBack = jr]

\* The range that was read, front and back.
FullRange ==
    CASE BackInterval # None  -> machine.journalFront \o machine.journalBack
      [] BackInterval = None /\ FrontInterval # None -> machine.journalFront
      [] FrontInterval = None -> << >>

\* The code says nothing of the frozen journal position here.
FinishLoadingOtherPhase ==
    /\ LoadingOther
    /\ FrontInterval # None => machine.journalFront # None
    /\ BackInterval # None => machine.journalBack # None
    /\ Parses(FullRange)
    /\ \E position \in UnsetPositions :
          machine' = [phase                    |-> "Ready",
                      frozenLoc                |-> NoLoc,
                      isFrozen                 |-> FALSE,
                      frozenJournalPosition    |-> position,
                      superblockWrite          |-> None,
                      inMemoryJournalFrozen    |-> << >>,
                      inMemoryJournal          |-> << >>,
                      outstandingJournalWrites |-> {},
                      writtenJournalLen        |-> machine.superblock.journalLen,
                      replayJournal            |-> ParseJournalRange(FullRange),
                      superblock               |-> machine.superblock,
                      whichSuperblock          |-> machine.whichSuperblock,
                      commitStatus             |-> "CommitNone",
                      newSuperblock            |-> None,
                      syncReqs                 |-> machine.syncReqs]

-----------------------------------------------------------------------------
(***************************************************************************)
(* Writing the journal.  Entries that were frozen go first, alone.         *)
(***************************************************************************)
JournalToWrite ==
    IF machine.inMemoryJournalFrozen = << >>
    THEN machine.inMemoryJournal
    ELSE machine.inMemoryJournalFrozen

\* Faulty variant: starts behind what is committed, not what is written.
NextJournalStart_Committed ==
    JournalPosAdd(machine.superblock.journalStart, machine.superblock.journalLen)

NextJournalStart ==
    JournalPosAdd(machine.superblock.journalStart, machine.writtenJournalLen)

\* Faulty variant: takes the later entries for written too.
SyncReqsAfterWrite_All == SyncReqs3to2(machine.syncReqs)

SyncReqsAfterWrite ==
    IF machine.inMemoryJournalFrozen = << >>
    THEN SyncReqs3to2(machine.syncReqs)
    ELSE machine.syncReqs

\* jr holds the entries to write in whole batches and fits behind what is
\* written already.
WriteBackJournalReq(id1, id2, start, jr) ==
    /\ Ready
    /\ Parses(jr) /\ ParseJournalRange(jr) = JournalToWrite
    /\ Len(jr) + machine.writtenJournalLen <= NumJournalBlocks
    /\ Len(jr) > 0
    /\ machine.superblockWrite = None
    /\ machine.superblock.journalStart \in BlockIndex
    /\ machine.writtenJournalLen \in 0..NumJournalBlocks
    /\ start = NextJournalStart
    /\ LET nothingFrozen == machine.inMemoryJournalFrozen = << >>
       IN  machine' = [machine EXCEPT
              !.outstandingJournalWrites = @ \cup ({id1, id2} \ {None}),
              !.writtenJournalLen = @ + Len(jr),
              !.frozenJournalPosition =
                 IF nothingFrozen THEN @ ELSE machine.writtenJournalLen + Len(jr),
              !.inMemoryJournal = IF nothingFrozen THEN << >> ELSE @,
              !.inMemoryJournalFrozen = << >>,
              !.syncReqs = SyncReqsAfterWrite]

WriteBackJournalResp(id) ==
    /\ Ready
    /\ id \in machine.outstandingJournalWrites
    /\ machine' = [machine EXCEPT !.outstandingJournalWrites = @ \ {id}]

-----------------------------------------------------------------------------
(***************************************************************************)
(* Writing a superblock, always to the slot that is not the current one.   *)
(***************************************************************************)

CommitEnabled ==
    /\ Ready
    /\ machine.commitStatus = "CommitNone"
    /\ machine.outstandingJournalWrites = {}
    /\ machine.inMemoryJournalFrozen = << >>

AdvanceLogSuperblock ==
    Superblock(IncrementSuperblockCounter(machine.superblock.counter),
               machine.superblock.journalStart,
               machine.writtenJournalLen,
               machine.superblock.indirectionTableLoc)

AdvanceLocationSuperblock ==
    Superblock(IncrementSuperblockCounter(machine.superblock.counter),
               JournalPosAdd(machine.superblock.journalStart, machine.frozenJournalPosition),
               machine.writtenJournalLen - machine.frozenJournalPosition,
               machine.frozenLoc)

WriteBackSuperblockReq_AdvanceLog(id, which, sb) ==
    /\ CommitEnabled
    /\ which = OtherSlot(machine.whichSuperblock)
    /\ machine.writtenJournalLen \in 0..NumJournalBlocks
    /\ sb = AdvanceLogSuperblock
    /\ machine' = [machine EXCEPT !.newSuperblock = sb,
                                  !.superblockWrite = id,
                                  !.commitStatus = "CommitAdvanceLog"]

WriteBackSuperblockReq_AdvanceLocation(id, which, sb) ==
    /\ CommitEnabled
    /\ machine.frozenLoc # NoLoc
    /\ machine.superblock.journalStart \in BlockIndex
    /\ machine.writtenJournalLen \in 0..NumJournalBlocks
    /\ machine.frozenJournalPosition \in 0..machine.writtenJournalLen
    /\ which = OtherSlot(machine.whichSuperblock)
    /\ sb = AdvanceLocationSuperblock
    /\ machine' = [machine EXCEPT !.newSuperblock = sb,
                                  !.superblockWrite = id,
                                  !.commitStatus = "CommitAdvanceLocation"]

WriteBackSuperblockResp_AdvanceLog(id) ==
    /\ Ready
    /\ machine.superblockWrite = id
    /\ machine.newSuperblock # None
    /\ machine.commitStatus = "CommitAdvanceLog"
    /\ machine' = [machine EXCEPT !.superblockWrite = None,
                                  !.superblock = machine.newSuperblock,
                                  !.newSuperblock = None,
                                  !.whichSuperblock = OtherSlot(@),
                                  !.syncReqs = SyncReqs2to1(@),
                                  !.commitStatus = "CommitNone"]

\* Faulty variant: still counts the part of the journal that was dropped.
WriteBackSuperblockResp_KeepsLen(id) ==
    /\ Ready
    /\ machine.superblockWrite = id
    /\ machine.newSuperblock # None
    /\ machine.commitStatus = "CommitAdvanceLocation"
    /\ machine' = [machine EXCEPT !.superblockWrite = None,
                                  !.superblock = machine.newSuperblock,
                                  !.newSuperblock = None,
                                  !.whichSuperblock = OtherSlot(@),
                                  !.syncReqs = SyncReqs2to1(@),
                                  !.frozenJournalPosition = 0,
                                  !.frozenLoc = NoLoc,
                                  !.isFrozen = FALSE,
                                  !.commitStatus = "CommitNone"]

WriteBackSuperblockResp_AdvanceLocation(id) ==
    /\ Ready
    /\ machine.superblockWrite = id
    /\ machine.newSuperblock # None
    /\ machine.commitStatus = "CommitAdvanceLocation"
    /\ machine' = [machine EXCEPT !.superblockWrite = None,
                                  !.superblock = machine.newSuperblock,
                                  !.newSuperblock = None,
                                  !.whichSuperblock = OtherSlot(@),
                                  !.syncReqs = SyncReqs2to1(@),
                                  !.writtenJournalLen = @ - machine.frozenJournalPosition,
                                  !.frozenJournalPosition = 0,
                                  !.frozenLoc = NoLoc,
                                  !.isFrozen = FALSE,
                                  !.commitStatus = "CommitNone"]

-----------------------------------------------------------------------------
(***************************************************************************)
(* Freezing, user operations and syncs: no disk is involved.               *)
(***************************************************************************)
EntriesFrozen == machine.inMemoryJournalFrozen \o machine.inMemoryJournal

Freeze ==
    /\ Ready
    /\ machine.superblockWrite = None
    /\ machine.frozenLoc # machine.superblock.indirectionTableLoc
    /\ machine.replayJournal = << >>
    /\ machine' = [machine EXCEPT
                     !.frozenLoc = NoLoc,
                     !.inMemoryJournalFrozen = EntriesFrozen,
                     !.inMemoryJournal = << >>,
                     !.frozenJournalPosition = machine.writtenJournalLen,
                     !.syncReqs = SyncReqs3to2(@),
                     !.isFrozen = TRUE]

ReceiveFrozenLoc(loc) ==
    /\ Ready
    /\ machine.isFrozen
    /\ machine.frozenLoc = NoLoc
    /\ machine' = [machine EXCEPT !.frozenLoc = loc]

Advance(op) ==
    /\ Ready
    /\ machine.replayJournal = << >>
    /\ Len(machine.inMemoryJournalFrozen) + Len(machine.inMemoryJournal)
          + Len(JournalEntriesForUIOp(op)) <= MaxInMemory
    /\ machine' = [machine EXCEPT !.inMemoryJournal = @ \o JournalEntriesForUIOp(op)]

Replay(op) ==
    LET replayed == JournalEntriesForUIOp(op)
    IN  /\ Ready
        /\ Len(replayed) <= Len(machine.replayJournal)
        /\ SubSeq(machine.replayJournal, 1, Len(replayed)) = replayed
        /\ machine' = [machine EXCEPT !.replayJournal = SubSeq(@, Len(replayed) + 1, Len(@))]

PushSyncReq(id) ==
    /\ machine.syncReqs[id] = "NoReq"
    /\ machine' = [machine EXCEPT !.syncReqs[id] = "State3"]

PopSyncReq(id) ==
    /\ machine.syncReqs[id] = "State1"
    /\ machine' = [machine EXCEPT !.syncReqs[id] = "NoReq"]
=============================================================================
