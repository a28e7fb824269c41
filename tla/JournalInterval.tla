-------------------------- MODULE JournalInterval --------------------------
(***************************************************************************)
(* The journal is a circular array of NumJournalBlocks blocks.  An         *)
(* interval of it is a start and a length and may wrap around; a range is  *)
(* the sequence of blocks in an interval.                                  *)
(***************************************************************************)
EXTENDS ViewOp, FiniteSets

CONSTANTS
    NumJournalBlocks,  \* blocks in the circular array
    MaxInMemory,       \* bound: entries that wait in memory at a time
    MaxBlocksPerWrite, \* bound: blocks one batch of entries takes
    UnsetPositions,    \* bound: values of a position the code leaves unset
    None               \* None, of every Option type that Loc does not have

ASSUME NumJournalBlocksAssumption == NumJournalBlocks \in Nat \ {0}
ASSUME BoundsAssumption ==
    /\ MaxInMemory \in Nat
    /\ MaxBlocksPerWrite \in Nat \ {0}
    /\ UnsetPositions \subseteq 0..NumJournalBlocks

BlockIndex == 0 .. NumJournalBlocks - 1

Interval(start, len) == [start |-> start, len |-> len]

IntervalSet == [start : BlockIndex, len : 0..NumJournalBlocks]

ValidJournalInterval(i) ==
    i.start \in BlockIndex /\ i.len \in 0 .. NumJournalBlocks

ContiguousJournalInterval(i) ==
    ValidJournalInterval(i) /\ i.start + i.len <= NumJournalBlocks

\* start and span are at most NumJournalBlocks, so one subtraction is enough.
JournalPosAdd(start, span) ==
    IF start + span >= NumJournalBlocks
    THEN start + span - NumJournalBlocks
    ELSE start + span

InCyclicRange(b, i) ==
    \/ i.start <= b /\ b < i.start + i.len
    \/ i.start <= b + NumJournalBlocks /\ b + NumJournalBlocks < i.start + i.len

BlocksOf(i) == {b \in BlockIndex : InCyclicRange(b, i)}

\* A wrapping interval is read back, and written, as a front and a back part.
JournalFrontInterval(start, len) ==
    IF len = 0 THEN None
    ELSE Interval(start, IF len <= NumJournalBlocks - start
                         THEN len ELSE NumJournalBlocks - start)

JournalBackInterval(start, len) ==
    IF len = 0 \/ len <= NumJournalBlocks - start THEN None
    ELSE Interval(0, len - (NumJournalBlocks - start))

-----------------------------------------------------------------------------
(***************************************************************************)
(* Blocks.  Entries are marshalled in batches: a header with the number of *)
(* entries and of blocks in the first block, then the entries' bytes over  *)
(* as many blocks as the header says.  A block here is its place in its    *)
(* batch and the batch's entries; the content of a block is at least one   *)
(* byte of the batch, so blocks of different batches never make up one     *)
(* batch.  None is a block that holds no readable content.                 *)
(***************************************************************************)
Batch == UNION {[1..n -> JournalEntry] : n \in 0..MaxInMemory}

Block == {blk \in [entries : Batch, nblocks : 1..MaxBlocksPerWrite,
                   idx : 1..MaxBlocksPerWrite] : blk.idx <= blk.nblocks}

MarshalBatch(entries, n) ==
    [k \in 1..n |-> [entries |-> entries, nblocks |-> n, idx |-> k]]

\* A batch starts at position p of jr and is complete there.
WholeBatchAt(jr, p) ==
    /\ jr[p].idx = 1
    /\ p + jr[p].nblocks - 1 <= Len(jr)
    /\ SubSeq(jr, p, p + jr[p].nblocks - 1)
          = MarshalBatch(jr[p].entries, jr[p].nblocks)

\* Where batches start, when jr is batch after batch.
BatchStarts(jr) == {p \in 1..Len(jr) : jr[p].idx = 1}

\* parseJournalRange(jr).Some?
Parses(jr) ==
    /\ \A p \in BatchStarts(jr) : WholeBatchAt(jr, p)
    /\ \A q \in 1..Len(jr) :
          \E p \in BatchStarts(jr) : p <= q /\ q < p + jr[p].nblocks

\* parseJournalRange(jr).value
ParseJournalRange(jr) ==
    LET upTo[q \in 0..Len(jr)] ==
           IF q = 0 THEN << >>
           ELSE IF jr[q].idx = 1 THEN upTo[q - 1] \o jr[q].entries
           ELSE upTo[q - 1]
    IN  upTo[Len(jr)]

-----------------------------------------------------------------------------
(***************************************************************************)
(* The blocks of the array `journal` that an interval covers, in order.    *)
(***************************************************************************)
CyclicSlice(journal, i) ==
    [k \in 1..i.len |-> journal[JournalPosAdd(i.start, k - 1)]]

Disk_HasJournalRange(journal, i) ==
    \A b \in BlocksOf(i) : journal[b] # None

Disk_HasJournal(journal, i) ==
    Disk_HasJournalRange(journal, i) /\ Parses(CyclicSlice(journal, i))

Disk_Journal(journal, i) == ParseJournalRange(CyclicSlice(journal, i))

\* What writing the range jr over the interval i leaves in the array.
JournalUpdate(journal, i, jr) ==
    [b \in BlockIndex |->
        CASE i.start <= b /\ b < i.start + i.len
                -> jr[b - i.start + 1]
          [] i.start <= b + NumJournalBlocks /\ b + NumJournalBlocks < i.start + i.len
                -> jr[b + NumJournalBlocks - i.start + 1]
          [] OTHER -> journal[b]]

-----------------------------------------------------------------------------
(***************************************************************************)
(* Superblocks: which part of the array is the persistent journal, and     *)
(* where the persistent indirection table is.  There are two, written in   *)
(* turn, and the counter (uint64 in the code, modulo CounterModulus here)  *)
(* says which is the newer.                                                *)
(***************************************************************************)
CONSTANT CounterModulus

ASSUME CounterAssumption == CounterModulus \in Nat \ {0, 1, 2}

Slot == {0, 1}

OtherSlot(which) == IF which = 0 THEN 1 ELSE 0

Superblock(counter, start, len, loc) ==
    [counter |-> counter, journalStart |-> start, journalLen |-> len,
     indirectionTableLoc |-> loc]

IncrementSuperblockCounter(i) == IF i = CounterModulus - 1 THEN 0 ELSE i + 1

\* Faulty variant: does not work across the wrap-around.
SelectSuperblockIndex_Larger(sb) == IF sb[1].counter > sb[0].counter THEN 1 ELSE 0

SelectSuperblockIndex(sb) ==
    IF sb[1].counter = IncrementSuperblockCounter(sb[0].counter) THEN 1 ELSE 0

SelectSuperblock(sb) == sb[SelectSuperblockIndex(sb)]

WFSuperblock(sb) ==
    /\ sb.journalStart < NumJournalBlocks
    /\ sb.journalLen <= NumJournalBlocks
    /\ sb.indirectionTableLoc \in Loc

SuperblockSet ==
    {Superblock(c, p, n, loc) : c \in 0 .. CounterModulus - 1, p \in BlockIndex,
                                n \in 0..NumJournalBlocks, loc \in Loc}
=============================================================================
