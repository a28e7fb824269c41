-------------------------- MODULE MC_JournalSystem --------------------------
(***************************************************************************)
(* A small instance of JournalSystem.                                      *)
(***************************************************************************)
EXTENDS JournalSystem, TLC

MCKey == {1}
MCRanges == {<< <<"NegativeInf">>, <<"PositiveInf">> >>}

\* After a crash a block that was being written holds what was written, is
\* unreadable, or holds what looks like a whole batch.
MCHavocBlock ==
    {None} \cup {blk \in Block : blk.nblocks = 1 /\ Len(blk.entries) = MaxInMemory}

Symmetry == Permutations(ReqId) \cup Permutations(Loc)

(***************************************************************************)
(* States are told apart without the label of the last step, which no      *)
(* action reads, and without the content, apart from the counter, of the   *)
(* superblock that is neither the one recovery would choose nor the one    *)
(* the machine takes for current: it is overwritten before anything but    *)
(* its counter is used.  Blocks of the journal that no interval in use     *)
(* covers are left out likewise: they are written before they are read.    *)
(* The actions and the properties are functions of the rest.               *)
(***************************************************************************)
InUse(which) ==
    \/ which = SelectSuperblockIndex(superblock)
    \/ ~LoadingSuperblock /\ which = machine.whichSuperblock

IntervalsNeeded ==
    {PersistentInterval, FrozenInterval, GammaInterval}
       \cup {reqReadJournals[id] : id \in ReqId}
       \cup {reqWriteJournals[id] : id \in ReqId}
       \cup (IF Ready THEN {Interval(machine.superblock.journalStart, machine.writtenJournalLen)}
             ELSE {})

BlocksNeeded == UNION {BlocksOf(i) : i \in IntervalsNeeded \ {None}}

StaleFree ==
    << [which \in Slot |-> IF InUse(which) THEN superblock[which]
                           ELSE superblock[which].counter],
       IF LoadingSuperblock
       THEN <<machine.outstandingRead, machine.syncReqs,
              [which \in Slot |-> machine.superblockRead[which].type]>>
       ELSE machine,
       requests, [b \in BlocksNeeded |-> journal[b]] >>
=============================================================================
