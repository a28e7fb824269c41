----------------------------- MODULE StatesView -----------------------------
(***************************************************************************)
(* What the cache and B-epsilon-tree side of the store promises: a disk    *)
(* that holds complete dictionaries at locations, and at most one frozen   *)
(* and one ephemeral dictionary in memory.                                 *)
(***************************************************************************)
EXTENDS ViewOp

VARIABLES
    disk,            \* Loc -> dictionary readable there, or NoState
    persistentLoc,   \* the location loaded at start-up, or NoLoc
    frozenLoc,       \* where the frozen dictionary has been stored, or NoLoc
    frozenState,
    ephemeralState,
    vop

svars == <<disk, persistentLoc, frozenLoc, frozenState, ephemeralState>>

\* The state at start-up, which is also what a crash leaves in memory.
NothingLoaded ==
    /\ persistentLoc = NoLoc
    /\ frozenLoc = NoLoc
    /\ frozenState = NoState
    /\ ephemeralState = NoState

SInit(loc) ==
    /\ disk \in [Loc -> State \cup {NoState}]
    /\ disk[loc] = EmptyMap
    /\ NothingLoaded

ObtainPersistentLoc ==
    /\ persistentLoc = NoLoc
    /\ \E loc \in Loc :
          /\ vop' = SendPersistentLocOp(loc)
          /\ disk[loc] # NoState
          /\ persistentLoc' = loc
          /\ ephemeralState' = disk[loc]
    /\ UNCHANGED <<disk, frozenLoc, frozenState>>

\* A user operation, new or replayed.
Advance(op) ==
    /\ \E replay \in BOOLEAN : vop' = AdvanceOp(op, replay)
    /\ ephemeralState # NoState
    /\ op \in MapOps(ephemeralState)
    /\ ephemeralState' = MapStep(ephemeralState, op)
    /\ UNCHANGED <<disk, persistentLoc, frozenLoc, frozenState>>

\* Faulty variant: forgets the frozen location.
DiskChangesPreservesPersistent(d) ==
    /\ persistentLoc = NoLoc =>
          \A loc \in Loc : disk[loc] # NoState => d[loc] = disk[loc]
    /\ \A loc \in {persistentLoc} \ {NoLoc} :
          disk[loc] # NoState /\ d[loc] = disk[loc]

\* The locations whose content disk writes must leave alone.
DiskChangesPreservesPersistentAndFrozen(d) ==
    /\ persistentLoc = NoLoc =>
          \A loc \in Loc : disk[loc] # NoState => d[loc] = disk[loc]
    /\ \A loc \in {persistentLoc, frozenLoc} \ {NoLoc} :
          disk[loc] # NoState /\ d[loc] = disk[loc]

SCrash ==
    /\ vop' = CrashVOp
    /\ disk' \in [Loc -> State \cup {NoState}]
    /\ DiskChangesPreservesPersistentAndFrozen(disk')
    /\ persistentLoc' = NoLoc
    /\ frozenLoc' = NoLoc
    /\ frozenState' = NoState
    /\ ephemeralState' = NoState

Freeze ==
    /\ vop' = FreezeOp
    /\ frozenLoc' = NoLoc
    /\ frozenState' = ephemeralState
    /\ UNCHANGED <<disk, persistentLoc, ephemeralState>>

\* Nodes and indirection tables are written, one after the other, somewhere.
DiskChange ==
    /\ vop' = StatesInternalOp
    /\ disk' \in [Loc -> State \cup {NoState}]
    /\ DiskChangesPreservesPersistentAndFrozen(disk')
    /\ UNCHANGED <<persistentLoc, frozenLoc, frozenState, ephemeralState>>

ProvideFrozenLoc ==
    /\ frozenLoc = NoLoc
    /\ frozenState # NoState
    /\ \E loc \in Loc :
          /\ vop' = SendFrozenLocOp(loc)
          /\ disk[loc] = frozenState
          /\ frozenLoc' = loc
    /\ UNCHANGED <<disk, persistentLoc, frozenState, ephemeralState>>

ForgetOld ==
    /\ vop' = CleanUpOp
    /\ persistentLoc' = frozenLoc
    /\ frozenLoc' = NoLoc
    /\ frozenState' = NoState
    /\ UNCHANGED <<disk, ephemeralState>>

SStutter ==
    /\ vop'.type \in {"JournalInternalOp", "StatesInternalOp",
                      "PushSyncOp", "PopSyncOp"}
    /\ UNCHANGED svars
=============================================================================
