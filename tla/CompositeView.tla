--------------------------- MODULE CompositeView ---------------------------
(***************************************************************************)
(* JournalView and StatesView side by side, taking every step together     *)
(* under one label.  The journal side is j1 .. syncReqs, the states side   *)
(* is disk .. ephemeralState; both have a persistent and a frozen          *)
(* location, and the two pairs are not always equal.                       *)
(***************************************************************************)
EXTENDS ViewOp

VARIABLES
    j1, j2, j3, j_gamma, j_delta, syncReqs,
    persistentLoc,   \* the journal side's: what the superblock names
    frozenLoc,       \* the journal side's
    disk, frozenState, ephemeralState,
    tsmPersistentLoc, tsmFrozenLoc,
    vop

jcVars == <<j1, j2, j3, j_gamma, j_delta, persistentLoc, frozenLoc, syncReqs>>
tsmVars == <<disk, tsmPersistentLoc, tsmFrozenLoc, frozenState, ephemeralState>>
vars == <<jcVars, tsmVars, vop>>

JV == INSTANCE JournalView
SV == INSTANCE StatesView
        WITH persistentLoc <- tsmPersistentLoc, frozenLoc <- tsmFrozenLoc

Init == \E loc \in Loc : SV!SInit(loc) /\ JV!JInit(loc)

(***************************************************************************)
(* One action per label.                                                   *)
(***************************************************************************)
SendPersistentLoc == JV!PresentPersistentLoc /\ SV!ObtainPersistentLoc

Advance == \E op \in MapOps(ephemeralState) : JV!Move3(op) /\ SV!Advance(op)

Replay == \E op \in MapOps(ephemeralState) : JV!Replay(op) /\ SV!Advance(op)

Crash == JV!JCrash /\ SV!SCrash

Freeze == JV!Move2to3 /\ SV!Freeze

StatesInternal == SV!DiskChange /\ JV!JStutter

JournalInternal == (JV!Move1to2 \/ JV!ExtendLog1 \/ JV!ExtendLog2) /\ SV!SStutter

SendFrozenLoc == JV!ObtainFrozenLoc /\ SV!ProvideFrozenLoc

CleanUp == JV!CleanUp /\ SV!ForgetOld

PushSync == JV!PushSync /\ SV!SStutter

PopSync == JV!PopSync /\ SV!SStutter

NoChange == JV!JStutter /\ SV!SStutter

Next ==
    \/ SendPersistentLoc
    \/ ephemeralState # NoState /\ Advance
    \/ ephemeralState # NoState /\ Replay
    \/ Crash
    \/ Freeze
    \/ StatesInternal
    \/ JournalInternal
    \/ SendFrozenLoc
    \/ CleanUp
    \/ PushSync
    \/ PopSync
    \/ NoChange

Spec == Init /\ [][Next]_vars

-----------------------------------------------------------------------------
(***************************************************************************)
(* The refinement: what the two sides together mean.                       *)
(***************************************************************************)

\* The three stored dictionaries (CompositeView.s1, s2, s3).
s1 == disk[persistentLoc]
s2 == IF frozenState # NoState THEN frozenState ELSE s1
s3 == IF ephemeralState # NoState THEN ephemeralState ELSE s1

\* The three versions a user can be shown (TSJMap_Refines_...Map.I).
t1 == ApplySeq(s1, j1)
t2 == ApplySeq(s2, j2)
t3 == ApplySeq(s3, j3)

TSV == INSTANCE ThreeStateVersioned
         WITH s1 <- t1, s2 <- t2, s3 <- t3,
              outstandingSyncReqs <- syncReqs, uiop <- UIOpOf(vop)

-----------------------------------------------------------------------------
\* Type invariant: the journals hold entries, locations are locations, and
\* the dictionaries in memory are complete maps.
TypeOK ==
    /\ {j1, j2, j3, j_gamma, j_delta} \subseteq Seq(JournalEntry)
    /\ persistentLoc \in Loc
    /\ {frozenLoc, tsmPersistentLoc, tsmFrozenLoc} \subseteq Loc \cup {NoLoc}
    /\ disk \in [Loc -> State \cup {NoState}]
    /\ {frozenState, ephemeralState} \subseteq State \cup {NoState}
    /\ syncReqs \in [SyncId -> SyncReqStatus]

\* The two sides agree about locations closely enough that no disk write can
\* destroy the dictionary the superblock names: it is the one the states side
\* loaded, or it is the frozen one both sides know to be stored.
LocationsAgree ==
    /\ disk[persistentLoc] # NoState
    /\ frozenLoc # NoLoc => tsmFrozenLoc = frozenLoc
    /\ tsmPersistentLoc # NoLoc => persistentLoc \in {tsmPersistentLoc, frozenLoc}
    /\ tsmFrozenLoc # NoLoc =>
          frozenState # NoState /\ disk[tsmFrozenLoc] = frozenState
    /\ frozenState # NoState => ephemeralState # NoState
    /\ ephemeralState # NoState => tsmPersistentLoc # NoLoc

\* The five journals connect the three dictionaries: the frozen one is the
\* persistent one after the part of gamma it does not have to replay, and the
\* ephemeral one is the frozen one after j2 and delta, less what it has to
\* replay (TSJ.Inv).
JournalsConnect ==
    /\ Advances(s1, j_gamma, s2, j2)
    /\ Advances(s2, j2 \o j_delta, s3, j3)

\* The store is a crash-safe dictionary.
RefinesThreeStateVersioned == TSV!Spec
=============================================================================
