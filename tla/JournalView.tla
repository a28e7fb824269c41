---------------------------- MODULE JournalView ----------------------------
(***************************************************************************)
(* What the journal side of the store promises.  There are three versions  *)
(* of the dictionary (persistent s1, frozen s2, ephemeral s3: they live on *)
(* the states side) and each has a journal that is still to be replayed on *)
(* it to get the version the user would see:                               *)
(*                                                                         *)
(*   s1 --j1--> t1      s2 --j2--> t2      s3 --j3--> t3                   *)
(*                                                                         *)
(*   t2 is s1 after j_gamma, and t3 is t2 after j_delta.                   *)
(*                                                                         *)
(* vop is the label of the last transition.                                *)
(***************************************************************************)
EXTENDS ViewOp

VARIABLES j1, j2, j3, j_gamma, j_delta, persistentLoc, frozenLoc, syncReqs, vop

journals == <<j1, j2, j3, j_gamma, j_delta>>
jvars == <<j1, j2, j3, j_gamma, j_delta, persistentLoc, frozenLoc, syncReqs>>

JInit(loc) ==
    /\ j1 = << >>
    /\ j2 = << >>
    /\ j3 = << >>
    /\ j_gamma = << >>
    /\ j_delta = << >>
    /\ persistentLoc = loc
    /\ frozenLoc = NoLoc
    /\ syncReqs = NoSyncReqs
    /\ vop = JournalInternalOp

PresentPersistentLoc ==
    /\ vop' = SendPersistentLocOp(persistentLoc)
    /\ UNCHANGED jvars

ObtainFrozenLoc ==
    /\ \E loc \in Loc : vop' = SendFrozenLocOp(loc) /\ frozenLoc' = loc
    /\ UNCHANGED <<journals, persistentLoc, syncReqs>>

CleanUp ==
    /\ vop' = CleanUpOp
    /\ frozenLoc = persistentLoc
    /\ frozenLoc' = NoLoc
    /\ UNCHANGED <<journals, persistentLoc, syncReqs>>

JCrash ==
    /\ vop' = CrashVOp
    /\ j2' = j1
    /\ j3' = j1
    /\ j_gamma' = j1
    /\ j_delta' = << >>
    /\ frozenLoc' = NoLoc
    /\ syncReqs' = NoSyncReqs
    /\ UNCHANGED <<j1, persistentLoc>>

\* The superblock now names the frozen location.
Move1to2 ==
    /\ vop' = JournalInternalOp
    /\ frozenLoc # NoLoc
    /\ j1' = j2
    /\ j_gamma' = j2
    /\ persistentLoc' = frozenLoc
    /\ syncReqs' = SyncReqs2to1(syncReqs)
    /\ UNCHANGED <<j2, j3, j_delta, frozenLoc>>

\* The ephemeral state is frozen.
Move2to3 ==
    /\ vop' = FreezeOp
    /\ frozenLoc # persistentLoc
    /\ j2' = j3
    /\ j_gamma' = j_gamma \o j_delta
    /\ j_delta' = << >>
    /\ frozenLoc' = NoLoc
    /\ syncReqs' = SyncReqs3to2(syncReqs)
    /\ UNCHANGED <<j1, j3, persistentLoc>>

\* Everything in gamma is now in the persistent journal.
ExtendLog1 ==
    /\ vop' = JournalInternalOp
    /\ j1' = j_gamma
    /\ syncReqs' = SyncReqs2to1(syncReqs)
    /\ UNCHANGED <<j2, j3, j_gamma, j_delta, persistentLoc, frozenLoc>>

\* Faulty variant: the entries join the frozen journal only.
ExtendLog2_KeepsGamma ==
    /\ vop' = JournalInternalOp
    /\ j2' = j2 \o j_delta
    /\ j_delta' = << >>
    /\ syncReqs' = SyncReqs3to2(syncReqs)
    /\ UNCHANGED <<j1, j3, j_gamma, persistentLoc, frozenLoc>>

\* What was only in memory is now on its way to the journal.
ExtendLog2 ==
    /\ vop' = JournalInternalOp
    /\ j2' = j2 \o j_delta
    /\ j_gamma' = j_gamma \o j_delta
    /\ j_delta' = << >>
    /\ syncReqs' = SyncReqs3to2(syncReqs)
    /\ UNCHANGED <<j1, j3, persistentLoc, frozenLoc>>

\* A new user operation: only when the replay has finished.
Move3(op) ==
    /\ vop' = AdvanceOp(op, FALSE)
    /\ j3 = << >>
    /\ j_delta' = j_delta \o JournalEntriesForUIOp(op)
    /\ Len(j_gamma) + Len(j_delta') <= MaxJournal
    /\ UNCHANGED <<j1, j2, j3, j_gamma, persistentLoc, frozenLoc, syncReqs>>

\* A replayed operation consumes the head of j3.
Replay(op) ==
    /\ vop' = AdvanceOp(op, TRUE)
    /\ Len(JournalEntriesForUIOp(op)) <= Len(j3)
    /\ j3' = SubSeq(j3, Len(JournalEntriesForUIOp(op)) + 1, Len(j3))
    /\ j3 = JournalEntriesForUIOp(op) \o j3'
    /\ UNCHANGED <<j1, j2, j_gamma, j_delta, persistentLoc, frozenLoc, syncReqs>>

PushSync ==
    /\ \E id \in SyncId :
          /\ vop' = PushSyncVOp(id)
          /\ syncReqs[id] = "NoReq"
          /\ syncReqs' = [syncReqs EXCEPT ![id] = "State3"]
    /\ UNCHANGED <<journals, persistentLoc, frozenLoc>>

\* Faulty variant: answers as soon as nothing is ephemeral.
PopSync_Early ==
    /\ \E id \in SyncId :
          /\ vop' = PopSyncVOp(id)
          /\ syncReqs[id] \in {"State1", "State2"}
          /\ syncReqs' = [syncReqs EXCEPT ![id] = "NoReq"]
    /\ UNCHANGED <<journals, persistentLoc, frozenLoc>>

PopSync ==
    /\ \E id \in SyncId :
          /\ vop' = PopSyncVOp(id)
          /\ syncReqs[id] = "State1"
          /\ syncReqs' = [syncReqs EXCEPT ![id] = "NoReq"]
    /\ UNCHANGED <<journals, persistentLoc, frozenLoc>>

JStutter ==
    /\ vop' \in {JournalInternalOp, StatesInternalOp}
    /\ UNCHANGED jvars

(***************************************************************************)
(* JournalView on its own.  The operation of a query is for the states     *)
(* side to choose; NoOp stands for all of them, as they leave no entry.    *)
(***************************************************************************)
JNext ==
    \/ JStutter
    \/ PresentPersistentLoc
    \/ ObtainFrozenLoc
    \/ CleanUp
    \/ JCrash
    \/ Move1to2
    \/ Move2to3
    \/ ExtendLog1
    \/ ExtendLog2
    \/ \E op \in Write \cup {NoOp} : Move3(op) \/ Replay(op)
    \/ PushSync
    \/ PopSync

JSpec == (\E loc \in Loc : JInit(loc)) /\ [][JNext]_<<jvars, vop>>
=============================================================================
