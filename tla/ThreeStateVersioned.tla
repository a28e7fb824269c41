------------------------ MODULE ThreeStateVersioned ------------------------
(***************************************************************************)
(* The store's definition of crash safety: three versions of a dictionary, *)
(* and a crash falls back to the persistent one.  A sync request made by   *)
(* the user may be answered once everything that was in the ephemeral      *)
(* version when it was made is in the persistent version.                  *)
(*                                                                         *)
(* The label of a transition is the value uiop takes in it.                *)
(***************************************************************************)
EXTENDS Journal

VARIABLES
    s1,                  \* persistent dictionary
    s2,                  \* frozen dictionary
    s3,                  \* ephemeral dictionary
    outstandingSyncReqs,
    uiop                 \* what the user saw of the last transition

vars == <<s1, s2, s3, outstandingSyncReqs, uiop>>

Init ==
    /\ s1 = EmptyMap
    /\ s2 = s1
    /\ s3 = s1
    /\ outstandingSyncReqs = NoSyncReqs
    /\ uiop = NoOp

\* Faulty variant: the frozen version survives.
Crash_KeepsFrozen ==
    /\ uiop' = CrashOp
    /\ s3' = s1
    /\ outstandingSyncReqs' = NoSyncReqs
    /\ UNCHANGED <<s1, s2>>

Crash ==
    /\ uiop' = CrashOp
    /\ s2' = s1
    /\ s3' = s1
    /\ outstandingSyncReqs' = NoSyncReqs
    /\ UNCHANGED s1

\* The frozen version becomes persistent.
Move1to2 ==
    /\ uiop' = NoOp
    /\ s1' = s2
    /\ outstandingSyncReqs' = SyncReqs2to1(outstandingSyncReqs)
    /\ UNCHANGED <<s2, s3>>

\* The ephemeral version is frozen.
Move2to3 ==
    /\ uiop' = NoOp
    /\ s2' = s3
    /\ outstandingSyncReqs' = SyncReqs3to2(outstandingSyncReqs)
    /\ UNCHANGED <<s1, s3>>

\* A user operation on the ephemeral version.
Move3 ==
    /\ \E op \in MapOps(s3) :
          /\ uiop' = op
          /\ s3' = MapStep(s3, op)
    /\ UNCHANGED <<s1, s2, outstandingSyncReqs>>

PushSync(id) ==
    /\ outstandingSyncReqs[id] = "NoReq"
    /\ uiop' = PushSyncOp(id)
    /\ outstandingSyncReqs' = [outstandingSyncReqs EXCEPT ![id] = "State3"]
    /\ UNCHANGED <<s1, s2, s3>>

\* Faulty variant: answers when the data is frozen.
PopSync_Early(id) ==
    /\ outstandingSyncReqs[id] \in {"State1", "State2"}
    /\ uiop' = PopSyncOp(id)
    /\ outstandingSyncReqs' = [outstandingSyncReqs EXCEPT ![id] = "NoReq"]
    /\ UNCHANGED <<s1, s2, s3>>

PopSync(id) ==
    /\ outstandingSyncReqs[id] = "State1"
    /\ uiop' = PopSyncOp(id)
    /\ outstandingSyncReqs' = [outstandingSyncReqs EXCEPT ![id] = "NoReq"]
    /\ UNCHANGED <<s1, s2, s3>>

Next ==
    \/ Crash
    \/ Move1to2
    \/ Move2to3
    \/ Move3
    \/ \E id \in SyncId : PushSync(id)
    \/ \E id \in SyncId : PopSync(id)

Spec == Init /\ [][Next]_vars
=============================================================================
