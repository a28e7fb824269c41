---------------------------- MODULE CrashSafety ----------------------------
(***************************************************************************)
(* What ThreeStateVersioned is worth to a user.  The specification is the  *)
(* one of ThreeStateVersioned with history variables added: the updates    *)
(* each version contains, the updates that were visible when a sync was    *)
(* requested, and the updates each answered sync promised.  Every step     *)
(* is a step of ThreeStateVersioned (theorem HistoryIsAuxiliary).   *)
(***************************************************************************)
EXTENDS ThreeStateVersioned

CONSTANT MaxHistory \* bound: updates in the ephemeral version

ASSUME MaxHistoryAssumption == MaxHistory \in Nat

VARIABLES
    h1, h2, h3, \* the updates in s1, s2 and s3, in order
    pushed,     \* sync id -> h3 when the sync was requested
    acked       \* the pushed histories of the syncs that were answered

hvars == <<h1, h2, h3, pushed, acked>>

IsPrefix(s, t) == Len(s) <= Len(t) /\ SubSeq(t, 1, Len(s)) = s

HInit ==
    /\ Init
    /\ h1 = << >>
    /\ h2 = << >>
    /\ h3 = << >>
    /\ pushed = [id \in SyncId |-> << >>]
    /\ acked = {}

HCrash ==
    /\ Crash
    /\ h2' = h1
    /\ h3' = h1
    /\ pushed' = [id \in SyncId |-> << >>]
    /\ UNCHANGED <<h1, acked>>

HMove1to2 == Move1to2 /\ h1' = h2 /\ UNCHANGED <<h2, h3, pushed, acked>>

HMove2to3 == Move2to3 /\ h2' = h3 /\ UNCHANGED <<h1, h3, pushed, acked>>

HMove3 ==
    /\ Move3
    /\ h3' = h3 \o JournalEntriesForUIOp(uiop')
    /\ Len(h3') <= MaxHistory
    /\ UNCHANGED <<h1, h2, pushed, acked>>

HPushSync(id) ==
    PushSync(id) /\ pushed' = [pushed EXCEPT ![id] = h3] /\ UNCHANGED <<h1, h2, h3, acked>>

HPopSync(id) ==
    /\ PopSync(id)
    /\ acked' = acked \cup {pushed[id]}
    /\ pushed' = [pushed EXCEPT ![id] = << >>]
    /\ UNCHANGED <<h1, h2, h3>>

HNext ==
    \/ HCrash
    \/ HMove1to2
    \/ HMove2to3
    \/ HMove3
    \/ \E id \in SyncId : HPushSync(id)
    \/ \E id \in SyncId : HPopSync(id)

HSpec == HInit /\ [][HNext]_<<vars, hvars>>

-----------------------------------------------------------------------------
\* Type invariant.
TypeOK ==
    /\ {s1, s2, s3} \subseteq State
    /\ {h1, h2, h3} \subseteq Seq(JournalEntry)
    /\ outstandingSyncReqs \in [SyncId -> SyncReqStatus]
    /\ pushed \in [SyncId -> Seq(JournalEntry)]
    /\ acked \subseteq Seq(JournalEntry)

\* Each version is the empty dictionary after a prefix of the updates in the
\* next one: no version ever has an update without the ones before it.
VersionsArePrefixes ==
    /\ s1 = ApplySeq(EmptyMap, h1)
    /\ s2 = ApplySeq(EmptyMap, h2)
    /\ s3 = ApplySeq(EmptyMap, h3)
    /\ IsPrefix(h1, h2)
    /\ IsPrefix(h2, h3)

\* The status of a pending sync is truthful about how far its updates got.
SyncStatusIsTruthful ==
    \A id \in SyncId :
       /\ outstandingSyncReqs[id] = "State1" => IsPrefix(pushed[id], h1)
       /\ outstandingSyncReqs[id] = "State2" => IsPrefix(pushed[id], h2)
       /\ outstandingSyncReqs[id] = "State3" => IsPrefix(pushed[id], h3)

\* Everything the user had done before asking for a sync that was answered is
\* in the persistent version, and stays in it over all later crashes.
AckedSyncsSurvive == \A h \in acked : IsPrefix(h, h1)
=============================================================================
