------------------------ MODULE CompositeViewProofs ------------------------
(***************************************************************************)
(* The composite of JournalView and StatesView implements the crash-safe   *)
(* dictionary ThreeStateVersioned, for every set of keys, values,          *)
(* locations and sync requests and every journal length.                   *)
(*                                                                         *)
(* The inductive invariant is TypeOK /\ LocationsAgree /\ JournalsConnect. *)
(* LocationsAgree is needed because the two sides keep their own idea of   *)
(* which location is persistent: it makes the dictionary that the          *)
(* superblock names survive disk writes and crashes.  JournalsConnect is   *)
(* needed because gamma and delta are only used when the log is extended.  *)
(***************************************************************************)
EXTENDS CompositeView, JournalTheorems

\* What every step of the composition preserves.
Inv == TypeOK /\ LocationsAgree /\ JournalsConnect

\* The copies of the operators of Journal and MapSpec inside the instances.
LEMMA SameOperators ==
    /\ \A x : JV!SyncReqs2to1(x) = SyncReqs2to1(x) /\ TSV!SyncReqs2to1(x) = SyncReqs2to1(x)
    /\ \A x : JV!SyncReqs3to2(x) = SyncReqs3to2(x) /\ TSV!SyncReqs3to2(x) = SyncReqs3to2(x)
    /\ JV!NoSyncReqs = NoSyncReqs /\ TSV!NoSyncReqs = NoSyncReqs
    /\ \A x : JV!JournalEntriesForUIOp(x) = JournalEntriesForUIOp(x)
    /\ \A x : SV!MapOps(x) = MapOps(x) /\ TSV!MapOps(x) = MapOps(x)
    /\ \A x, y : SV!MapStep(x, y) = MapStep(x, y) /\ TSV!MapStep(x, y) = MapStep(x, y)
    /\ SV!EmptyMap = EmptyMap /\ TSV!EmptyMap = EmptyMap
    /\ SV!State = State
<1>1. \A x : JV!SyncReqs2to1(x) = SyncReqs2to1(x) /\ TSV!SyncReqs2to1(x) = SyncReqs2to1(x)
  BY DEF JV!SyncReqs2to1, SyncReqs2to1, TSV!SyncReqs2to1
<1>2. \A x : JV!SyncReqs3to2(x) = SyncReqs3to2(x) /\ TSV!SyncReqs3to2(x) = SyncReqs3to2(x)
  BY DEF JV!SyncReqs3to2, SyncReqs3to2, TSV!SyncReqs3to2
<1>3. JV!NoSyncReqs = NoSyncReqs /\ TSV!NoSyncReqs = NoSyncReqs
  BY DEF JV!NoSyncReqs, NoSyncReqs, TSV!NoSyncReqs
<1>4. \A x : JV!JournalEntriesForUIOp(x) = JournalEntriesForUIOp(x)
  BY DEF JV!JournalEntriesForUIOp, JournalEntriesForUIOp, JV!JournalInsert, JournalInsert
<1>5. \A x : SV!MapOps(x) = MapOps(x)
  BY DEF SV!MapOps, SV!Query, SV!Succ, SV!Write, SV!NoOp, SV!GetOp, SV!PutOp, SV!SuccOp, SV!SuccResults, SV!NonEmptyRange, SV!InRange, SV!LowerBound, SV!UpperBound,
         MapOps, Query, Succ, Write, NoOp, GetOp, PutOp, SuccOp, SuccResults, NonEmptyRange, InRange, LowerBound, UpperBound
<1>6. \A x : TSV!MapOps(x) = MapOps(x)
  BY DEF TSV!MapOps, TSV!Query, TSV!Succ, TSV!Write, TSV!NoOp, TSV!GetOp, TSV!PutOp, TSV!SuccOp, TSV!SuccResults, TSV!NonEmptyRange, TSV!InRange, TSV!LowerBound, TSV!UpperBound,
         MapOps, Query, Succ, Write, NoOp, GetOp, PutOp, SuccOp, SuccResults, NonEmptyRange, InRange, LowerBound, UpperBound
<1>7. \A x, y : SV!MapStep(x, y) = MapStep(x, y) /\ TSV!MapStep(x, y) = MapStep(x, y)
  BY DEF SV!MapStep, MapStep, TSV!MapStep
<1>8. SV!EmptyMap = EmptyMap /\ TSV!EmptyMap = EmptyMap /\ SV!State = State
  BY DEF SV!EmptyMap, EmptyMap, TSV!EmptyMap, SV!State, State
<1> QED
  BY <1>1, <1>2, <1>3, <1>4, <1>5, <1>6, <1>7, <1>8

\* The three stored dictionaries are complete maps.
LEMMA StoredDictionaries ==
    ASSUME TypeOK, LocationsAgree
    PROVE  s1 \in State /\ s2 \in State /\ s3 \in State
  BY DEF TypeOK, LocationsAgree, s1, s2, s3

\* The five journals are sequences of entries.
LEMMA JournalTypes ==
    ASSUME TypeOK
    PROVE  /\ j1 \in Seq(JournalEntry) /\ j2 \in Seq(JournalEntry)
           /\ j3 \in Seq(JournalEntry) /\ j_gamma \in Seq(JournalEntry)
           /\ j_delta \in Seq(JournalEntry)
  BY DEF TypeOK

\* JournalsConnect, with the replayed parts u and w of gamma and of j2 and
\* delta named.
LEMMA ReplayedParts ==
    ASSUME TypeOK, LocationsAgree, JournalsConnect
    PROVE  \E u, w \in Seq(JournalEntry) :
              /\ j_gamma = u \o j2 /\ s2 = ApplySeq(s1, u)
              /\ j2 \o j_delta = w \o j3 /\ s3 = ApplySeq(s2, w)
<1>1. /\ j1 \in Seq(JournalEntry) /\ j2 \in Seq(JournalEntry)
      /\ j3 \in Seq(JournalEntry) /\ j_gamma \in Seq(JournalEntry)
      /\ j_delta \in Seq(JournalEntry)
  BY JournalTypes
<1>2. s1 \in State /\ s2 \in State /\ s3 \in State
  BY StoredDictionaries
<1>3. j2 \o j_delta \in Seq(JournalEntry)
  BY <1>1
<1> DEFINE u == SeqSub(j_gamma, j2)
           w == SeqSub(j2 \o j_delta, j3)
<1>4. u \in Seq(JournalEntry) /\ j_gamma = u \o j2 /\ s2 = ApplySeq(s1, u)
  <2>1. Advances(s1, j_gamma, s2, j2)
    BY DEF JournalsConnect
  <2> QED
    BY <1>1, <1>2, <2>1, AdvancesElim
<1>5. w \in Seq(JournalEntry) /\ j2 \o j_delta = w \o j3 /\ s3 = ApplySeq(s2, w)
  <2> DEFINE jd == j2 \o j_delta
  <2>1. Advances(s2, jd, s3, j3)
    BY DEF JournalsConnect
  <2>2. jd \in Seq(JournalEntry)
    BY <1>3
  <2> HIDE DEF jd
  <2>3. /\ SeqSub(jd, j3) \in Seq(JournalEntry) /\ jd = SeqSub(jd, j3) \o j3
        /\ s3 = ApplySeq(s2, SeqSub(jd, j3))
    BY <1>1, <1>2, <2>1, <2>2, AdvancesElim
  <2> QED
    BY <2>3 DEF jd
<1> QED
  BY <1>4, <1>5

\* Promoting sync requests keeps their type.
LEMMA SyncReqTypes ==
    ASSUME NEW r \in [SyncId -> SyncReqStatus]
    PROVE  /\ SyncReqs2to1(r) \in [SyncId -> SyncReqStatus]
           /\ SyncReqs3to2(r) \in [SyncId -> SyncReqStatus]
  BY DEF SyncReqs2to1, SyncReqs3to2, SyncReqStatus

\* Whatever the disk writes do to other locations, the dictionary that the
\* superblock names stays readable, and so does the frozen one.
LEMMA DiskChangeKeepsVersions ==
    ASSUME TypeOK, LocationsAgree,
           NEW d \in [Loc -> State \cup {NoState}],
           SV!DiskChangesPreservesPersistentAndFrozen(d)
    PROVE  /\ d[persistentLoc] = disk[persistentLoc]
           /\ tsmFrozenLoc # NoLoc => d[tsmFrozenLoc] = disk[tsmFrozenLoc]
<1>1. CASE tsmPersistentLoc = NoLoc
  BY <1>1 DEF TypeOK, LocationsAgree, SV!DiskChangesPreservesPersistentAndFrozen
<1>2. CASE tsmPersistentLoc # NoLoc /\ persistentLoc = tsmPersistentLoc
  BY <1>2 DEF TypeOK, LocationsAgree, SV!DiskChangesPreservesPersistentAndFrozen
<1>3. CASE tsmPersistentLoc # NoLoc /\ persistentLoc = frozenLoc
  <2>1. frozenLoc # NoLoc
    BY <1>3, LocAssumption DEF TypeOK
  <2> QED
    BY <1>3, <2>1 DEF TypeOK, LocationsAgree, SV!DiskChangesPreservesPersistentAndFrozen
<1> QED
  BY <1>1, <1>2, <1>3 DEF LocationsAgree

-----------------------------------------------------------------------------
(***************************************************************************)
(* One lemma per action: the invariant is preserved and the step is a step *)
(* of the crash-safe dictionary.                                           *)
(***************************************************************************)

\* A crash: the ephemeral and the frozen version fall back to the persistent one.
LEMMA CrashStep ==
    ASSUME Inv, Crash
    PROVE  Inv' /\ TSV!Crash
<1> USE DEF Inv
<1>1. /\ vop' = JV!CrashVOp /\ j2' = j1 /\ j3' = j1 /\ j_gamma' = j1 /\ j_delta' = << >>
      /\ frozenLoc' = NoLoc /\ syncReqs' = NoSyncReqs
      /\ j1' = j1 /\ persistentLoc' = persistentLoc
  BY SameOperators DEF Crash, JV!JCrash
<1>2. /\ disk' \in [Loc -> State \cup {NoState}]
      /\ SV!DiskChangesPreservesPersistentAndFrozen(disk')
      /\ tsmPersistentLoc' = NoLoc /\ tsmFrozenLoc' = NoLoc
      /\ frozenState' = NoState /\ ephemeralState' = NoState
  BY SameOperators DEF Crash, SV!SCrash
<1>3. disk'[persistentLoc] = disk[persistentLoc]
  BY <1>2, DiskChangeKeepsVersions
<1>4. TypeOK'
  <2>1. << >> \in Seq(JournalEntry)
    OBVIOUS
  <2>2. NoSyncReqs \in [SyncId -> SyncReqStatus]
    BY DEF NoSyncReqs, SyncReqStatus
  <2> QED
    BY <1>1, <1>2, <2>1, <2>2 DEF TypeOK
<1>5. LocationsAgree'
  BY <1>1, <1>2, <1>3 DEF LocationsAgree
<1>6. s1' = s1 /\ s2' = s1 /\ s3' = s1
  BY <1>1, <1>2, <1>3 DEF s1, s2, s3
<1>7. JournalsConnect'
  <2>1. Advances(s1, j1, s1, j1) /\ j1 \o << >> = j1
    BY AdvancesRefl, StoredDictionaries, JournalTypes
  <2> QED
    BY <1>1, <1>6, <2>1 DEF JournalsConnect
<1>8. t1' = t1 /\ t2' = t1 /\ t3' = t1
  BY <1>1, <1>6 DEF t1, t2, t3
<1>9. UIOpOf(vop)' = TSV!CrashOp
  BY <1>1 DEF UIOpOf, JV!CrashVOp, TSV!CrashOp, CrashOp
<1> QED
  BY <1>1, <1>4, <1>5, <1>7, <1>8, <1>9, SameOperators DEF TSV!Crash

\* Steps that the user does not see and that keep the three versions.
LEMMA InvisibleStep ==
    ASSUME t1' = t1, t2' = t2, t3' = t3, syncReqs' = syncReqs,
           UIOpOf(vop)' = NoOp
    PROVE  TSV!Move3
<1>1. NoOp \in TSV!MapOps(t3) /\ TSV!MapStep(t3, NoOp) = t3
  BY SameOperators DEF MapOps, MapStep, NoOp
<1> QED
  BY <1>1 DEF TSV!Move3

\* Start-up: both views learn the persistent location, and the version found there is the persistent one.
LEMMA SendPersistentLocStep ==
    ASSUME Inv, SendPersistentLoc
    PROVE  Inv' /\ TSV!Move3
<1> USE DEF Inv
<1>1. /\ vop' = JV!SendPersistentLocOp(persistentLoc)
      /\ j1' = j1 /\ j2' = j2 /\ j3' = j3 /\ j_gamma' = j_gamma /\ j_delta' = j_delta
      /\ persistentLoc' = persistentLoc /\ frozenLoc' = frozenLoc /\ syncReqs' = syncReqs
  BY DEF SendPersistentLoc, JV!PresentPersistentLoc, JV!jvars
<1>2. /\ tsmPersistentLoc = NoLoc /\ disk[persistentLoc] # NoState
      /\ tsmPersistentLoc' = persistentLoc /\ ephemeralState' = disk[persistentLoc]
      /\ disk' = disk /\ tsmFrozenLoc' = tsmFrozenLoc /\ frozenState' = frozenState
  <2>1. PICK loc \in Loc :
           /\ vop' = SV!SendPersistentLocOp(loc) /\ disk[loc] # NoState
           /\ tsmPersistentLoc' = loc /\ ephemeralState' = disk[loc]
    BY DEF SendPersistentLoc, SV!ObtainPersistentLoc
  <2>2. loc = persistentLoc
    BY <1>1, <2>1 DEF SV!SendPersistentLocOp, JV!SendPersistentLocOp
  <2> QED
    BY <2>1, <2>2 DEF SendPersistentLoc, SV!ObtainPersistentLoc
<1>3. TypeOK'
  BY <1>1, <1>2 DEF TypeOK
<1>4. LocationsAgree'
  BY <1>1, <1>2, LocAssumption DEF LocationsAgree, TypeOK
<1>5. s1' = s1 /\ s2' = s2 /\ s3' = s3
  BY <1>1, <1>2 DEF s1, s2, s3, LocationsAgree, TypeOK
<1>6. JournalsConnect'
  BY <1>1, <1>5 DEF JournalsConnect
<1>7. t1' = t1 /\ t2' = t2 /\ t3' = t3
  BY <1>1, <1>5 DEF t1, t2, t3
<1>8. UIOpOf(vop)' = NoOp
  BY <1>1 DEF UIOpOf, JV!SendPersistentLocOp
<1> QED
  BY <1>1, <1>3, <1>4, <1>6, <1>7, <1>8, InvisibleStep

\* A disk change that spares the persistent and the frozen table changes no version.
LEMMA StatesInternalStep ==
    ASSUME Inv, StatesInternal
    PROVE  Inv' /\ TSV!Move3
<1> USE DEF Inv
<1>1. /\ vop' = SV!StatesInternalOp
      /\ j1' = j1 /\ j2' = j2 /\ j3' = j3 /\ j_gamma' = j_gamma /\ j_delta' = j_delta
      /\ persistentLoc' = persistentLoc /\ frozenLoc' = frozenLoc /\ syncReqs' = syncReqs
  BY DEF StatesInternal, JV!JStutter, SV!DiskChange, JV!jvars
<1>2. /\ disk' \in [Loc -> State \cup {NoState}]
      /\ SV!DiskChangesPreservesPersistentAndFrozen(disk')
      /\ tsmPersistentLoc' = tsmPersistentLoc /\ tsmFrozenLoc' = tsmFrozenLoc
      /\ frozenState' = frozenState /\ ephemeralState' = ephemeralState
  BY SameOperators DEF StatesInternal, SV!DiskChange
<1>3. /\ disk'[persistentLoc] = disk[persistentLoc]
      /\ tsmFrozenLoc # NoLoc => disk'[tsmFrozenLoc] = disk[tsmFrozenLoc]
  BY <1>2, DiskChangeKeepsVersions
<1>4. TypeOK'
  BY <1>1, <1>2 DEF TypeOK
<1>5. LocationsAgree'
  BY <1>1, <1>2, <1>3 DEF LocationsAgree
<1>6. s1' = s1 /\ s2' = s2 /\ s3' = s3
  BY <1>1, <1>2, <1>3 DEF s1, s2, s3
<1>7. JournalsConnect'
  BY <1>1, <1>6 DEF JournalsConnect
<1>8. t1' = t1 /\ t2' = t2 /\ t3' = t3
  BY <1>1, <1>6 DEF t1, t2, t3
<1>9. UIOpOf(vop)' = NoOp
  BY <1>1 DEF UIOpOf, SV!StatesInternalOp
<1> QED
  BY <1>1, <1>4, <1>5, <1>7, <1>8, <1>9, InvisibleStep

\* Reporting where the frozen table went changes no version.
LEMMA SendFrozenLocStep ==
    ASSUME Inv, SendFrozenLoc
    PROVE  Inv' /\ TSV!Move3
<1> USE DEF Inv
<1>1. PICK loc \in Loc : vop' = JV!SendFrozenLocOp(loc) /\ frozenLoc' = loc
  BY DEF SendFrozenLoc, JV!ObtainFrozenLoc
<1>2. /\ j1' = j1 /\ j2' = j2 /\ j3' = j3 /\ j_gamma' = j_gamma /\ j_delta' = j_delta
      /\ persistentLoc' = persistentLoc /\ syncReqs' = syncReqs
  BY DEF SendFrozenLoc, JV!ObtainFrozenLoc, JV!journals
<1>3. /\ tsmFrozenLoc = NoLoc /\ frozenState # NoState
      /\ disk[loc] = frozenState /\ tsmFrozenLoc' = loc
      /\ disk' = disk /\ tsmPersistentLoc' = tsmPersistentLoc
      /\ frozenState' = frozenState /\ ephemeralState' = ephemeralState
  <2>1. PICK loc2 \in Loc :
           vop' = SV!SendFrozenLocOp(loc2) /\ disk[loc2] = frozenState /\ tsmFrozenLoc' = loc2
    BY DEF SendFrozenLoc, SV!ProvideFrozenLoc
  <2>2. loc2 = loc
    BY <1>1, <2>1 DEF SV!SendFrozenLocOp, JV!SendFrozenLocOp
  <2> QED
    BY <2>1, <2>2 DEF SendFrozenLoc, SV!ProvideFrozenLoc
<1>4. TypeOK'
  BY <1>1, <1>2, <1>3 DEF TypeOK
<1>5. LocationsAgree'
  <2>1. frozenLoc = NoLoc
    BY <1>3 DEF LocationsAgree
  <2>2. tsmPersistentLoc # NoLoc => persistentLoc = tsmPersistentLoc
    BY <2>1, LocAssumption DEF LocationsAgree, TypeOK
  <2> QED
    BY <1>1, <1>2, <1>3, <2>2 DEF LocationsAgree
<1>6. s1' = s1 /\ s2' = s2 /\ s3' = s3
  BY <1>2, <1>3 DEF s1, s2, s3
<1>7. JournalsConnect'
  BY <1>2, <1>6 DEF JournalsConnect
<1>8. t1' = t1 /\ t2' = t2 /\ t3' = t3
  BY <1>2, <1>6 DEF t1, t2, t3
<1>9. UIOpOf(vop)' = NoOp
  BY <1>1 DEF UIOpOf, JV!SendFrozenLocOp
<1> QED
  BY <1>2, <1>4, <1>5, <1>7, <1>8, <1>9, InvisibleStep

\* Forgetting the old table changes no version: both views name the same one by then.
LEMMA CleanUpStep ==
    ASSUME Inv, CleanUp
    PROVE  Inv' /\ TSV!Move3
<1> USE DEF Inv
<1>1. /\ vop' = JV!CleanUpOp /\ frozenLoc = persistentLoc /\ frozenLoc' = NoLoc
      /\ j1' = j1 /\ j2' = j2 /\ j3' = j3 /\ j_gamma' = j_gamma /\ j_delta' = j_delta
      /\ persistentLoc' = persistentLoc /\ syncReqs' = syncReqs
  BY DEF CleanUp, JV!CleanUp, JV!journals
<1>2. /\ tsmPersistentLoc' = tsmFrozenLoc /\ tsmFrozenLoc' = NoLoc /\ frozenState' = NoState
      /\ disk' = disk /\ ephemeralState' = ephemeralState
  BY DEF CleanUp, SV!ForgetOld
<1>3. /\ tsmFrozenLoc = persistentLoc /\ persistentLoc # NoLoc
      /\ frozenState # NoState /\ disk[persistentLoc] = frozenState
  BY <1>1, LocAssumption DEF LocationsAgree, TypeOK
<1>4. TypeOK'
  BY <1>1, <1>2 DEF TypeOK
<1>5. LocationsAgree'
  BY <1>1, <1>2, <1>3 DEF LocationsAgree
<1>6. s1' = s1 /\ s2' = s2 /\ s3' = s3
  BY <1>1, <1>2, <1>3 DEF s1, s2, s3
<1>7. JournalsConnect'
  BY <1>1, <1>6 DEF JournalsConnect
<1>8. t1' = t1 /\ t2' = t2 /\ t3' = t3
  BY <1>1, <1>6 DEF t1, t2, t3
<1>9. UIOpOf(vop)' = NoOp
  BY <1>1 DEF UIOpOf, JV!CleanUpOp
<1> QED
  BY <1>1, <1>4, <1>5, <1>7, <1>8, <1>9, InvisibleStep

\* A freeze makes the ephemeral version the frozen one.
LEMMA FreezeStep ==
    ASSUME Inv, Freeze
    PROVE  Inv' /\ TSV!Move2to3
<1> USE DEF Inv
<1>1. /\ vop' = JV!FreezeOp /\ frozenLoc # persistentLoc
      /\ j2' = j3 /\ j_gamma' = j_gamma \o j_delta /\ j_delta' = << >> /\ frozenLoc' = NoLoc
      /\ syncReqs' = SyncReqs3to2(syncReqs)
      /\ j1' = j1 /\ j3' = j3 /\ persistentLoc' = persistentLoc
  BY SameOperators DEF Freeze, JV!Move2to3
<1>2. /\ tsmFrozenLoc' = NoLoc /\ frozenState' = ephemeralState
      /\ disk' = disk /\ tsmPersistentLoc' = tsmPersistentLoc /\ ephemeralState' = ephemeralState
  BY DEF Freeze, SV!Freeze
<1>3. TypeOK'
  <2>1. << >> \in Seq(JournalEntry) /\ j_gamma \o j_delta \in Seq(JournalEntry)
    BY JournalTypes
  <2>2. SyncReqs3to2(syncReqs) \in [SyncId -> SyncReqStatus]
    BY SyncReqTypes DEF TypeOK
  <2> QED
    BY <1>1, <1>2, <2>1, <2>2 DEF TypeOK
<1>4. LocationsAgree'
  BY <1>1, <1>2 DEF LocationsAgree
<1>5. s1' = s1 /\ s2' = s3 /\ s3' = s3
  BY <1>1, <1>2 DEF s1, s2, s3, LocationsAgree
<1>6. JournalsConnect'
  <2>1. PICK u, w \in Seq(JournalEntry) :
           /\ j_gamma = u \o j2 /\ s2 = ApplySeq(s1, u)
           /\ j2 \o j_delta = w \o j3 /\ s3 = ApplySeq(s2, w)
    BY ReplayedParts
  <2>2. /\ j2 \in Seq(JournalEntry) /\ j3 \in Seq(JournalEntry) /\ j_delta \in Seq(JournalEntry)
    BY JournalTypes
  <2>3. j_gamma \o j_delta = (u \o w) \o j3
    <3>1. (u \o j2) \o j_delta = u \o (j2 \o j_delta)
      BY <2>2, JournalConcatAssociative, Zenon
    <3>2. (u \o w) \o j3 = u \o (w \o j3)
      BY <2>2, JournalConcatAssociative, Zenon
    <3> QED
      BY <2>1, <3>1, <3>2
  <2>4. s3 = ApplySeq(s1, u \o w)
    BY <2>1, <2>2, ApplySeqAdditive, StoredDictionaries
  <2>5. u \o w \in Seq(JournalEntry)
    BY <2>1, <2>2
  <2>6. Advances(s1, j_gamma \o j_delta, s3, j3)
    BY <2>3, <2>4, <2>5, AdvancesIntro, StoredDictionaries, JournalTypes
  <2>7. Advances(s3, j3 \o << >>, s3, j3)
    <3>1. j3 \o << >> = j3
      BY JournalTypes
    <3> QED
      BY <3>1, AdvancesRefl, StoredDictionaries, JournalTypes
  <2> QED
    BY <1>1, <1>5, <2>6, <2>7 DEF JournalsConnect
<1>7. t1' = t1 /\ t2' = t3 /\ t3' = t3
  BY <1>1, <1>5 DEF t1, t2, t3
<1>8. UIOpOf(vop)' = TSV!NoOp
  BY <1>1 DEF UIOpOf, JV!FreezeOp, NoOp, TSV!NoOp
<1> QED
  BY <1>1, <1>3, <1>4, <1>6, <1>7, <1>8, SameOperators DEF TSV!Move2to3

\* The commit of a location makes the frozen version the persistent one.
LEMMA Move1to2Step ==
    ASSUME Inv, JV!Move1to2, SV!SStutter
    PROVE  Inv' /\ TSV!Move1to2
<1> USE DEF Inv
<1>1. /\ vop' = JV!JournalInternalOp /\ frozenLoc # NoLoc
      /\ j1' = j2 /\ j_gamma' = j2 /\ persistentLoc' = frozenLoc
      /\ syncReqs' = SyncReqs2to1(syncReqs)
      /\ j2' = j2 /\ j3' = j3 /\ j_delta' = j_delta /\ frozenLoc' = frozenLoc
  BY SameOperators DEF JV!Move1to2
<1>2. /\ disk' = disk /\ tsmPersistentLoc' = tsmPersistentLoc /\ tsmFrozenLoc' = tsmFrozenLoc
      /\ frozenState' = frozenState /\ ephemeralState' = ephemeralState
  BY DEF SV!SStutter, SV!svars
<1>3. frozenLoc \in Loc /\ frozenState # NoState /\ disk[frozenLoc] = frozenState
  BY <1>1 DEF TypeOK, LocationsAgree
<1>4. TypeOK'
  <2>1. SyncReqs2to1(syncReqs) \in [SyncId -> SyncReqStatus]
    BY SyncReqTypes DEF TypeOK
  <2> QED
    BY <1>1, <1>2, <1>3, <2>1 DEF TypeOK
<1>5. LocationsAgree'
  BY <1>1, <1>2, <1>3 DEF LocationsAgree
<1>6. s1' = s2 /\ s2' = s2 /\ s3' = s3
  BY <1>1, <1>2, <1>3 DEF s1, s2, s3, LocationsAgree
<1>7. JournalsConnect'
  <2>1. Advances(s2, j2, s2, j2)
    BY AdvancesRefl, StoredDictionaries, JournalTypes
  <2> QED
    BY <1>1, <1>6, <2>1 DEF JournalsConnect
<1>8. t1' = t2 /\ t2' = t2 /\ t3' = t3
  BY <1>1, <1>6 DEF t1, t2, t3
<1>9. UIOpOf(vop)' = TSV!NoOp
  BY <1>1 DEF UIOpOf, JV!JournalInternalOp, NoOp, TSV!NoOp
<1> QED
  BY <1>1, <1>4, <1>5, <1>7, <1>8, <1>9, SameOperators DEF TSV!Move1to2

\* The commit of the log makes the frozen version the persistent one, too.
LEMMA ExtendLog1Step ==
    ASSUME Inv, JV!ExtendLog1, SV!SStutter
    PROVE  Inv' /\ TSV!Move1to2
<1> USE DEF Inv
<1>1. /\ vop' = JV!JournalInternalOp /\ j1' = j_gamma
      /\ syncReqs' = SyncReqs2to1(syncReqs)
      /\ j2' = j2 /\ j3' = j3 /\ j_gamma' = j_gamma /\ j_delta' = j_delta
      /\ persistentLoc' = persistentLoc /\ frozenLoc' = frozenLoc
  BY SameOperators DEF JV!ExtendLog1
<1>2. /\ disk' = disk /\ tsmPersistentLoc' = tsmPersistentLoc /\ tsmFrozenLoc' = tsmFrozenLoc
      /\ frozenState' = frozenState /\ ephemeralState' = ephemeralState
  BY DEF SV!SStutter, SV!svars
<1>3. TypeOK'
  <2>1. SyncReqs2to1(syncReqs) \in [SyncId -> SyncReqStatus]
    BY SyncReqTypes DEF TypeOK
  <2> QED
    BY <1>1, <1>2, <2>1 DEF TypeOK
<1>4. LocationsAgree'
  BY <1>1, <1>2 DEF LocationsAgree
<1>5. s1' = s1 /\ s2' = s2 /\ s3' = s3
  BY <1>1, <1>2 DEF s1, s2, s3
<1>6. JournalsConnect'
  BY <1>1, <1>5 DEF JournalsConnect
<1>7. ApplySeq(s1, j_gamma) = ApplySeq(s2, j2)
  <2>1. Advances(s1, j_gamma, s2, j2)
    BY DEF JournalsConnect
  <2> QED
    BY <2>1, AdvancesSameEnd, StoredDictionaries, JournalTypes
<1>8. t1' = t2 /\ t2' = t2 /\ t3' = t3
  BY <1>1, <1>5, <1>7 DEF t1, t2, t3
<1>9. UIOpOf(vop)' = TSV!NoOp
  BY <1>1 DEF UIOpOf, JV!JournalInternalOp, NoOp, TSV!NoOp
<1> QED
  BY <1>1, <1>3, <1>4, <1>6, <1>8, <1>9, SameOperators DEF TSV!Move1to2

\* Entries on their way to the journal make the ephemeral version the frozen one.
LEMMA ExtendLog2Step ==
    ASSUME Inv, JV!ExtendLog2, SV!SStutter
    PROVE  Inv' /\ TSV!Move2to3
<1> USE DEF Inv
<1>1. /\ vop' = JV!JournalInternalOp /\ j2' = j2 \o j_delta
      /\ j_gamma' = j_gamma \o j_delta /\ j_delta' = << >>
      /\ syncReqs' = SyncReqs3to2(syncReqs) /\ j1' = j1 /\ j3' = j3
      /\ persistentLoc' = persistentLoc /\ frozenLoc' = frozenLoc
  BY SameOperators DEF JV!ExtendLog2
<1>2. /\ disk' = disk /\ tsmPersistentLoc' = tsmPersistentLoc /\ tsmFrozenLoc' = tsmFrozenLoc
      /\ frozenState' = frozenState /\ ephemeralState' = ephemeralState
  BY DEF SV!SStutter, SV!svars
<1>3. /\ << >> \in Seq(JournalEntry) /\ j_gamma \o j_delta \in Seq(JournalEntry)
      /\ j2 \o j_delta \in Seq(JournalEntry) /\ (j2 \o j_delta) \o << >> = j2 \o j_delta
  BY JournalTypes
<1>4. TypeOK'
  <2>1. SyncReqs3to2(syncReqs) \in [SyncId -> SyncReqStatus]
    BY SyncReqTypes DEF TypeOK
  <2> QED
    BY <1>1, <1>2, <1>3, <2>1 DEF TypeOK
<1>5. LocationsAgree'
  BY <1>1, <1>2 DEF LocationsAgree
<1>6. s1' = s1 /\ s2' = s2 /\ s3' = s3
  BY <1>1, <1>2 DEF s1, s2, s3
<1>7. JournalsConnect'
  <2>1. PICK u, w \in Seq(JournalEntry) :
           /\ j_gamma = u \o j2 /\ s2 = ApplySeq(s1, u)
           /\ j2 \o j_delta = w \o j3 /\ s3 = ApplySeq(s2, w)
    BY ReplayedParts
  <2>2. j_gamma \o j_delta = u \o (j2 \o j_delta)
    <3>1. j2 \in Seq(JournalEntry) /\ j_delta \in Seq(JournalEntry)
      BY JournalTypes
    <3>2. (u \o j2) \o j_delta = u \o (j2 \o j_delta)
      BY <3>1, JournalConcatAssociative, Zenon
    <3> QED
      BY <2>1, <3>2
  <2>3. Advances(s1, u \o (j2 \o j_delta), s2, j2 \o j_delta)
    BY <2>1, <1>3, AdvancesIntro, StoredDictionaries
  <2>4. Advances(s2, (j2 \o j_delta) \o << >>, s3, j3)
    BY <1>3 DEF JournalsConnect
  <2> QED
    BY <1>1, <1>6, <2>2, <2>3, <2>4 DEF JournalsConnect
<1>8. ApplySeq(s2, j2 \o j_delta) = ApplySeq(s3, j3)
  <2> DEFINE jd == j2 \o j_delta
  <2>1. Advances(s2, jd, s3, j3) /\ jd \in Seq(JournalEntry)
    BY <1>3 DEF JournalsConnect
  <2>2. s2 \in State /\ s3 \in State /\ j3 \in Seq(JournalEntry)
    BY StoredDictionaries, JournalTypes
  <2> HIDE DEF jd
  <2>3. ApplySeq(s2, jd) = ApplySeq(s3, j3)
    BY <2>1, <2>2, AdvancesSameEnd
  <2> QED
    BY <2>3 DEF jd
<1>9. t1' = t1 /\ t2' = t3 /\ t3' = t3
  BY <1>1, <1>6, <1>8 DEF t1, t2, t3
<1>10. UIOpOf(vop)' = TSV!NoOp
  BY <1>1 DEF UIOpOf, JV!JournalInternalOp, NoOp, TSV!NoOp
<1> QED
  BY <1>1, <1>4, <1>5, <1>7, <1>9, <1>10, SameOperators DEF TSV!Move2to3

\* A user operation changes the ephemeral version as the dictionary does.
LEMMA AdvanceStep ==
    ASSUME Inv, ephemeralState # NoState, Advance
    PROVE  Inv' /\ TSV!Move3
<1> USE DEF Inv
<1>1. PICK op \in MapOps(ephemeralState) : JV!Move3(op) /\ SV!Advance(op)
  BY DEF Advance
<1> DEFINE je == JournalEntriesForUIOp(op)
<1>2. /\ vop' = JV!AdvanceOp(op, FALSE) /\ j3 = << >> /\ j_delta' = j_delta \o je
      /\ j1' = j1 /\ j2' = j2 /\ j3' = j3 /\ j_gamma' = j_gamma
      /\ persistentLoc' = persistentLoc /\ frozenLoc' = frozenLoc /\ syncReqs' = syncReqs
  BY <1>1, SameOperators DEF JV!Move3
<1>3. /\ ephemeralState' = MapStep(ephemeralState, op)
      /\ disk' = disk /\ tsmPersistentLoc' = tsmPersistentLoc
      /\ tsmFrozenLoc' = tsmFrozenLoc /\ frozenState' = frozenState
  BY <1>1, SameOperators DEF SV!Advance
<1>4. ephemeralState \in State /\ s3 = ephemeralState
  BY DEF TypeOK, s3
<1>5. /\ je \in Seq(JournalEntry) /\ MapStep(s3, op) = ApplySeq(s3, je)
      /\ MapStep(s3, op) \in State
  BY <1>4, MapStepIsApplySeq
<1> HIDE DEF je
<1>6. TypeOK'
  <2>1. j_delta \o je \in Seq(JournalEntry)
    BY <1>5, JournalTypes
  <2> QED
    BY <1>2, <1>3, <1>4, <1>5, <2>1 DEF TypeOK
<1>7. ephemeralState' # NoState
  BY <1>3, <1>4, <1>5, NoStateAssumption
<1>8. LocationsAgree'
  BY <1>2, <1>3, <1>7 DEF LocationsAgree
<1>9. s1' = s1 /\ s2' = s2 /\ s3' = ApplySeq(s3, je)
  BY <1>2, <1>3, <1>4, <1>5, <1>7 DEF s1, s2, s3
<1>10. JournalsConnect'
  <2>1. PICK u, w \in Seq(JournalEntry) :
           /\ j_gamma = u \o j2 /\ s2 = ApplySeq(s1, u)
           /\ j2 \o j_delta = w \o j3 /\ s3 = ApplySeq(s2, w)
    BY ReplayedParts
  <2>2. j2 \in Seq(JournalEntry) /\ j_delta \in Seq(JournalEntry) /\ s2 \in State
    BY JournalTypes, StoredDictionaries
  <2>3. j2 \o (j_delta \o je) = (w \o je) \o << >>
    <3>1. (j2 \o j_delta) \o je = j2 \o (j_delta \o je)
      BY <1>5, <2>2, JournalConcatAssociative, Zenon
    <3>2. j2 \o j_delta = w
      BY <1>2, <2>1, SMTT(30)
    <3>3. w \o je \in Seq(JournalEntry)
      BY ONLY <1>5, <2>1
    <3>4. (w \o je) \o << >> = w \o je
      BY ONLY <3>3
    <3> QED
      BY ONLY <3>1, <3>2, <3>4, Zenon
  <2>4. ApplySeq(s3, je) = ApplySeq(s2, w \o je)
    BY <1>5, <2>1, <2>2, ApplySeqAdditive
  <2>5. w \o je \in Seq(JournalEntry) /\ << >> \in Seq(JournalEntry)
    BY <1>5, <2>1
  <2>6. Advances(s2, (w \o je) \o << >>, ApplySeq(s2, w \o je), << >>)
    BY <2>2, <2>5, AdvancesIntro
  <2> QED
    BY <1>2, <1>9, <2>3, <2>4, <2>6 DEF JournalsConnect
<1>11. t1' = t1 /\ t2' = t2 /\ t3 = s3 /\ t3' = MapStep(s3, op)
  <2>1. t3 = s3
    BY <1>2, <1>4, ApplySeqEmpty DEF t3
  <2>2. t3' = ApplySeq(s3', << >>)
    BY <1>2 DEF t3
  <2>3. s3' = MapStep(s3, op)
    BY <1>5, <1>9
  <2>4. t3' = MapStep(s3, op)
    BY <1>5, <2>2, <2>3, ApplySeqEmpty
  <2> QED
    BY <1>2, <1>9, <2>1, <2>4 DEF t1, t2
<1>12. UIOpOf(vop)' = op
  BY <1>2 DEF UIOpOf, JV!AdvanceOp
<1> QED
  BY <1>1, <1>2, <1>4, <1>6, <1>8, <1>10, <1>11, <1>12, SameOperators DEF TSV!Move3

\* A replayed operation leaves every version what it was.
LEMMA ReplayStep ==
    ASSUME Inv, ephemeralState # NoState, Replay
    PROVE  Inv' /\ TSV!Move3
<1> USE DEF Inv
<1>1. PICK op \in MapOps(ephemeralState) : JV!Replay(op) /\ SV!Advance(op)
  BY DEF Replay
<1> DEFINE je == JournalEntriesForUIOp(op)
<1>2. /\ vop' = JV!AdvanceOp(op, TRUE) /\ j3 = je \o j3'
      /\ j3' = SubSeq(j3, Len(je) + 1, Len(j3)) /\ Len(je) <= Len(j3)
      /\ j1' = j1 /\ j2' = j2 /\ j_gamma' = j_gamma /\ j_delta' = j_delta
      /\ persistentLoc' = persistentLoc /\ frozenLoc' = frozenLoc /\ syncReqs' = syncReqs
  BY <1>1, SameOperators DEF JV!Replay
<1>3. /\ ephemeralState' = MapStep(ephemeralState, op)
      /\ disk' = disk /\ tsmPersistentLoc' = tsmPersistentLoc
      /\ tsmFrozenLoc' = tsmFrozenLoc /\ frozenState' = frozenState
  BY <1>1, SameOperators DEF SV!Advance
<1>4. ephemeralState \in State /\ s3 = ephemeralState
  BY DEF TypeOK, s3
<1>5. /\ je \in Seq(JournalEntry) /\ MapStep(s3, op) = ApplySeq(s3, je)
      /\ MapStep(s3, op) \in State
  BY <1>4, MapStepIsApplySeq
<1> HIDE DEF je
<1>6. j3' \in Seq(JournalEntry)
  <2>1. j3 \in Seq(JournalEntry) /\ Len(j3) \in Nat /\ Len(je) \in Nat
    BY <1>5, JournalTypes
  <2>2. \A i \in Len(je) + 1..Len(j3) : j3[i] \in JournalEntry
    BY <2>1
  <2>3. Len(je) + 1 \in Int /\ Len(j3) \in Int
    BY <2>1
  <2> QED
    BY <1>2, <2>2, <2>3, SubSeqProperties
<1>7. TypeOK'
  BY <1>2, <1>3, <1>4, <1>5, <1>6 DEF TypeOK
<1>8. ephemeralState' # NoState
  BY <1>3, <1>4, <1>5, NoStateAssumption
<1>9. LocationsAgree'
  BY <1>2, <1>3, <1>8 DEF LocationsAgree
<1>10. s1' = s1 /\ s2' = s2 /\ s3' = ApplySeq(s3, je)
  BY <1>2, <1>3, <1>4, <1>5, <1>8 DEF s1, s2, s3
<1>11. JournalsConnect'
  <2>1. PICK u, w \in Seq(JournalEntry) :
           /\ j_gamma = u \o j2 /\ s2 = ApplySeq(s1, u)
           /\ j2 \o j_delta = w \o j3 /\ s3 = ApplySeq(s2, w)
    BY ReplayedParts
  <2>2. s2 \in State
    BY StoredDictionaries
  <2>3. j2 \o j_delta = (w \o je) \o j3'
    <3>1. (w \o je) \o j3' = w \o (je \o j3')
      BY <1>5, <1>6, JournalConcatAssociative, Zenon
    <3> QED
      BY <1>2, <2>1, <3>1
  <2>4. ApplySeq(s3, je) = ApplySeq(s2, w \o je)
    BY <1>5, <2>1, <2>2, ApplySeqAdditive
  <2>5. w \o je \in Seq(JournalEntry)
    BY <1>5, <2>1
  <2>6. Advances(s2, (w \o je) \o j3', ApplySeq(s2, w \o je), j3')
    BY <1>6, <2>2, <2>5, AdvancesIntro
  <2> QED
    BY <1>2, <1>10, <2>3, <2>4, <2>6 DEF JournalsConnect
<1>12. t1' = t1 /\ t2' = t2 /\ t3' = t3
  <2>1. t3' = ApplySeq(ApplySeq(s3, je), j3')
    BY <1>10 DEF t3
  <2>2. t3 = ApplySeq(s3, je \o j3')
    BY <1>2 DEF t3
  <2>3. t3' = t3
    BY <1>4, <1>5, <1>6, <2>1, <2>2, ApplySeqAdditive
  <2> QED
    BY <1>2, <1>10, <2>3 DEF t1, t2
<1>13. UIOpOf(vop)' = NoOp
  BY <1>2 DEF UIOpOf, JV!AdvanceOp
<1> QED
  BY <1>2, <1>7, <1>9, <1>11, <1>12, <1>13, InvisibleStep

\* When only sync requests and the label change, the versions do not.
LEMMA OnlySyncReqsChange ==
    ASSUME Inv, syncReqs' \in [SyncId -> SyncReqStatus],
           UNCHANGED <<j1, j2, j3, j_gamma, j_delta, persistentLoc, frozenLoc>>,
           UNCHANGED tsmVars
    PROVE  Inv' /\ t1' = t1 /\ t2' = t2 /\ t3' = t3
<1> USE DEF Inv, tsmVars
<1>1. TypeOK'
  BY DEF TypeOK
<1>2. LocationsAgree'
  BY DEF LocationsAgree
<1>3. s1' = s1 /\ s2' = s2 /\ s3' = s3
  BY DEF s1, s2, s3
<1>4. JournalsConnect'
  BY <1>3 DEF JournalsConnect
<1> QED
  BY <1>1, <1>2, <1>3, <1>4 DEF t1, t2, t3

\* A sync request starts out in the third state.
LEMMA PushSyncStep ==
    ASSUME Inv, PushSync
    PROVE  Inv' /\ \E id \in SyncId : TSV!PushSync(id)
<1>1. PICK id \in SyncId :
         /\ vop' = JV!PushSyncVOp(id) /\ syncReqs[id] = "NoReq"
         /\ syncReqs' = [syncReqs EXCEPT ![id] = "State3"]
  BY DEF PushSync, JV!PushSync
<1>2. syncReqs' \in [SyncId -> SyncReqStatus]
  BY <1>1 DEF Inv, TypeOK, SyncReqStatus
<1>3. /\ UNCHANGED <<j1, j2, j3, j_gamma, j_delta, persistentLoc, frozenLoc>>
      /\ UNCHANGED tsmVars
  BY DEF PushSync, JV!PushSync, JV!journals, SV!SStutter, SV!svars, tsmVars
<1>4. Inv' /\ t1' = t1 /\ t2' = t2 /\ t3' = t3
  BY <1>2, <1>3, OnlySyncReqsChange
<1>5. UIOpOf(vop)' = TSV!PushSyncOp(id)
  BY <1>1 DEF UIOpOf, JV!PushSyncVOp, TSV!PushSyncOp, PushSyncOp
<1>6. TSV!PushSync(id)
  BY <1>1, <1>4, <1>5 DEF TSV!PushSync
<1> QED
  BY <1>4, <1>6

\* A sync request is answered in the first state only.
LEMMA PopSyncStep ==
    ASSUME Inv, PopSync
    PROVE  Inv' /\ \E id \in SyncId : TSV!PopSync(id)
<1>1. PICK id \in SyncId :
         /\ vop' = JV!PopSyncVOp(id) /\ syncReqs[id] = "State1"
         /\ syncReqs' = [syncReqs EXCEPT ![id] = "NoReq"]
  BY DEF PopSync, JV!PopSync
<1>2. syncReqs' \in [SyncId -> SyncReqStatus]
  BY <1>1 DEF Inv, TypeOK, SyncReqStatus
<1>3. /\ UNCHANGED <<j1, j2, j3, j_gamma, j_delta, persistentLoc, frozenLoc>>
      /\ UNCHANGED tsmVars
  BY DEF PopSync, JV!PopSync, JV!journals, SV!SStutter, SV!svars, tsmVars
<1>4. Inv' /\ t1' = t1 /\ t2' = t2 /\ t3' = t3
  BY <1>2, <1>3, OnlySyncReqsChange
<1>5. UIOpOf(vop)' = TSV!PopSyncOp(id)
  BY <1>1 DEF UIOpOf, JV!PopSyncVOp, TSV!PopSyncOp, PopSyncOp
<1>6. TSV!PopSync(id)
  BY <1>1, <1>4, <1>5 DEF TSV!PopSync
<1> QED
  BY <1>4, <1>6

\* A step without effect changes no version.
LEMMA NoChangeStep ==
    ASSUME Inv, NoChange
    PROVE  Inv' /\ TSV!Move3
<1>1. vop'.type \in {"JournalInternalOp", "StatesInternalOp"}
  BY DEF NoChange, JV!JStutter, JV!JournalInternalOp, JV!StatesInternalOp
<1>2. /\ UNCHANGED <<j1, j2, j3, j_gamma, j_delta, persistentLoc, frozenLoc>>
      /\ syncReqs' = syncReqs /\ UNCHANGED tsmVars
  BY DEF NoChange, JV!JStutter, JV!jvars, SV!SStutter, SV!svars, tsmVars
<1>3. syncReqs' \in [SyncId -> SyncReqStatus]
  BY <1>2 DEF Inv, TypeOK
<1>4. Inv' /\ t1' = t1 /\ t2' = t2 /\ t3' = t3
  BY <1>2, <1>3, OnlySyncReqsChange
<1>5. UIOpOf(vop)' = NoOp
  BY <1>1 DEF UIOpOf
<1> QED
  BY <1>2, <1>4, <1>5, InvisibleStep

\* A fresh disk: an empty dictionary at some location, nothing loaded.
LEMMA InitStep ==
    ASSUME Init
    PROVE  Inv /\ TSV!Init
<1>1. PICK loc \in Loc : SV!SInit(loc) /\ JV!JInit(loc)
  BY DEF Init
<1>2. /\ j1 = << >> /\ j2 = << >> /\ j3 = << >> /\ j_gamma = << >> /\ j_delta = << >>
      /\ persistentLoc = loc /\ frozenLoc = NoLoc /\ syncReqs = NoSyncReqs
      /\ vop = JV!JournalInternalOp
  BY <1>1, SameOperators DEF JV!JInit
<1>3. /\ disk \in [Loc -> State \cup {NoState}] /\ disk[loc] = EmptyMap
      /\ tsmPersistentLoc = NoLoc /\ tsmFrozenLoc = NoLoc
      /\ frozenState = NoState /\ ephemeralState = NoState
  BY <1>1, SameOperators DEF SV!SInit, SV!NothingLoaded
<1>4. EmptyMap \in State /\ << >> \in Seq(JournalEntry)
  BY EmptyValueAssumption DEF EmptyMap, State
<1>5. TypeOK
  <2>1. NoSyncReqs \in [SyncId -> SyncReqStatus]
    BY DEF NoSyncReqs, SyncReqStatus
  <2> QED
    BY <1>2, <1>3, <1>4, <2>1 DEF TypeOK
<1>6. LocationsAgree
  BY <1>2, <1>3, <1>4, NoStateAssumption DEF LocationsAgree
<1>7. s1 = EmptyMap /\ s2 = EmptyMap /\ s3 = EmptyMap
  BY <1>2, <1>3 DEF s1, s2, s3
<1>8. JournalsConnect
  <2>1. Advances(EmptyMap, << >>, EmptyMap, << >>)
    BY <1>4, AdvancesRefl
  <2>2. << >> \o << >> = << >>
    BY <1>4, ConcatEmptySeq
  <2> QED
    BY <1>2, <1>7, <2>1, <2>2 DEF JournalsConnect
<1>9. t1 = EmptyMap /\ t2 = EmptyMap /\ t3 = EmptyMap
  BY <1>2, <1>4, <1>7, ApplySeqEmpty DEF t1, t2, t3
<1>10. UIOpOf(vop) = TSV!NoOp
  BY <1>2 DEF UIOpOf, JV!JournalInternalOp, NoOp, TSV!NoOp
<1> QED
  BY <1>2, <1>5, <1>6, <1>8, <1>9, <1>10, SameOperators DEF Inv, TSV!Init

\* Every step keeps the invariant and is a step of the crash-safe dictionary.
LEMMA NextStep ==
    ASSUME Inv, Next
    PROVE  Inv' /\ TSV!Next
<1>1. CASE SendPersistentLoc
  BY <1>1, SendPersistentLocStep DEF TSV!Next
<1>2. CASE ephemeralState # NoState /\ Advance
  BY <1>2, AdvanceStep DEF TSV!Next
<1>3. CASE ephemeralState # NoState /\ Replay
  BY <1>3, ReplayStep DEF TSV!Next
<1>4. CASE Crash
  BY <1>4, CrashStep DEF TSV!Next
<1>5. CASE Freeze
  BY <1>5, FreezeStep DEF TSV!Next
<1>6. CASE StatesInternal
  BY <1>6, StatesInternalStep DEF TSV!Next
<1>7. CASE JournalInternal
  BY <1>7, Move1to2Step, ExtendLog1Step, ExtendLog2Step DEF JournalInternal, TSV!Next
<1>8. CASE SendFrozenLoc
  BY <1>8, SendFrozenLocStep DEF TSV!Next
<1>9. CASE CleanUp
  BY <1>9, CleanUpStep DEF TSV!Next
<1>10. CASE PushSync
  BY <1>10, PushSyncStep DEF TSV!Next
<1>11. CASE PopSync
  BY <1>11, PopSyncStep DEF TSV!Next
<1>12. CASE NoChange
  BY <1>12, NoChangeStep DEF TSV!Next
<1> QED
  BY <1>1, <1>2, <1>3, <1>4, <1>5, <1>6, <1>7, <1>8, <1>9, <1>10, <1>11, <1>12 DEF Next

\* Nor does a stuttering step.
LEMMA StutterStep ==
    ASSUME Inv, UNCHANGED vars
    PROVE  Inv' /\ UNCHANGED TSV!vars
<1>1. /\ UNCHANGED <<j1, j2, j3, j_gamma, j_delta, persistentLoc, frozenLoc>>
      /\ UNCHANGED tsmVars /\ syncReqs' = syncReqs /\ vop' = vop
  BY DEF vars, jcVars, tsmVars
<1>2. syncReqs' \in [SyncId -> SyncReqStatus]
  BY <1>1 DEF Inv, TypeOK
<1>3. Inv' /\ t1' = t1 /\ t2' = t2 /\ t3' = t3
  BY <1>1, <1>2, OnlySyncReqsChange
<1> QED
  BY <1>1, <1>3 DEF TSV!vars, UIOpOf

-----------------------------------------------------------------------------
\* The journal side and the states side of the store always agree about
\* locations, and their journals always connect their dictionaries: no
\* interleaving of freezing, writing back, log extension, clean-up and crashes
\* breaks CompositeView.Inv.
THEOREM CompositeInvariant == Spec => []Inv
<1>1. Init => Inv
  BY InitStep
<1>2. Inv /\ [Next]_vars => Inv'
  BY NextStep, StutterStep
<1> QED
  BY <1>1, <1>2, PTL DEF Spec

\* No disk write, crash or clean-up can lose the dictionary that the
\* superblock names (the location part of CompositeView.Inv).
THEOREM LocationsAlwaysAgree == Spec => []LocationsAgree
<1>1. Inv => LocationsAgree
  BY DEF Inv
<1> QED
  BY <1>1, CompositeInvariant, PTL

\* The five journals always connect the three dictionaries (TSJ.Inv): whatever
\* is committed, frozen, replayed or lost, replaying gamma less j2 on the
\* persistent dictionary gives the frozen one, and j2 and delta less j3 on the
\* frozen one give the ephemeral one.
THEOREM JournalsAlwaysConnect == Spec => []JournalsConnect
<1>1. Inv => JournalsConnect
  BY DEF Inv
<1> QED
  BY <1>1, CompositeInvariant, PTL

\* The store is a crash-safe dictionary: journal and states side together
\* implement ThreeStateVersioned, the user's labels included
\* (CompositeView_Refines_ThreeStateVersionedMap).
THEOREM CompositeRefinement == Spec => RefinesThreeStateVersioned
<1>1. Init => TSV!Init
  BY InitStep
<1>2. Inv /\ [Next]_vars => [TSV!Next]_(TSV!vars)
  BY NextStep, StutterStep
<1> QED
  BY <1>1, <1>2, CompositeInvariant, PTL DEF Spec, TSV!Spec, RefinesThreeStateVersioned
=============================================================================
