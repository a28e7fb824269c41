------------------------- MODULE CrashSafetyProofs -------------------------
(***************************************************************************)
(* Proofs that the crash-safety properties of CrashSafety hold for every   *)
(* set of keys, values and sync requests, and for histories of any length. *)
(***************************************************************************)
EXTENDS CrashSafety, JournalTheorems, TLAPS

\* A history is a prefix of itself.
LEMMA PrefixRefl ==
    ASSUME NEW E, NEW s \in Seq(E)
    PROVE  IsPrefix(s, s)
  BY DEF IsPrefix

\* The element-wise form of IsPrefix.
LEMMA PrefixElements ==
    ASSUME NEW E, NEW s \in Seq(E), NEW t \in Seq(E)
    PROVE  IsPrefix(s, t) <=> /\ Len(s) <= Len(t)
                              /\ \A i \in 1..Len(s) : t[i] = s[i]
<1>1. ASSUME Len(s) <= Len(t)
      PROVE  (SubSeq(t, 1, Len(s)) = s) <=> \A i \in 1..Len(s) : t[i] = s[i]
  <2> DEFINE p == SubSeq(t, 1, Len(s))
  <2>1. p \in Seq(E) /\ Len(p) = Len(s) /\ \A i \in 1..Len(s) : p[i] = t[i]
    BY <1>1
  <2> HIDE DEF p
  <2>2. ASSUME \A i \in 1..Len(s) : t[i] = s[i]
        PROVE  p = s
    BY <2>1, <2>2, SeqEqual
  <2>3. ASSUME p = s
        PROVE  \A i \in 1..Len(s) : t[i] = s[i]
    BY <2>1, <2>3
  <2> QED
    BY <2>2, <2>3 DEF p
<1> QED
  BY <1>1 DEF IsPrefix

\* Being a prefix is transitive.
LEMMA PrefixTrans ==
    ASSUME NEW E, NEW s \in Seq(E), NEW t \in Seq(E), NEW u \in Seq(E),
           IsPrefix(s, t), IsPrefix(t, u)
    PROVE  IsPrefix(s, u)
<1>1. Len(s) <= Len(t) /\ \A i \in 1..Len(s) : t[i] = s[i]
  BY PrefixElements
<1>2. Len(t) <= Len(u) /\ \A i \in 1..Len(t) : u[i] = t[i]
  BY PrefixElements
<1>3. Len(s) <= Len(u) /\ \A i \in 1..Len(s) : u[i] = s[i]
  BY <1>1, <1>2
<1> QED
  BY <1>3, PrefixElements

\* A history is a prefix of what it grows to.
LEMMA PrefixConcat ==
    ASSUME NEW E, NEW s \in Seq(E), NEW t \in Seq(E)
    PROVE  s \o t \in Seq(E) /\ IsPrefix(s, s \o t)
<1> DEFINE c == s \o t
<1>1. c \in Seq(E) /\ Len(s) <= Len(c) /\ \A i \in 1..Len(s) : c[i] = s[i]
  OBVIOUS
<1> HIDE DEF c
<1>2. IsPrefix(s, c)
  BY <1>1, PrefixElements
<1> QED
  BY <1>1, <1>2 DEF c

-----------------------------------------------------------------------------
(***************************************************************************)
(* The inductive invariant: the four properties together.  AckedSyncsSurvive *)
(* needs the status of pending syncs to be truthful, that needs the        *)
(* versions to be prefixes of each other.                                  *)
(***************************************************************************)
Inv == TypeOK /\ VersionsArePrefixes /\ SyncStatusIsTruthful /\ AckedSyncsSurvive

\* The invariant holds of a new store.
LEMMA InitInv == HInit => Inv
<1> SUFFICES ASSUME HInit PROVE Inv
  OBVIOUS
<1>1. EmptyMap \in State
  BY EmptyValueAssumption DEF EmptyMap, State
<1>2. << >> \in Seq(JournalEntry)
  OBVIOUS
<1>3. IsPrefix(<< >>, << >>)
  BY DEF IsPrefix
<1>4. ApplySeq(EmptyMap, << >>) = EmptyMap
  BY <1>1, ApplySeqEmpty
<1>5. TypeOK
  BY <1>1, <1>2 DEF HInit, Init, TypeOK, NoSyncReqs, SyncReqStatus
<1>6. VersionsArePrefixes
  BY <1>3, <1>4, Zenon DEF HInit, Init, VersionsArePrefixes
<1>7. SyncStatusIsTruthful
  BY DEF HInit, Init, SyncStatusIsTruthful, NoSyncReqs
<1> QED
  BY <1>5, <1>6, <1>7 DEF Inv, HInit, AckedSyncsSurvive

\* A crash makes all versions the persistent one and forgets the syncs.
LEMMA CrashInv == Inv /\ HCrash => Inv'
<1> SUFFICES ASSUME Inv, HCrash PROVE Inv'
  OBVIOUS
<1> USE DEF Inv, HCrash, Crash
<1>1. TypeOK'
  BY DEF TypeOK, NoSyncReqs, SyncReqStatus
<1>2. IsPrefix(h1, h1)
  BY PrefixRefl DEF TypeOK
<1>3. VersionsArePrefixes'
  BY <1>2, Zenon DEF VersionsArePrefixes
<1>4. SyncStatusIsTruthful'
  BY DEF SyncStatusIsTruthful, NoSyncReqs
<1>5. AckedSyncsSurvive'
  BY DEF AckedSyncsSurvive
<1> QED
  BY <1>1, <1>3, <1>4, <1>5

\* When the frozen version becomes persistent, what was acknowledged is in it.
LEMMA Move1to2Inv == Inv /\ HMove1to2 => Inv'
<1> SUFFICES ASSUME Inv, HMove1to2 PROVE Inv'
  OBVIOUS
<1> USE DEF Inv, HMove1to2, Move1to2
<1>1. TypeOK'
  BY DEF TypeOK, SyncReqs2to1, SyncReqStatus
<1>2. IsPrefix(h2, h2)
  BY PrefixRefl DEF TypeOK
<1>3. VersionsArePrefixes'
  BY <1>2, Zenon DEF VersionsArePrefixes
<1>4. ASSUME NEW h \in Seq(JournalEntry), IsPrefix(h, h1)
      PROVE  IsPrefix(h, h2)
  BY <1>4, PrefixTrans DEF TypeOK, VersionsArePrefixes
<1>5. SyncStatusIsTruthful'
  BY <1>4 DEF TypeOK, SyncStatusIsTruthful, SyncReqs2to1
<1>6. AckedSyncsSurvive'
  BY <1>4 DEF TypeOK, AckedSyncsSurvive
<1> QED
  BY <1>1, <1>3, <1>5, <1>6

\* When the ephemeral version is frozen, every pending sync is covered by it.
LEMMA Move2to3Inv == Inv /\ HMove2to3 => Inv'
<1> SUFFICES ASSUME Inv, HMove2to3 PROVE Inv'
  OBVIOUS
<1> USE DEF Inv, HMove2to3, Move2to3
<1>1. TypeOK'
  BY DEF TypeOK, SyncReqs3to2, SyncReqStatus
<1>2. IsPrefix(h3, h3)
  BY PrefixRefl DEF TypeOK
<1>3. IsPrefix(h1, h3)
  BY PrefixTrans DEF TypeOK, VersionsArePrefixes
<1>4. VersionsArePrefixes'
  BY <1>2, <1>3, Zenon DEF VersionsArePrefixes
<1>5. ASSUME NEW h \in Seq(JournalEntry), IsPrefix(h, h2)
      PROVE  IsPrefix(h, h3)
  BY <1>5, PrefixTrans DEF TypeOK, VersionsArePrefixes
<1>6. SyncStatusIsTruthful'
  BY <1>5 DEF TypeOK, SyncStatusIsTruthful, SyncReqs3to2
<1>7. AckedSyncsSurvive'
  BY DEF AckedSyncsSurvive
<1> QED
  BY <1>1, <1>4, <1>6, <1>7

\* A user operation extends the ephemeral version's history at its end.
LEMMA Move3Inv == Inv /\ HMove3 => Inv'
<1> SUFFICES ASSUME Inv, HMove3 PROVE Inv'
  OBVIOUS
<1> DEFINE new == JournalEntriesForUIOp(uiop')
<1>1. PICK op \in MapOps(s3) : uiop' = op /\ s3' = MapStep(s3, op)
  BY DEF HMove3, Move3
<1>2. /\ new \in Seq(JournalEntry)
      /\ s3' = ApplySeq(s3, new)
      /\ s3' \in State
  BY <1>1, MapStepIsApplySeq DEF Inv, TypeOK
<1>3. h3' = h3 \o new
  BY DEF HMove3
<1> HIDE DEF new
<1>4. h3' \in Seq(JournalEntry) /\ IsPrefix(h3, h3')
  BY <1>2, <1>3, PrefixConcat DEF Inv, TypeOK
<1>5. TypeOK'
  BY <1>2, <1>4 DEF Inv, TypeOK, HMove3, Move3
<1>6. ASSUME NEW h \in Seq(JournalEntry), IsPrefix(h, h3)
      PROVE  IsPrefix(h, h3')
  BY <1>4, <1>6, PrefixTrans DEF Inv, TypeOK
<1>7. s3' = ApplySeq(EmptyMap, h3')
  <2>1. EmptyMap \in State
    BY EmptyValueAssumption DEF EmptyMap, State
  <2>2. h3 \in Seq(JournalEntry) /\ s3 = ApplySeq(EmptyMap, h3)
    BY DEF Inv, TypeOK, VersionsArePrefixes
  <2>3. ApplySeq(EmptyMap, h3 \o new) = ApplySeq(ApplySeq(EmptyMap, h3), new)
    BY <2>1, <2>2, <1>2, ApplySeqAdditive
  <2> QED
    BY <2>2, <2>3, <1>2, <1>3, Zenon
<1>8. VersionsArePrefixes'
  <2>1. IsPrefix(h2, h3')
    BY <1>6 DEF Inv, TypeOK, VersionsArePrefixes
  <2>2. UNCHANGED <<s1, s2, h1, h2>>
    BY DEF HMove3, Move3
  <2> QED
    BY <1>7, <2>1, <2>2, Zenon DEF Inv, VersionsArePrefixes
<1>9. SyncStatusIsTruthful'
  BY <1>6 DEF Inv, TypeOK, SyncStatusIsTruthful, HMove3, Move3
<1>10. AckedSyncsSurvive'
  BY DEF Inv, AckedSyncsSurvive, HMove3
<1> QED
  BY <1>5, <1>8, <1>9, <1>10 DEF Inv

\* A sync is requested of the ephemeral version.
LEMMA PushSyncInv ==
    ASSUME NEW id \in SyncId, Inv, HPushSync(id)
    PROVE  Inv'
<1> USE DEF Inv, HPushSync, PushSync
<1>1. TypeOK'
  BY DEF TypeOK, SyncReqStatus
<1>2. IsPrefix(h3, h3)
  BY PrefixRefl DEF TypeOK
<1>3. VersionsArePrefixes'
  BY Zenon DEF VersionsArePrefixes
<1>4. SyncStatusIsTruthful'
  BY <1>2 DEF TypeOK, SyncStatusIsTruthful
<1>5. AckedSyncsSurvive'
  BY DEF AckedSyncsSurvive
<1> QED
  BY <1>1, <1>3, <1>4, <1>5

\* A sync is answered only when its updates are persistent.
LEMMA PopSyncInv ==
    ASSUME NEW id \in SyncId, Inv, HPopSync(id)
    PROVE  Inv'
<1> USE DEF Inv, HPopSync, PopSync
<1>1. TypeOK'
  BY DEF TypeOK, SyncReqStatus
<1>2. VersionsArePrefixes'
  BY Zenon DEF VersionsArePrefixes
<1>3. SyncStatusIsTruthful'
  BY DEF TypeOK, SyncStatusIsTruthful
<1>4. IsPrefix(pushed[id], h1)
  BY DEF SyncStatusIsTruthful
<1>5. AckedSyncsSurvive'
  BY <1>4 DEF AckedSyncsSurvive
<1> QED
  BY <1>1, <1>2, <1>3, <1>5

\* Every step preserves the invariant.
LEMMA NextInv == Inv /\ [HNext]_<<vars, hvars>> => Inv'
<1> SUFFICES ASSUME Inv, [HNext]_<<vars, hvars>> PROVE Inv'
  OBVIOUS
<1>1. CASE HCrash
  BY <1>1, CrashInv
<1>2. CASE HMove1to2
  BY <1>2, Move1to2Inv
<1>3. CASE HMove2to3
  BY <1>3, Move2to3Inv
<1>4. CASE HMove3
  BY <1>4, Move3Inv
<1>5. CASE \E id \in SyncId : HPushSync(id)
  BY <1>5, PushSyncInv
<1>6. CASE \E id \in SyncId : HPopSync(id)
  BY <1>6, PopSyncInv
<1>7. CASE UNCHANGED <<vars, hvars>>
  BY <1>7 DEF vars, hvars, Inv, TypeOK, VersionsArePrefixes, SyncStatusIsTruthful,
              AckedSyncsSurvive
<1> QED
  BY <1>1, <1>2, <1>3, <1>4, <1>5, <1>6, <1>7 DEF HNext

\* An answered sync survives every later crash of ThreeStateVersioned.
THEOREM AckedSyncsAlwaysSurvive == HSpec => []AckedSyncsSurvive
<1>1. Inv => AckedSyncsSurvive
  BY DEF Inv
<1> QED
  BY <1>1, InitInv, NextInv, PTL DEF HSpec

\* The versions of ThreeStateVersioned always hold prefixes of one history.
THEOREM VersionsAlwaysPrefixes == HSpec => []VersionsArePrefixes
<1>1. Inv => VersionsArePrefixes
  BY DEF Inv
<1> QED
  BY <1>1, InitInv, NextInv, PTL DEF HSpec

\* The history variables add no behaviour: what CrashSafety allows is what
\* ThreeStateVersioned allows.
THEOREM HistoryIsAuxiliary == HSpec => Spec
<1>1. HInit => Init
  BY DEF HInit
<1>2. [HNext]_<<vars, hvars>> => [Next]_vars
  BY DEF HNext, HCrash, HMove1to2, HMove2to3, HMove3, HPushSync, HPopSync, Next
<1> QED
  BY <1>1, <1>2, PTL DEF HSpec, Spec
=============================================================================
