------------------------- MODULE BetreeJournalSystem -------------------------
(***************************************************************************)
(* The whole store: BetreeSystem and JournalSystem side by side, taking    *)
(* every step together under one label, and the proofs that their product  *)
(* implements CompositeView and with it the crash-safe dictionary.  The    *)
(* theorems rest on the invariants and refinements that are proved of each *)
(* side alone; the label is all that the sides share.                      *)
(***************************************************************************)
EXTENDS BetreeSpec, TLAPS

CONSTANTS
    NodeLoc, ReqId, HavocNode, HavocTable,              \* of BetreeSystem
    NumJournalBlocks, MaxInMemory, MaxBlocksPerWrite,   \* of JournalSystem
    UnsetPositions, CounterModulus, HavocBlock

VARIABLES
    bc,   \* the machine's cache of the tree
    reqReadTables, reqReadNodes, reqWriteTables, reqWriteNodes, tables, nodes,
    jc,   \* the machine's cache of the journal
    reqReadSuperblock, reqReadJournals, reqWriteSuperblock, reqWriteJournals,
    superblock, journal,
    vop

\* The label as the journal's side writes it: an operation that leaves no entry
\* is NoOp to it, whatever the tree answered.
JournalLabel(v) ==
    IF v.type = "AdvanceOp" /\ v.uiop \notin Write THEN AdvanceOp(NoOp, v.replay) ELSE v

\* The two sides, each with its invariant and its refinement.
BS == INSTANCE BetreeSystemProofs WITH machine <- bc
JS == INSTANCE JournalSystemProofs WITH machine <- jc, vop <- JournalLabel(vop)

\* Every variable of both sides.
vars == <<BS!vars, JS!vars>>

\* Both sides start from the table that the superblocks name.
InitWithLoc(loc) == BS!InitWithLoc(loc) /\ JS!InitWithLoc(loc)

\* Some location is the one that both sides start from.
Init == \E loc \in Loc : InitWithLoc(loc)

\* A step is a step of both sides under one label.
Next == BS!Next /\ JS!Next

\* The whole store.
Spec == Init /\ [][Next]_vars

\* What the two sides together are to implement.
CV == INSTANCE CompositeViewProofs
        WITH j1 <- JS!PersistentJournal, j2 <- JS!FrozenJournal, j3 <- JS!EphemeralJournal,
             j_gamma <- JS!GammaJournal, j_delta <- JS!DeltaJournal,
             persistentLoc <- JS!PersistentLoc, frozenLoc <- JS!FrozenLoc,
             syncReqs <- JS!SyncReqs,
             disk <- BS!DiskState, frozenState <- BS!FrozenState,
             ephemeralState <- BS!EphemeralState,
             tsmPersistentLoc <- BS!PersistentLoc, tsmFrozenLoc <- BS!FrozenLoc

\* The store implements the composition of the two views.
RefinesCompositeView == CV!Spec

\* The two halves of the machine agree (BlockJournalCache.Inv).
CachesAgree ==
    /\ JS!LoadingSuperblock => BS!Unready
    /\ (JS!Ready /\ jc.isFrozen) <=> (BS!Ready /\ bc.frozen # None)
    /\ JS!Ready /\ jc.frozenLoc # NoLoc =>
          BS!Ready /\ bc.frozenLoc = jc.frozenLoc /\ bc.tableWrite = None

-----------------------------------------------------------------------------
\* What the two sides and the view assume of the constants, besides what holds
\* of them here already.
ConstantsOK ==
    /\ NumJournalBlocks \in Nat \ {0}
    /\ MaxInMemory \in Nat
    /\ MaxBlocksPerWrite \in Nat \ {0}
    /\ UnsetPositions \subseteq 0..NumJournalBlocks
    /\ CounterModulus \in Nat \ {0, 1, 2}
    /\ HavocBlock \subseteq JS!Block \cup {None}
    /\ None \notin ReqId \cup JS!Block \cup JS!SuperblockSet \cup JS!IntervalSet
    /\ HavocNode \subseteq BS!Node \cup {None}
    /\ HavocTable \subseteq BS!Table \cup {None}
    /\ None \notin Loc \cup NodeLoc \cup BS!Node \cup BS!Table \cup [ref : Ref, loc : NodeLoc]
    /\ \A refs \in SUBSET Ref : refs # None

\* The assumptions of the instances.
LEMMA BetreeAssumptions ==
    ASSUME ConstantsOK
    PROVE  /\ BS!KeyAssumption /\ BS!EmptyValueAssumption
           /\ BS!LocAssumption /\ BS!MaxJournalAssumption /\ BS!NoStateAssumption
           /\ BS!RootAssumption /\ BS!FiniteAssumption
           /\ BS!NoneAssumption /\ BS!HavocAssumption
<1>1. /\ BS!KeyAssumption /\ BS!EmptyValueAssumption /\ BS!LocAssumption /\ BS!MaxJournalAssumption
      /\ BS!NoStateAssumption /\ BS!RootAssumption
  BY KeyAssumption, EmptyValueAssumption, LocAssumption, MaxJournalAssumption,
     NoStateAssumption, RootAssumption
     DEF State, BS!State, BS!KeyAssumption, BS!EmptyValueAssumption, BS!LocAssumption,
         BS!MaxJournalAssumption, BS!NoStateAssumption, BS!RootAssumption
<1>2. BS!FiniteAssumption
  BY FiniteAssumption DEF BS!FiniteAssumption, IsFiniteSet, BS!IsFiniteSet
<1>3. BS!NoneAssumption /\ BS!HavocAssumption
  BY DEF ConstantsOK, BS!NoneAssumption, BS!HavocAssumption
<1> QED
  BY <1>1, <1>2, <1>3

\* The assumptions of the journal side.
LEMMA JournalAssumptions ==
    ASSUME ConstantsOK
    PROVE  /\ JS!KeyAssumption /\ JS!EmptyValueAssumption
           /\ JS!LocAssumption /\ JS!MaxJournalAssumption /\ JS!NoStateAssumption
           /\ JS!NumJournalBlocksAssumption /\ JS!BoundsAssumption /\ JS!CounterAssumption
           /\ JS!NoneAssumption /\ JS!HavocAssumption
  BY KeyAssumption, EmptyValueAssumption, LocAssumption, MaxJournalAssumption, NoStateAssumption
     DEF ConstantsOK, State, JS!State, JS!KeyAssumption, JS!EmptyValueAssumption, JS!LocAssumption,
         JS!MaxJournalAssumption, JS!NoStateAssumption, JS!NumJournalBlocksAssumption,
         JS!BoundsAssumption, JS!CounterAssumption, JS!NoneAssumption, JS!HavocAssumption

\* The assumptions of the view.
LEMMA ViewAssumptions ==
    /\ CV!KeyAssumption /\ CV!EmptyValueAssumption
    /\ CV!LocAssumption /\ CV!MaxJournalAssumption /\ CV!NoStateAssumption
  BY KeyAssumption, EmptyValueAssumption, LocAssumption, MaxJournalAssumption, NoStateAssumption
     DEF State, CV!State, CV!KeyAssumption, CV!EmptyValueAssumption, CV!LocAssumption,
         CV!MaxJournalAssumption, CV!NoStateAssumption


\* The copies of the operators inside the instances.
LEMMA SameLabels ==
    /\ JS!JV!StatesInternalOp = StatesInternalOp /\ BS!SV!StatesInternalOp = StatesInternalOp
    /\ CV!JV!StatesInternalOp = StatesInternalOp /\ CV!SV!StatesInternalOp = StatesInternalOp
    /\ JS!JV!JournalInternalOp = JournalInternalOp /\ BS!SV!JournalInternalOp = JournalInternalOp
    /\ CV!JV!JournalInternalOp = JournalInternalOp /\ CV!SV!JournalInternalOp = JournalInternalOp
    /\ JS!JV!FreezeOp = FreezeOp /\ BS!SV!FreezeOp = FreezeOp
    /\ CV!JV!FreezeOp = FreezeOp /\ CV!SV!FreezeOp = FreezeOp
    /\ JS!JV!CleanUpOp = CleanUpOp /\ BS!SV!CleanUpOp = CleanUpOp
    /\ CV!JV!CleanUpOp = CleanUpOp /\ CV!SV!CleanUpOp = CleanUpOp
    /\ JS!JV!CrashVOp = CrashVOp /\ BS!SV!CrashVOp = CrashVOp
    /\ CV!JV!CrashVOp = CrashVOp /\ CV!SV!CrashVOp = CrashVOp
    /\ \A x : /\ JS!JV!SendPersistentLocOp(x) = SendPersistentLocOp(x) /\ BS!SV!SendPersistentLocOp(x) = SendPersistentLocOp(x)
              /\ CV!JV!SendPersistentLocOp(x) = SendPersistentLocOp(x) /\ CV!SV!SendPersistentLocOp(x) = SendPersistentLocOp(x)
    /\ \A x : /\ JS!JV!SendFrozenLocOp(x) = SendFrozenLocOp(x) /\ BS!SV!SendFrozenLocOp(x) = SendFrozenLocOp(x)
              /\ CV!JV!SendFrozenLocOp(x) = SendFrozenLocOp(x) /\ CV!SV!SendFrozenLocOp(x) = SendFrozenLocOp(x)
    /\ \A x : /\ JS!JV!PushSyncVOp(x) = PushSyncVOp(x) /\ BS!SV!PushSyncVOp(x) = PushSyncVOp(x)
              /\ CV!JV!PushSyncVOp(x) = PushSyncVOp(x) /\ CV!SV!PushSyncVOp(x) = PushSyncVOp(x)
    /\ \A x : /\ JS!JV!PopSyncVOp(x) = PopSyncVOp(x) /\ BS!SV!PopSyncVOp(x) = PopSyncVOp(x)
              /\ CV!JV!PopSyncVOp(x) = PopSyncVOp(x) /\ CV!SV!PopSyncVOp(x) = PopSyncVOp(x)
    /\ \A x, y : /\ JS!JV!AdvanceOp(x, y) = AdvanceOp(x, y) /\ BS!SV!AdvanceOp(x, y) = AdvanceOp(x, y)
                 /\ CV!JV!AdvanceOp(x, y) = AdvanceOp(x, y) /\ CV!SV!AdvanceOp(x, y) = AdvanceOp(x, y)
  BY DEF StatesInternalOp, JournalInternalOp, FreezeOp, CleanUpOp, CrashVOp,
     SendPersistentLocOp, SendFrozenLocOp, PushSyncVOp, PopSyncVOp, AdvanceOp,
     JS!JV!StatesInternalOp, JS!JV!JournalInternalOp, JS!JV!FreezeOp, JS!JV!CleanUpOp,
     JS!JV!CrashVOp, JS!JV!SendPersistentLocOp, JS!JV!SendFrozenLocOp, JS!JV!PushSyncVOp,
     JS!JV!PopSyncVOp, JS!JV!AdvanceOp, BS!SV!StatesInternalOp, BS!SV!JournalInternalOp,
     BS!SV!FreezeOp, BS!SV!CleanUpOp, BS!SV!CrashVOp, BS!SV!SendPersistentLocOp,
     BS!SV!SendFrozenLocOp, BS!SV!PushSyncVOp, BS!SV!PopSyncVOp, BS!SV!AdvanceOp,
     CV!JV!StatesInternalOp, CV!JV!JournalInternalOp, CV!JV!FreezeOp, CV!JV!CleanUpOp,
     CV!JV!CrashVOp, CV!JV!SendPersistentLocOp, CV!JV!SendFrozenLocOp, CV!JV!PushSyncVOp,
     CV!JV!PopSyncVOp, CV!JV!AdvanceOp, CV!SV!StatesInternalOp, CV!SV!JournalInternalOp,
     CV!SV!FreezeOp, CV!SV!CleanUpOp, CV!SV!CrashVOp, CV!SV!SendPersistentLocOp,
     CV!SV!SendFrozenLocOp, CV!SV!PushSyncVOp, CV!SV!PopSyncVOp, CV!SV!AdvanceOp

\* The same for the operators of the views.
LEMMA SameOperators ==
    /\ \A x : JS!JV!SyncReqs2to1(x) = CV!JV!SyncReqs2to1(x)
    /\ \A x : JS!JV!SyncReqs3to2(x) = CV!JV!SyncReqs3to2(x)
    /\ JS!JV!NoSyncReqs = CV!JV!NoSyncReqs
    /\ \A x : JS!JV!JournalEntriesForUIOp(x) = CV!JV!JournalEntriesForUIOp(x)
    /\ JS!JV!Write = Write /\ JS!JV!NoOp = NoOp
    /\ \A x : BS!SV!MapOps(x) = CV!SV!MapOps(x) /\ CV!MapOps(x) = CV!SV!MapOps(x)
    /\ \A x, y : BS!SV!MapStep(x, y) = CV!SV!MapStep(x, y)
    /\ BS!SV!EmptyMap = CV!SV!EmptyMap
    /\ BS!SV!State = CV!SV!State
<1>1. /\ \A x : JS!JV!SyncReqs2to1(x) = CV!JV!SyncReqs2to1(x)
      /\ \A x : JS!JV!SyncReqs3to2(x) = CV!JV!SyncReqs3to2(x)
      /\ JS!JV!NoSyncReqs = CV!JV!NoSyncReqs
  BY DEF JS!JV!SyncReqs2to1, CV!JV!SyncReqs2to1, JS!JV!SyncReqs3to2, CV!JV!SyncReqs3to2,
     JS!JV!NoSyncReqs, CV!JV!NoSyncReqs
<1>2. \A x : JS!JV!JournalEntriesForUIOp(x) = CV!JV!JournalEntriesForUIOp(x)
  BY DEF JS!JV!JournalEntriesForUIOp, CV!JV!JournalEntriesForUIOp, JS!JV!JournalInsert,
     CV!JV!JournalInsert
<1>3. JS!JV!Write = Write /\ JS!JV!NoOp = NoOp
  BY DEF JS!JV!Write, Write, JS!JV!PutOp, PutOp, JS!JV!NoOp, NoOp
<1>4. \A x : BS!SV!MapOps(x) = CV!SV!MapOps(x)
  BY DEF BS!SV!MapOps, BS!SV!Query, BS!SV!Succ, BS!SV!Write, BS!SV!NoOp, BS!SV!GetOp,
     BS!SV!PutOp, BS!SV!SuccOp, BS!SV!SuccResults, BS!SV!NonEmptyRange, BS!SV!InRange,
     BS!SV!LowerBound, BS!SV!UpperBound, CV!SV!MapOps, CV!SV!Query, CV!SV!Succ, CV!SV!Write,
     CV!SV!NoOp, CV!SV!GetOp, CV!SV!PutOp, CV!SV!SuccOp, CV!SV!SuccResults, CV!SV!NonEmptyRange,
     CV!SV!InRange, CV!SV!LowerBound, CV!SV!UpperBound
<1>5. \A x : CV!MapOps(x) = CV!SV!MapOps(x)
  BY DEF CV!MapOps, CV!Query, CV!Succ, CV!Write, CV!NoOp, CV!GetOp, CV!PutOp, CV!SuccOp,
     CV!SuccResults, CV!NonEmptyRange, CV!InRange, CV!LowerBound, CV!UpperBound, CV!SV!MapOps,
     CV!SV!Query, CV!SV!Succ, CV!SV!Write, CV!SV!NoOp, CV!SV!GetOp, CV!SV!PutOp, CV!SV!SuccOp,
     CV!SV!SuccResults, CV!SV!NonEmptyRange, CV!SV!InRange, CV!SV!LowerBound, CV!SV!UpperBound
<1>6. \A x, y : BS!SV!MapStep(x, y) = CV!SV!MapStep(x, y)
  BY DEF BS!SV!MapStep, CV!SV!MapStep
<1>7. BS!SV!EmptyMap = CV!SV!EmptyMap /\ BS!SV!State = CV!SV!State
  BY DEF BS!SV!EmptyMap, CV!SV!EmptyMap, BS!SV!State, CV!SV!State
<1> QED
  BY <1>1, <1>2, <1>3, <1>4, <1>5, <1>6, <1>7


\* The states side of a step is the composite's.
LEMMA StatesSide ==
    /\ BS!SV!ObtainPersistentLoc => CV!SV!ObtainPersistentLoc
    /\ \A op : BS!SV!Advance(op) => CV!SV!Advance(op)
    /\ BS!SV!SCrash => CV!SV!SCrash
    /\ BS!SV!Freeze => CV!SV!Freeze
    /\ BS!SV!DiskChange => CV!SV!DiskChange
    /\ BS!SV!ProvideFrozenLoc => CV!SV!ProvideFrozenLoc
    /\ BS!SV!ForgetOld => CV!SV!ForgetOld
    /\ BS!SV!SStutter => CV!SV!SStutter
<1>1. /\ BS!SV!ObtainPersistentLoc => CV!SV!ObtainPersistentLoc
      /\ BS!SV!ProvideFrozenLoc => CV!SV!ProvideFrozenLoc
  BY SameLabels DEF BS!SV!ObtainPersistentLoc, CV!SV!ObtainPersistentLoc,
     BS!SV!ProvideFrozenLoc, CV!SV!ProvideFrozenLoc
<1>2. \A op : BS!SV!Advance(op) => CV!SV!Advance(op)
  BY SameLabels, SameOperators DEF BS!SV!Advance, CV!SV!Advance
<1>3. (BS!SV!SCrash => CV!SV!SCrash) /\ (BS!SV!DiskChange => CV!SV!DiskChange)
  BY SameLabels, SameOperators DEF BS!SV!SCrash, CV!SV!SCrash, BS!SV!DiskChange, CV!SV!DiskChange,
     BS!SV!DiskChangesPreservesPersistentAndFrozen, CV!SV!DiskChangesPreservesPersistentAndFrozen
<1>4. /\ BS!SV!Freeze => CV!SV!Freeze
      /\ BS!SV!ForgetOld => CV!SV!ForgetOld
      /\ BS!SV!SStutter => CV!SV!SStutter
  BY SameLabels DEF BS!SV!Freeze, CV!SV!Freeze, BS!SV!ForgetOld, CV!SV!ForgetOld,
     BS!SV!SStutter, CV!SV!SStutter,
     BS!SV!svars, CV!SV!svars
<1> QED
  BY <1>1, <1>2, <1>3, <1>4

\* So is the journal side, when both sides write the label alike.
LEMMA JournalSide ==
    ASSUME JournalLabel(vop)' = vop'
    PROVE  /\ JS!JV!JStutter => CV!JV!JStutter
           /\ JS!JV!PresentPersistentLoc => CV!JV!PresentPersistentLoc
           /\ JS!JV!ObtainFrozenLoc => CV!JV!ObtainFrozenLoc
           /\ JS!JV!CleanUp => CV!JV!CleanUp
           /\ JS!JV!JCrash => CV!JV!JCrash
           /\ JS!JV!Move1to2 => CV!JV!Move1to2
           /\ JS!JV!Move2to3 => CV!JV!Move2to3
           /\ JS!JV!ExtendLog1 => CV!JV!ExtendLog1
           /\ JS!JV!ExtendLog2 => CV!JV!ExtendLog2
           /\ JS!JV!PushSync => CV!JV!PushSync
           /\ JS!JV!PopSync => CV!JV!PopSync
<1>1. /\ JS!JV!JStutter => CV!JV!JStutter
      /\ JS!JV!PresentPersistentLoc => CV!JV!PresentPersistentLoc
      /\ JS!JV!ObtainFrozenLoc => CV!JV!ObtainFrozenLoc
      /\ JS!JV!CleanUp => CV!JV!CleanUp
  BY SameLabels DEF JS!JV!JStutter, CV!JV!JStutter, JS!JV!PresentPersistentLoc,
     CV!JV!PresentPersistentLoc,
     JS!JV!ObtainFrozenLoc, CV!JV!ObtainFrozenLoc, JS!JV!CleanUp, CV!JV!CleanUp, JS!JV!jvars,
     CV!JV!jvars,
     JS!JV!journals, CV!JV!journals
<1>2. /\ JS!JV!JCrash => CV!JV!JCrash
      /\ JS!JV!Move1to2 => CV!JV!Move1to2
      /\ JS!JV!Move2to3 => CV!JV!Move2to3
  BY SameLabels, SameOperators DEF JS!JV!JCrash, CV!JV!JCrash, JS!JV!Move1to2, CV!JV!Move1to2,
     JS!JV!Move2to3, CV!JV!Move2to3
<1>3. /\ JS!JV!ExtendLog1 => CV!JV!ExtendLog1
      /\ JS!JV!ExtendLog2 => CV!JV!ExtendLog2
  BY SameLabels, SameOperators DEF JS!JV!ExtendLog1, CV!JV!ExtendLog1, JS!JV!ExtendLog2,
     CV!JV!ExtendLog2
<1>4. (JS!JV!PushSync => CV!JV!PushSync) /\ (JS!JV!PopSync => CV!JV!PopSync)
  BY SameLabels DEF JS!JV!PushSync, CV!JV!PushSync, JS!JV!PopSync, CV!JV!PopSync,
     JS!JV!journals, CV!JV!journals
<1> QED
  BY <1>1, <1>2, <1>3, <1>4

\* What a label of the journal side says of the label.
LEMMA LabelOf ==
    /\ JournalLabel(vop)'.type = vop'.type
    /\ vop'.type # "AdvanceOp" => JournalLabel(vop)' = vop'
  BY DEF JournalLabel, AdvanceOp

\* The types of the labels of the states side's steps.
LEMMA StatesLabels ==
    /\ BS!SV!ObtainPersistentLoc => vop'.type = "SendPersistentLocOp"
    /\ \A op : BS!SV!Advance(op) => vop'.type = "AdvanceOp"
    /\ BS!SV!SCrash => vop'.type = "CrashOp"
    /\ BS!SV!Freeze => vop'.type = "FreezeOp"
    /\ BS!SV!DiskChange => vop'.type = "StatesInternalOp"
    /\ BS!SV!ProvideFrozenLoc => vop'.type = "SendFrozenLocOp"
    /\ BS!SV!ForgetOld => vop'.type = "CleanUpOp"
    /\ BS!SV!SStutter => vop'.type \in {"JournalInternalOp", "StatesInternalOp", "PushSyncOp", "PopSyncOp"}
  BY SameLabels DEF BS!SV!ObtainPersistentLoc, BS!SV!Advance, BS!SV!SCrash, BS!SV!Freeze,
     BS!SV!DiskChange,
     BS!SV!ProvideFrozenLoc, BS!SV!ForgetOld, BS!SV!SStutter, SendPersistentLocOp,
     SendFrozenLocOp, StatesInternalOp, JournalInternalOp, FreezeOp, CleanUpOp, CrashVOp,
     PushSyncVOp, PopSyncVOp, AdvanceOp

\* And of the journal side's.
LEMMA JournalLabels ==
    /\ JS!JV!JStutter => vop'.type \in {"JournalInternalOp", "StatesInternalOp"}
    /\ JS!JV!PresentPersistentLoc => vop'.type = "SendPersistentLocOp"
    /\ JS!JV!ObtainFrozenLoc => vop'.type = "SendFrozenLocOp"
    /\ JS!JV!CleanUp => vop'.type = "CleanUpOp"
    /\ JS!JV!JCrash => vop'.type = "CrashOp"
    /\ JS!JV!Move1to2 \/ JS!JV!ExtendLog1 \/ JS!JV!ExtendLog2 => vop'.type = "JournalInternalOp"
    /\ JS!JV!Move2to3 => vop'.type = "FreezeOp"
    /\ \A op : JS!JV!Move3(op) \/ JS!JV!Replay(op) => vop'.type = "AdvanceOp"
    /\ JS!JV!PushSync => vop'.type = "PushSyncOp"
    /\ JS!JV!PopSync => vop'.type = "PopSyncOp"
<1>1. JS!JV!JStutter => vop'.type \in {"JournalInternalOp", "StatesInternalOp"}
  BY SameLabels, LabelOf DEF JS!JV!JStutter, JournalInternalOp, StatesInternalOp
<1>2. /\ JS!JV!PresentPersistentLoc => vop'.type = "SendPersistentLocOp"
      /\ JS!JV!ObtainFrozenLoc => vop'.type = "SendFrozenLocOp"
  BY SameLabels, LabelOf DEF JS!JV!PresentPersistentLoc, JS!JV!ObtainFrozenLoc,
     SendPersistentLocOp, SendFrozenLocOp
<1>3. /\ JS!JV!CleanUp => vop'.type = "CleanUpOp"
      /\ JS!JV!JCrash => vop'.type = "CrashOp"
      /\ JS!JV!Move2to3 => vop'.type = "FreezeOp"
  BY SameLabels, LabelOf DEF JS!JV!CleanUp, JS!JV!JCrash, JS!JV!Move2to3, CleanUpOp, CrashVOp,
     FreezeOp
<1>4. JS!JV!Move1to2 \/ JS!JV!ExtendLog1 \/ JS!JV!ExtendLog2 => vop'.type = "JournalInternalOp"
  BY SameLabels, LabelOf DEF JS!JV!Move1to2, JS!JV!ExtendLog1, JS!JV!ExtendLog2, JournalInternalOp
<1>5. \A op : JS!JV!Move3(op) \/ JS!JV!Replay(op) => vop'.type = "AdvanceOp"
  <2> SUFFICES ASSUME NEW op, JS!JV!Move3(op) \/ JS!JV!Replay(op) PROVE vop'.type = "AdvanceOp"
    OBVIOUS
  <2>1. \E r \in BOOLEAN : JournalLabel(vop)' = AdvanceOp(op, r)
    BY SameLabels DEF JS!JV!Move3, JS!JV!Replay
  <2> QED
    BY <2>1, LabelOf DEF AdvanceOp
<1>6. (JS!JV!PushSync => vop'.type = "PushSyncOp") /\ (JS!JV!PopSync => vop'.type = "PopSyncOp")
  BY SameLabels, LabelOf DEF JS!JV!PushSync, JS!JV!PopSync, PushSyncVOp, PopSyncVOp
<1> QED
  BY <1>1, <1>2, <1>3, <1>4, <1>5, <1>6

\* A user operation: the journal side writes the entries of the operation that
\* the tree performed, which are none for a query.
LEMMA AdvanceTogether ==
    ASSUME vop'.type = "AdvanceOp", BS!SV!Advance(vop'.uiop),
           \E op \in JS!JV!Write \cup {JS!JV!NoOp} : JS!JV!Move3(op) \/ JS!JV!Replay(op)
    PROVE  BS!EphemeralState # NoState /\ (CV!Advance \/ CV!Replay)
<1> DEFINE op == vop'.uiop
<1>1. PICK replay \in BOOLEAN : vop' = AdvanceOp(op, replay)
  BY SameLabels DEF BS!SV!Advance
<1>2. CV!SV!Advance(op) /\ BS!EphemeralState # NoState /\ op \in CV!MapOps(BS!EphemeralState)
  BY StatesSide, SameOperators DEF BS!SV!Advance
<1>3. PICK entry \in Write \cup {NoOp} : JS!JV!Move3(entry) \/ JS!JV!Replay(entry)
  BY SameOperators
<1>4. JournalLabel(vop)' = AdvanceOp(IF op \in Write THEN op ELSE NoOp, replay)
  BY <1>1 DEF JournalLabel, AdvanceOp
<1>5. entry = (IF op \in Write THEN op ELSE NoOp)
  <2>1. \E r \in BOOLEAN : JournalLabel(vop)' = AdvanceOp(entry, r)
    BY <1>3, SameLabels DEF JS!JV!Move3, JS!JV!Replay
  <2> QED
    BY <1>4, <2>1 DEF AdvanceOp
<1>6. CV!JV!JournalEntriesForUIOp(entry) = CV!JV!JournalEntriesForUIOp(op)
  <2>1. CASE op \in Write
    BY <1>5, <2>1
  <2>2. CASE op \notin Write
    <3>1. op.type # "PutOp"
      BY <1>2, <2>2 DEF CV!MapOps, CV!Query, CV!Succ, CV!Write, CV!NoOp, CV!GetOp, CV!SuccOp,
         CV!PutOp, Write, PutOp
    <3>2. entry.type # "PutOp"
      BY <1>5, <2>2 DEF NoOp
    <3> QED
      BY <3>1, <3>2 DEF CV!JV!JournalEntriesForUIOp
  <2> QED
    BY <2>1, <2>2
<1>7. CASE JS!JV!Move3(entry)
  <2>1. JournalLabel(vop)' = AdvanceOp(entry, FALSE)
    BY <1>7, SameLabels DEF JS!JV!Move3
  <2>2. vop' = AdvanceOp(op, FALSE)
    BY <1>1, <1>4, <2>1 DEF AdvanceOp
  <2>3. CV!JV!Move3(op)
    BY <1>6, <1>7, <2>2, SameLabels, SameOperators DEF JS!JV!Move3, CV!JV!Move3
  <2> QED
    BY <1>2, <2>3 DEF CV!Advance
<1>8. CASE JS!JV!Replay(entry)
  <2>1. JournalLabel(vop)' = AdvanceOp(entry, TRUE)
    BY <1>8, SameLabels DEF JS!JV!Replay
  <2>2. vop' = AdvanceOp(op, TRUE)
    BY <1>1, <1>4, <2>1 DEF AdvanceOp
  <2>3. CV!JV!Replay(op)
    BY <1>6, <1>8, <2>2, SameLabels, SameOperators DEF JS!JV!Replay, CV!JV!Replay
  <2> QED
    BY <1>2, <2>3 DEF CV!Replay
<1> QED
  BY <1>2, <1>3, <1>7, <1>8

\* A step of the one view and a step of the other under one label are a step of
\* the composite.
LEMMA TogetherView ==
    ASSUME BS!ViewStep, JS!JV!JNext
    PROVE  CV!Next
<1>1. CASE \E op \in JS!JV!Write \cup {JS!JV!NoOp} : JS!JV!Move3(op) \/ JS!JV!Replay(op)
  <2>1. vop'.type = "AdvanceOp"
    BY <1>1, JournalLabels
  <2>2. BS!SV!Advance(vop'.uiop)
    BY <2>1, StatesLabels DEF BS!ViewStep
  <2> QED
    BY <1>1, <2>1, <2>2, AdvanceTogether DEF CV!Next
<1>2. CASE JS!JV!PresentPersistentLoc \/ JS!JV!ObtainFrozenLoc \/ JS!JV!CleanUp
  BY <1>2, JournalLabels, StatesLabels, LabelOf, JournalSide, StatesSide
     DEF BS!ViewStep, CV!Next, CV!SendPersistentLoc, CV!SendFrozenLoc, CV!CleanUp
<1>3. CASE JS!JV!JCrash \/ JS!JV!Move2to3
  BY <1>3, JournalLabels, StatesLabels, LabelOf, JournalSide, StatesSide
     DEF BS!ViewStep, CV!Next, CV!Crash, CV!Freeze
<1>4. CASE JS!JV!Move1to2 \/ JS!JV!ExtendLog1 \/ JS!JV!ExtendLog2
  BY <1>4, JournalLabels, StatesLabels, LabelOf, JournalSide, StatesSide
     DEF BS!ViewStep, CV!Next, CV!JournalInternal
<1>5. CASE JS!JV!PushSync \/ JS!JV!PopSync
  BY <1>5, JournalLabels, StatesLabels, LabelOf, JournalSide, StatesSide
     DEF BS!ViewStep, CV!Next, CV!PushSync, CV!PopSync
<1>6. CASE JS!JV!JStutter
  BY <1>6, JournalLabels, StatesLabels, LabelOf, JournalSide, StatesSide
     DEF BS!ViewStep, CV!Next, CV!StatesInternal, CV!NoChange
<1> QED
  BY <1>1, <1>2, <1>3, <1>4, <1>5, <1>6 DEF JS!JV!JNext

-----------------------------------------------------------------------------
\* Both sides' invariants.
Inv == BS!IInv /\ BS!TreeInv /\ JS!IInv

\* Both sides start right, and so does the view.
LEMMA InitTogether == ASSUME ConstantsOK, Init PROVE Inv /\ CV!Init
<1>1. PICK loc \in Loc : BS!InitWithLoc(loc) /\ JS!InitWithLoc(loc)
  BY DEF Init, InitWithLoc
<1>2. BS!IInv /\ BS!TreeInv /\ BS!SV!SInit(loc)
  BY ONLY ConstantsOK, loc \in Loc, <1>1, BetreeAssumptions, BS!InitTrees
<1>3. JS!IInv
  <2>1. JS!Init
    BY <1>1 DEF JS!Init
  <2> QED
    BY <2>1, JournalAssumptions, JS!InitInv
<1>4. JS!JV!JInit(loc)
  BY <1>1, JournalAssumptions, JS!InitView
<1>5. CV!SV!SInit(loc)
  BY <1>2, SameOperators DEF BS!SV!SInit, CV!SV!SInit, BS!SV!NothingLoaded, CV!SV!NothingLoaded
<1>6. CV!JV!JInit(loc)
  <2>1. vop = JournalInternalOp
    BY <1>1 DEF BS!InitWithLoc, BS!JournalInternalOp, JournalInternalOp
  <2> QED
    BY <1>4, <2>1, SameLabels, SameOperators DEF JS!JV!JInit, CV!JV!JInit
<1> QED
  BY <1>2, <1>3, <1>5, <1>6 DEF Inv, CV!Init

\* A step preserves both invariants and is a step of the view.
LEMMA NextTogether == ASSUME ConstantsOK, Inv, Next PROVE Inv' /\ CV!Next
<1>1. BS!IInv' /\ BS!TreeInv' /\ BS!ViewStep
  BY BetreeAssumptions, BS!NextInv, BS!NextTrees DEF Inv, Next
<1>2. JS!IInv'
  BY JournalAssumptions, JS!NextInv DEF Inv, Next
<1>3. JS!JV!JNext
  BY <1>2, JournalAssumptions, JS!NextView DEF Inv, Next
<1> QED
  BY <1>1, <1>2, <1>3, TogetherView DEF Inv

\* When nothing changes, nothing changes in the view.
LEMMA SameTogether == ASSUME ConstantsOK, Inv, UNCHANGED vars PROVE Inv' /\ UNCHANGED CV!vars
<1>1. UNCHANGED BS!vars /\ UNCHANGED JS!vars
  BY DEF vars
<1>2. BS!IInv' /\ BS!TreeInv'
  BY <1>1, BetreeAssumptions, BS!NextInv, BS!SameTrees DEF Inv
<1>3. JS!IInv'
  BY <1>1, JournalAssumptions, JS!NextInv DEF Inv
<1>4. UNCHANGED JS!JV!jvars
  BY <1>1, JournalAssumptions, JS!SameView
<1>5. UNCHANGED <<bc, nodes, tables, vop>>
  BY <1>1 DEF BS!vars, BS!dvars
<1>6. BS!DiskState' = BS!DiskState
  BY <1>5, BetreeAssumptions, BS!SameDisk
<1>7. UNCHANGED <<BS!PersistentLoc, BS!FrozenLoc, BS!FrozenState, BS!EphemeralState>>
  BY <1>5, <1>6 DEF BS!PersistentLoc, BS!FrozenLoc, BS!FrozenState, BS!EphemeralState,
     BS!Ready, BS!Loading, BS!Unready,
     BS!DiskCacheGraph, BS!LookupNode
<1> QED
  BY <1>2, <1>3, <1>4, <1>5, <1>6, <1>7 DEF Inv, CV!vars, CV!jcVars, CV!tsmVars, JS!JV!jvars

\* The persistent table of the superblock that recovery would choose leads to a
\* tree.
PersistentTreeThere == BS!DiskState[JS!PersistentLoc] # NoState

\* Both invariants hold throughout.
LEMMA AlwaysTogether == ASSUME ConstantsOK PROVE Spec => []Inv
<1>1. Init => Inv
  BY InitTogether
<1>2. Inv /\ [Next]_vars => Inv'
  BY NextTogether, SameTogether
<1> QED
  BY <1>1, <1>2, PTL DEF Spec

\* The store as a whole implements CompositeView.
THEOREM StoreRefinesCompositeView == ASSUME ConstantsOK PROVE Spec => RefinesCompositeView
<1>1. Init => CV!Init
  BY InitTogether
<1>2. Inv /\ [Next]_vars => [CV!Next]_CV!vars
  BY NextTogether, SameTogether
<1> QED
  BY <1>1, <1>2, AlwaysTogether, PTL DEF Spec, RefinesCompositeView, CV!Spec

\* The whole store (BetreeJournalSystem.i.dfy and its refinement proofs) implements the crash-safe
\* dictionary with three versions: after a crash it is at a version that was persistent, frozen or
\* later, and a sync that was acknowledged is never lost.
THEOREM StoreIsCrashSafe == ASSUME ConstantsOK PROVE Spec => CV!RefinesThreeStateVersioned
  BY StoreRefinesCompositeView, CV!CompositeRefinement, ViewAssumptions, PTL DEF
     RefinesCompositeView

\* At every moment, in the middle of writes too, the tree that a crash would recover is on disk:
\* the superblock the journal side would choose names a table of the tree side that leads to a tree.
THEOREM PersistentTreeAlwaysThere == ASSUME ConstantsOK PROVE Spec => []PersistentTreeThere
<1>1. CV!Spec => []CV!LocationsAgree
  BY CV!LocationsAlwaysAgree, ViewAssumptions
<1>2. CV!LocationsAgree => PersistentTreeThere
  BY DEF CV!LocationsAgree, PersistentTreeThere
<1> QED
  BY <1>1, <1>2, StoreRefinesCompositeView, PTL DEF RefinesCompositeView

\* The halves of the machine start, load, freeze, store and clean up together.
LEMMA AgreeStep == ASSUME ConstantsOK, Inv, CachesAgree, Next PROVE CachesAgree'
<1>1. BS!FrozenByLabel
  BY BetreeAssumptions, BS!NextByLabel DEF Inv, Next
<1>2. JS!FrozenByLabel
  BY JournalAssumptions, JS!NextByLabel DEF Inv, Next
<1>3. /\ JS!Ready => jc.isFrozen \in BOOLEAN /\ (jc.frozenLoc # NoLoc => jc.isFrozen)
      /\ Inv'
  <2>1. jc \in JS!MachineState /\ JS!MemoryInv
    BY DEF Inv, JS!IInv, JS!Types
  <2>2. JS!Ready => jc \in JS!ReadyState
    BY <2>1, JournalAssumptions, JS!Phases
  <2>3. Inv'
    BY NextTogether
  <2> QED
    BY <2>1, <2>2, <2>3 DEF JS!MemoryInv, JS!ReadyState
<1>4. /\ BS!StatesInternalOp = StatesInternalOp /\ BS!FreezeOp = FreezeOp /\ BS!CleanUpOp = CleanUpOp /\ BS!CrashVOp = CrashVOp
      /\ \A x : BS!SendPersistentLocOp(x) = SendPersistentLocOp(x) /\ BS!SendFrozenLocOp(x) = SendFrozenLocOp(x)
      /\ JS!JournalInternalOp = JournalInternalOp /\ JS!FreezeOp = FreezeOp /\ JS!CleanUpOp = CleanUpOp /\ JS!CrashVOp = CrashVOp
      /\ \A x : JS!SendPersistentLocOp(x) = SendPersistentLocOp(x) /\ JS!SendFrozenLocOp(x) = SendFrozenLocOp(x)
  BY DEF BS!StatesInternalOp, BS!FreezeOp, BS!CleanUpOp, BS!CrashVOp, BS!SendPersistentLocOp,
     BS!SendFrozenLocOp,
     JS!JournalInternalOp, JS!FreezeOp, JS!CleanUpOp, JS!CrashVOp, JS!SendPersistentLocOp,
     JS!SendFrozenLocOp,
     StatesInternalOp, JournalInternalOp, FreezeOp, CleanUpOp, CrashVOp, SendPersistentLocOp,
     SendFrozenLocOp
<1>5. /\ BS!Unready <=> bc.phase = "Unready"
      /\ BS!Loading <=> bc.phase = "LoadingIndirectionTable"
      /\ BS!Ready <=> bc.phase = "Ready"
      /\ BS!Unready' <=> bc'.phase = "Unready"
      /\ BS!Loading' <=> bc'.phase = "LoadingIndirectionTable"
      /\ BS!Ready' <=> bc'.phase = "Ready"
      /\ JS!LoadingSuperblock <=> jc.phase = "LoadingSuperblock"
      /\ JS!LoadingOther <=> jc.phase = "LoadingOther"
      /\ JS!Ready <=> jc.phase = "Ready"
      /\ JS!LoadingSuperblock' <=> jc'.phase = "LoadingSuperblock"
      /\ JS!LoadingOther' <=> jc'.phase = "LoadingOther"
      /\ JS!Ready' <=> jc'.phase = "Ready"
  BY DEF BS!Unready, BS!Loading, BS!Ready, JS!LoadingSuperblock, JS!LoadingOther, JS!Ready
<1>6. CASE vop'.type \in {"CrashOp", "SendPersistentLocOp"}
  BY <1>1, <1>2, <1>4, <1>5, <1>6, LabelOf DEF CachesAgree, BS!FrozenByLabel, JS!FrozenByLabel,
     StatesInternalOp, JournalInternalOp, FreezeOp, CleanUpOp, CrashVOp, SendPersistentLocOp,
     SendFrozenLocOp
<1>7. CASE vop'.type \in {"FreezeOp", "CleanUpOp"}
  BY <1>1, <1>2, <1>4, <1>5, <1>7, LabelOf DEF CachesAgree, BS!FrozenByLabel, JS!FrozenByLabel,
     StatesInternalOp, JournalInternalOp, FreezeOp, CleanUpOp, CrashVOp, SendPersistentLocOp,
     SendFrozenLocOp
<1>8. CASE vop'.type = "SendFrozenLocOp"
  BY <1>1, <1>2, <1>3, <1>4, <1>5, <1>8, LabelOf DEF CachesAgree, BS!FrozenByLabel,
     JS!FrozenByLabel,
     StatesInternalOp, JournalInternalOp, FreezeOp, CleanUpOp, CrashVOp, SendPersistentLocOp,
     SendFrozenLocOp
<1>9. CASE vop'.type \in {"JournalInternalOp", "StatesInternalOp", "AdvanceOp", "PushSyncOp", "PopSyncOp"}
  <2>1. \/ /\ bc'.phase = bc.phase
           /\ BS!Ready => BS!KeepsFrozen
        \/ BS!Loading /\ BS!Ready' /\ bc'.frozen = None
    BY <1>1, <1>4, <1>9 DEF BS!FrozenByLabel, FreezeOp, CleanUpOp, CrashVOp,
       SendPersistentLocOp, SendFrozenLocOp
  <2>2. \/ /\ jc'.phase = jc.phase
           /\ JS!Ready => JS!SameFrozen
        \/ JS!LoadingOther /\ JS!Ready' /\ jc'.isFrozen = FALSE /\ jc'.frozenLoc = NoLoc
    BY <1>2, <1>4, <1>9, LabelOf DEF JS!FrozenByLabel, FreezeOp, CleanUpOp, CrashVOp,
       SendPersistentLocOp, SendFrozenLocOp
  <2> QED
    BY <1>3, <1>5, <2>1, <2>2 DEF CachesAgree, BS!KeepsFrozen, JS!SameFrozen
<1> QED
  BY <1>1, <1>4, <1>6, <1>7, <1>8, <1>9 DEF BS!FrozenByLabel, StatesInternalOp, FreezeOp,
     CleanUpOp, CrashVOp,
     SendPersistentLocOp, SendFrozenLocOp

\* The two caches, which share no state, always agree on what is frozen and on its location
\* (the invariant of BlockJournalCache.i.dfy).
THEOREM CachesAlwaysAgree == ASSUME ConstantsOK PROVE Spec => []CachesAgree
<1>1. Init => CachesAgree
  BY DEF Init, InitWithLoc, BS!InitWithLoc, JS!InitWithLoc, BS!MInit, JS!MInit, BS!StartState,
     JS!StartState,
     CachesAgree, BS!Unready, BS!Ready, JS!Ready
<1>2. CachesAgree /\ UNCHANGED vars => CachesAgree'
  BY DEF vars, BS!vars, JS!vars, CachesAgree, BS!Unready, BS!Ready, JS!Ready, JS!LoadingSuperblock
<1>3. Inv /\ CachesAgree /\ [Next]_vars => CachesAgree'
  BY <1>2, AgreeStep
<1> QED
  BY <1>1, <1>3, AlwaysTogether, PTL DEF Spec

\* When the journal side tells the tree side where its persistent table is, the tree side finds a
\* tree there (OkaySendPersistentLocStep of BetreeJournalSystem.i.dfy).
THEOREM OkaySendPersistentLocStep ==
    ASSUME ConstantsOK, Inv, PersistentTreeThere, JS!Next, vop'.type = "SendPersistentLocOp"
    PROVE  BS!DiskState[vop'.loc] # NoState
<1>1. JS!IInv'
  BY JournalAssumptions, JS!NextInv DEF Inv
<1>2. JS!JV!JNext
  BY <1>1, JournalAssumptions, JS!NextView DEF Inv
<1>3. JS!JV!PresentPersistentLoc
  BY <1>2, JournalLabels DEF JS!JV!JNext
<1>4. vop' = SendPersistentLocOp(JS!PersistentLoc)
  BY <1>3, LabelOf, SameLabels DEF JS!JV!PresentPersistentLoc
<1> QED
  BY <1>4 DEF PersistentTreeThere, SendPersistentLocOp

=============================================================================
