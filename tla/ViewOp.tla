------------------------------- MODULE ViewOp -------------------------------
(***************************************************************************)
(* Labels of the transitions that JournalView and StatesView take          *)
(* together ("vops"), and the user operation each of them shows.           *)
(***************************************************************************)
EXTENDS Journal

CONSTANTS
    Loc,     \* disk locations a state (its indirection table) is stored at
    NoLoc,   \* None : Option<Loc>
    NoState, \* None : Option<SM.Variables>, and "nothing readable" on disk
    MaxJournal \* bound: entries in the journals gamma and delta together

ASSUME LocAssumption == NoLoc \notin Loc
ASSUME MaxJournalAssumption == MaxJournal \in Nat
ASSUME NoStateAssumption == NoState \notin State

StatesInternalOp == [type |-> "StatesInternalOp"]
JournalInternalOp == [type |-> "JournalInternalOp"]
AdvanceOp(op, replay) == [type |-> "AdvanceOp", uiop |-> op, replay |-> replay]
SendPersistentLocOp(loc) == [type |-> "SendPersistentLocOp", loc |-> loc]
FreezeOp == [type |-> "FreezeOp"]
SendFrozenLocOp(loc) == [type |-> "SendFrozenLocOp", loc |-> loc]
CleanUpOp == [type |-> "CleanUpOp"]
CrashVOp == [type |-> "CrashOp"]
PushSyncVOp(id) == [type |-> "PushSyncOp", id |-> id]
PopSyncVOp(id) == [type |-> "PopSyncOp", id |-> id]

\* The one uiop with VOpAgreesUIOp(v, uiop).
UIOpOf(v) ==
    CASE v.type = "AdvanceOp"  -> IF v.replay THEN NoOp ELSE v.uiop
      [] v.type = "CrashOp"    -> CrashOp
      [] v.type = "PushSyncOp" -> PushSyncOp(v.id)
      [] v.type = "PopSyncOp"  -> PopSyncOp(v.id)
      [] OTHER                 -> NoOp
=============================================================================
