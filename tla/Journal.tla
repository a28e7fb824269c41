------------------------------ MODULE Journal ------------------------------
(***************************************************************************)
(* Journal entries, the entries a user operation leaves in the journal,    *)
(* and what replaying a sequence of entries does to a dictionary.          *)
(***************************************************************************)
EXTENDS MapSpec, Sequences

JournalInsert(k, v) == [key |-> k, value |-> v]
JournalEntry == {JournalInsert(k, v) : k \in Key, v \in Value}

JournalEntriesForUIOp(op) ==
    IF op.type = "PutOp" THEN <<JournalInsert(op.key, op.value)>> ELSE << >>

\* One replayed entry.
Apply(m, je) == [m EXCEPT ![je.key] = je.value]

(***************************************************************************)
(* ApplySeq(m, jes) replays jes on dictionary m from left to right, so a   *)
(* key ends up with the value of the last entry that names it.  The code   *)
(* recurses on the last entry (IApplySeq); this is its closed form         *)
(* (lemma ApplySeqRecursion of JournalTheorems).                           *)
(***************************************************************************)
EntriesFor(jes, k) == {i \in 1..Len(jes) : jes[i].key = k}

LastEntryFor(jes, k) ==
    CHOOSE i \in EntriesFor(jes, k) : \A j \in EntriesFor(jes, k) : j <= i

ApplySeq(m, jes) ==
    [k \in Key |-> IF EntriesFor(jes, k) = {}
                   THEN m[k]
                   ELSE jes[LastEntryFor(jes, k)].value]

IApplySeq(m, jes) ==
    LET upTo[n \in 0..Len(jes)] == IF n = 0 THEN m ELSE Apply(upTo[n - 1], jes[n])
    IN  upTo[Len(jes)]

(***************************************************************************)
(* Suffixes and sequence subtraction: SeqSub(s, t) \o t = s when t is a    *)
(* suffix of s.                                                            *)
(***************************************************************************)
IsSuffix(s, t) ==
    /\ Len(t) <= Len(s)
    /\ SubSeq(s, Len(s) - Len(t) + 1, Len(s)) = t

SeqSub(s, t) == SubSeq(s, 1, Len(s) - Len(t))

(***************************************************************************)
(* TSJ.advances: replaying `from`, less the entries in `to` that are still *)
(* to be replayed, takes dictionary s to dictionary t.  The code asks for  *)
(* a path of user operations from s to t that leave exactly these entries; *)
(* as an entry determines what its operation does, the path exists if and  *)
(* only if ApplySeq leads there.                                           *)
(***************************************************************************)
Advances(s, from, t, to) ==
    IsSuffix(from, to) /\ t = ApplySeq(s, SeqSub(from, to))

(***************************************************************************)
(* Status of a sync request.  NoReq: no request with that id is pending.   *)
(* State3: some data that was ephemeral when the request was made still    *)
(* is; State2: none is ephemeral, some is still frozen; State1: all of it  *)
(* is persistent.                                                          *)
(***************************************************************************)
SyncReqStatus == {"NoReq", "State1", "State2", "State3"}

NoSyncReqs == [id \in SyncId |-> "NoReq"]

SyncReqs2to1(reqs) ==
    [id \in SyncId |-> IF reqs[id] = "State2" THEN "State1" ELSE reqs[id]]

SyncReqs3to2(reqs) ==
    [id \in SyncId |-> IF reqs[id] = "State3" THEN "State2" ELSE reqs[id]]
=============================================================================
