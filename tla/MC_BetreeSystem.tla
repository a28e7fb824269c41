-------------------------- MODULE MC_BetreeSystem --------------------------
(***************************************************************************)
(* A small instance of BetreeSystem.                                       *)
(***************************************************************************)
EXTENDS BetreeSystem, TLC

MCKey == {1}
MCRanges == {<< <<"NegativeInf">>, <<"PositiveInf">> >>}

Symmetry == Permutations(Ref \ {Root}) \cup Permutations(NodeLoc)
              \cup Permutations(ReqId) \cup Permutations(Loc)

(***************************************************************************)
(* States are told apart without the label of the last step and without    *)
(* what is stored where no table, on disk or in memory, and no request     *)
(* leads: such a place is written before it is read again.                 *)
(***************************************************************************)
Tables == ({tables[l] : l \in Loc} \cup
           (IF Ready THEN {machine.persistent, machine.frozen, machine.ephemeral} ELSE {})) \ {None}

InUse(l) ==
    \/ \E t \in Tables : l \in LocsOf(t)
    \/ \E id \in ReqId : l \in {reqReadNodes[id], reqWriteNodes[id]}

StaleFree == <<machine, requests, tables, [l \in NodeLoc |-> IF InUse(l) THEN nodes[l] ELSE None]>>
=============================================================================
