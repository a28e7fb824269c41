--------------------------- MODULE MC_CrashSafety ---------------------------
(***************************************************************************)
(* Two keys with two values each and two syncs that overlap.               *)
(***************************************************************************)
EXTENDS CrashSafety, TLC

MCKey == {1, 2}
MCRanges == {<< <<"SExclusive", 1>>, <<"EInclusive", 2>> >>,
             << <<"SInclusive", 2>>, <<"EExclusive", 2>> >>}

Symmetry == Permutations(SyncId)

View == <<s1, s2, s3, outstandingSyncReqs, hvars>>
=============================================================================
