---------------------------- MODULE MC_LineCounts ---------------------------
(***************************************************************************)
(* Small instances of LineCounts: the bank of file-classifications.txt     *)
(* (implementation, state machine, specification) and a file that may have *)
(* another class, two of them, or none.                                    *)
(***************************************************************************)
EXTENDS LineCounts, TLC

Lines(real, ghost, noise, time) == [real |-> real, ghost |-> ghost, noise |-> noise, time |-> time]

MCRow == {"bank", "bank-sm", "bank-spec", "framework"}
MCImplMap == [r \in {"bank-sm", "bank-spec"} |-> "bank"]

\* No directory differs from another before it is drawn.
MCSymmetry == Permutations(Dir)

\* The counts of the files may collide with themselves and with each
\* other.  Impl.s has any class and may have no time.
MCFile == {"Impl.i", "Bank.s", "Impl.s"}
MCTexts ==
    {[f \in MCFile |->
        CASE f = "Impl.i" -> Lines(2, 1, 1, 1)
          [] f = "Bank.s" -> Lines(1, 1, 0, 2)
          [] f = "Impl.s" -> Lines(1, 3, 1, t)] : t \in {3, NoTime}}
MCClassifications ==
    {[f \in MCFile |->
        CASE f = "Impl.i" -> {key}
          [] f = "Bank.s" -> {"bank-spec"}
          [] f = "Impl.s" -> keys] :
      key \in {"bank", "bank-sm"},
      keys \in {{}, {"ignore"}, {"bank"}, {"framework"}, {"framework", "ignore"}, {"bank", "framework"}}}
============================================================================
