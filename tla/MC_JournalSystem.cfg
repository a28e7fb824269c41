SPECIFICATION Spec
CONSTANTS
    Key <- MCKey
    Value = {v0, v1}
    EmptyValue = v0
    Ranges <- MCRanges
    SyncId = {q1}
    Loc = {la, lb}
    NoLoc = NoLoc
    NoState = NoState
    MaxJournal = 2
    NumJournalBlocks = 2
    MaxInMemory = 2
    MaxBlocksPerWrite = 2
    CounterModulus = 3
    ReqId = {r1, r2}
    UnsetPositions = {2}
    None = None
    HavocBlock <- MCHavocBlock
INVARIANTS RecoverySafe WritesAvoidPersistentJournal JournalsReadable
PROPERTIES
    RefinesJournalView
SYMMETRY Symmetry
VIEW StaleFree
