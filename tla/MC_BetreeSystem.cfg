SPECIFICATION Spec
CONSTANTS
    Key <- MCKey
    Value = {v0, v1}
    EmptyValue = v0
    Ranges <- MCRanges
    SyncId = {}
    Loc = {t1, t2}
    NoLoc = NoLoc
    NoState = NoState
    MaxJournal = 0
    Ref = {root, a, b}
    Root = root
    None = None
    NodeLoc = {n1, n2}
    ReqId = {q1, q2}
    HavocNode = {None}
    HavocTable = {None}
INVARIANTS
    CacheCoherent
    WritesAvoidTrees
    TreesUsable
PROPERTIES
    RefinesStatesView
SYMMETRY Symmetry
VIEW StaleFree
