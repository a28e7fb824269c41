SPECIFICATION Spec
CONSTANTS
    Key <- MCKey
    Value = {v0, v1}
    EmptyValue = v0
    Ranges <- MCRanges
    SyncId = {q1}
    Loc = {la, lb}
    NoLoc = NoLoc
    NoState = NoState
    MaxJournal = 2
INVARIANTS LocationsAgree JournalsConnect
PROPERTIES
    RefinesThreeStateVersioned
