SPECIFICATION HSpec
CONSTANTS
    Key <- MCKey
    Value = {v0, v1}
    EmptyValue = v0
    Ranges <- MCRanges
    SyncId = {q1, q2}
    MaxHistory = 3
INVARIANTS VersionsArePrefixes AckedSyncsSurvive
SYMMETRY Symmetry
VIEW View
