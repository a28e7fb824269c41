CONSTANTS
    SourceFile <- MCFile
    Trusted = {"Bank.s", "Impl.s"}
    Texts <- MCTexts
    Dir = {d1, d2, d3, d4}
    Row <- MCRow
    ImplMap <- MCImplMap
    Classifications <- MCClassifications
    Ignored = {"ignore"}
    MaxAttempts = 2
    NoTime = NoTime
SPECIFICATION CountSpec
INVARIANTS WrongCountMeansFailure ReportRight
SYMMETRY MCSymmetry
CHECK_DEADLOCK FALSE
