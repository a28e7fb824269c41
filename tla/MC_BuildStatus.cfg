CONSTANTS
    DfyFile <- MCFile
    Root = 3
    TrustedFiles = {1}
    EditTexts <- GoodOrBad
    Jobs = 2
    Scenarios <- MCScenarios
    NoFile = NoFile
SPECIFICATION BuildSpec
INVARIANTS  PageTruthful
