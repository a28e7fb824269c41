CONSTANTS
    Calls <- MCCalls
    Branch = {"master", "linear"}
    Constant <- MCConstant
    Default = "default"
    MaxRuns = 3
    MaxFaults = 1
    MaxInterrupts = 1
    None = None
SPECIFICATION ExperimentSpec
INVARIANTS MeasuresWhatWasAsked CallsDoNotInterfere
PROPERTY CallsEnd
CHECK_DEADLOCK FALSE
