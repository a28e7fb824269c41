CONSTANTS
    Phases <- ThreePhases
    Steps = {0, 1, 3}
    MaxReports = 3
    Values = {1}
    Window = 2
    NoValue = NoValue
SPECIFICATION TraceSpec
INVARIANTS LookupSound PhasesJoined EvenReportsShown
CHECK_DEADLOCK FALSE
