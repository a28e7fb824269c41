CONSTANTS
    Machine <- MCMachine
    Instances <- MCInstances
    WorkersFiles <- MCWorkersFiles
    Blacklist = {}
    Suites <- MCSuites
    MaxLines = 2
    MaxDrops = 1
SPECIFICATION FleetSpec
INVARIANTS LogComplete OneJobPerMachine CompleteMeansOver ResultsKept
PROPERTY LauncherEnds
CHECK_DEADLOCK FALSE
