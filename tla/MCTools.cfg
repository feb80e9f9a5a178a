SPECIFICATION Spec
CONSTANTS
    Devices <- MCDevices
    Files <- MCFiles
    Commands <- MCCommands
    Partitions <- MCPartitions
    UnknownSize = 3
    MaxFaults = 2
    MaxRuns = 2
INVARIANTS
    TypeOK
    ReportTrue
    ListExact
    RegistersRight
    NamedBlockOnly
CHECK_DEADLOCK FALSE
