SPECIFICATION Spec
CONSTANTS
    Items = {549, 550}
    ImeiItem = 550
    DataLen = 12
    Word = 4
    Stores <- MCStores
    Backups <- MCBackups
    Absent = Absent
    Commands <- MCCommands
    MaxFaults = 1
    MaxRuns = 2
INVARIANTS
    TypeOK
    FrameStandard
    BackupTrue
    RestoreTrue
    ImeiValid
CHECK_DEADLOCK FALSE
