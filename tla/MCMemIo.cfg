SPECIFICATION Spec
CONSTANTS
    Chunk = 3
    Hdr = 4
    Trl = 2
    Slack = 3
    Word = 3
    ErrorLen = 3
    MaxTries = 2
    SectorLen = 4
    Sectors = 2
    MaxFaults = 3
INVARIANTS
    SectorRight
PROPERTIES
    SectorsRead
CHECK_DEADLOCK FALSE
