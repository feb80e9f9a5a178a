SPECIFICATION CopySpec
CONSTANTS
    MaxBlock = 3
    Ppb = 2
    Spp = 8
    MaxRuns = 1
    Files <- MCFiles
    OptionSets <- MCOptions
    Contents <- MCContents
    ReadOptions <- MCReadOptions
    Pairs <- MCPairs
    StartRegs <- MCStartRegs
INVARIANTS
    CopyExact
    NothingMissing
