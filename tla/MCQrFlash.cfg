SPECIFICATION Spec
CONSTANTS
    MaxBlock = 3
    Ppb = 2
    Spp = 8
    Width <- MCWidth
    Contents <- MCContents
    Table <- MCTable
    OptionSets <- MCReadOptions
    MaxRuns = 2
    MaxFaults = 1
INVARIANTS
    FilesExact
    NothingLost
    MarkerControlBack
