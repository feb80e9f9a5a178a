SPECIFICATION Spec
CONSTANTS
    Blocks = 2
    pA = pA
    pB = pB
    Parts <- MCParts
    NoPart = "none"
    MaxFaults = 2
    wbsize = 2
    OptionSets <- MCOptions
    MaxRuns = 2
INVARIANTS
    TypeOK
    LoaderReported
    WrittenIsThere
PROPERTIES
    SessionEnds
