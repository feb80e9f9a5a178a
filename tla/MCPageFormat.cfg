SPECIFICATION Spec
CONSTANTS
    SectorSize = 6
    Extra = 1
    TagSize = 2
    Spp = 3
    Oob = 2
    SourcePages <- MCSourcePages
    Pairs <- MCPairs
    NumPages = 3
    MaxFaults = 1
INVARIANTS
    PageExact
    VerifyExact
