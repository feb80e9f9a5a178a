SPECIFICATION Spec
CONSTANTS
    Nodes <- MCNodes
    Root = "/"
    NoNode = "none"
    Order <- MCOrder
    Parent <- MCParent
    NewFile <- MCNewFile
    Trees <- MCTrees
    Sizes = {0, 3}
    LocalSize = 2
    Pages = 2
    MaxDir = 2
    MaxFd = 3
    Closed = 3
    Commands <- MCCommands
    MaxRuns = 2
    MaxFails = 1
INVARIANTS
    ListingExact
    HandlesKept
    CopiesExact
PROPERTIES
    RunEnds
