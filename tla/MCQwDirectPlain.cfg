\* Plain writing: one run, every set of bad blocks.
CONSTANTS
    MaxBlock = 4
    Ppb = 2
    Spp = 8
    MaxRuns = 1
    Files <- PlainFiles
    OptionSets <- PlainOptions
SPECIFICATION Spec
INVARIANTS TypeOK InsideArea InOrder LossAccounted
PROPERTIES PlacementSpec RunEnds
