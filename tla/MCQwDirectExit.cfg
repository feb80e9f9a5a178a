\* The registers after a run that stopped at a mismatch.
CONSTANTS
    MaxBlock = 3
    Ppb = 2
    Spp = 8
    MaxRuns = 1
    Files <- DefectFiles
    OptionSets <- ModeOptions
SPECIFICATION Spec
INVARIANT RegsRestoredAtExit
