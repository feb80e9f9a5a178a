\* The markers in a run after one that was killed with the marker control lifted.
CONSTANTS
    MaxBlock = 3
    Ppb = 2
    Spp = 8
    MaxRuns = 2
    Files <- DefectFiles
    OptionSets <- ModeOptions
SPECIFICATION Spec
PROPERTY MarksProtected
