\* The bad-block modes, raw images and the erase mode, in two runs one after the other, each
\* of them ended, stopped or killed anywhere.
CONSTANTS
    MaxBlock = 3
    Ppb = 2
    Spp = 8
    MaxRuns = 2
    Files <- DefectFiles
    OptionSets <- ModeOptions
SPECIFICATION Spec
INVARIANTS MarksJustified DefectsMatched NoProgramIntoBad RegsRestored ProgramErased ProgramFormat
PROPERTIES MarksSurvive
