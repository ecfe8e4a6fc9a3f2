CONSTANTS
    Device = 11
    OldSize = 11
    NewSizes = {9, 11}
    Granule = 4
    MaxRuns = 2
SPECIFICATION Spec
INVARIANTS
    DataSurvives
    NothingOutside
    AgreesUnlessMarked
    MirrorAtBoot
PROPERTY
    RunGetsThrough
CHECK_DEADLOCK FALSE
