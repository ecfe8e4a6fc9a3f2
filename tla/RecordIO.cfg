SPECIFICATION Spec
CONSTANTS
    i1 = i1
    i2 = i2
    Holder <- TwoInodes
    MaxRecord = 3
    MirrSize = 2
    Loaded <- FirstRecord
    Sectors = 1
    UsnMax = 5
    FirstUsns = {3}
    MaxVersion = 2
    MaxFaults = 1
    MaxCrashes = 1
    MaxWipes = 1
    MaxWrites = 4
    MaxOpen = 1
INVARIANTS
    TornWritesDetected
    WrittenRecordsSurvive
    MirrorFollows
PROPERTIES
    FixSatisfiesMount
SYMMETRY InodesAlike
CHECK_DEADLOCK FALSE
