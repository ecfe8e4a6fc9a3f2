CONSTANTS
    MaxRecord = 8
    ByteBits = 2
    FirstUser = 2
    BmpStep = 2
    BmpCluster = 4
    MftSteps <- Steps
    SeqMax = 3
    Layouts <- BothLayouts
    MaxCalls = 3
    MaxFaults = 2
    MaxCrashes = 1
SPECIFICATION Spec
INVARIANTS
    BitsFollowRecords
    HandsOutFreeRecords
PROPERTIES
    StaleReferencesDie
    CallReturns
CHECK_DEADLOCK FALSE
