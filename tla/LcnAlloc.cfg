CONSTANTS
    NrClusters = 16
    MftLcn = 7
    StdMftLcn = 4
    BitmapBytes = 2
    WindowBytes = 1
    Layouts <- RelocatedLayouts
    Counts = {1, 4}
    Hints <- RelocatedHints
    MaxCalls = 3
    MaxFaults = 1
SPECIFICATION FairSpec
INVARIANTS
    NoDoubleAllocation
    BitmapMatchesOwners
    EnospcMeansFull
PROPERTIES
    MftZoneIsTakenLast
    ImplementsStore
    CallReturns
CHECK_DEADLOCK FALSE
