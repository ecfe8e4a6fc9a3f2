CONSTANTS
    a = a
    b = b
    s = s
    Names <- AllNames
    DirOf <- InDir
    Short = s
    Long = a
    Rec = {1, 2}
    Cluster = {1}
    InitLinks <- StartLinks
    MaxCalls = 3
    MaxTroubles = 1
SPECIFICATION Spec
INVARIANTS
    EntriesMatchNames
    PromisedNamesLead
    FailedCallsKeepNames
    ClustersStayTheirs
PROPERTIES
    FullDirectoriesStay
    CallReturns
CHECK_DEADLOCK FALSE
