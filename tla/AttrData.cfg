SPECIFICATION Spec
CONSTANTS
    ClusterSize = 3
    NrClusters = 3
    MaxVcn = 2
    MaxResident = 4
    Layouts <- Runlists
    Counts <- Lengths
    MaxCalls = 2
    MaxFaults = 1
INVARIANTS
    RecordFollowsAttribute
    ClustersAccountedFor
    CrashLeavesOrder
    CallsKeepContent
CHECK_DEADLOCK FALSE
