SPECIFICATION Spec
CONSTANTS
    ClusterSize = 3
    NrClusters = 3
    MaxVcn = 2
    MaxResident = 4
    Layouts <- Runlists
    Counts <- Lengths
    MaxCalls = 1
    MaxFaults = 0
INVARIANTS
    WriteDoesWhatItReports
CHECK_DEADLOCK FALSE
