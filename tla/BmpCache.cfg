CONSTANTS
    ByteBits = 2
    ClusterSize = 3
    Sizes = {2, 5, 6}
    MaxCalls = 2
    MaxFaults = 1
SPECIFICATION Spec
INVARIANT CacheIsTheBitmap
CHECK_DEADLOCK FALSE
