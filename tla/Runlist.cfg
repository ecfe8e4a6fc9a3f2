CONSTANTS
    Base = 8
    Lcns = {0, 1, 2, 5}
    MaxVcn = 5
    MaxInit = 3
    InitMaps <- StartMaps
    Rooms = {6, 9, 50}
    MaxCalls = 1
SPECIFICATION Spec
INVARIANTS
    RunlistSaysMap
    RecordsSayMap
    SizeIsRoomNeeded
CHECK_DEADLOCK FALSE
