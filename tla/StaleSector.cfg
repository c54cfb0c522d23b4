SPECIFICATION Spec
CONSTANTS
    DeviceLen = 5
    SectorSize = 2
    BlockSize = 4
    Value = {0, 1, 2}
    Image <- MCImage
    Plans <- SmallPlans
    Absent = Absent
    Unreadable = Unreadable
    MaxAttempts = 2
    MaxFaults = 0
    MaxForeign = 0
    MaxSessions = 1
CHECK_DEADLOCK FALSE
PROPERTIES SectorBytesSurvive
