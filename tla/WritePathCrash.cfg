SPECIFICATION Spec
CONSTANTS
    DeviceLen = 3
    SectorSize = 2
    BlockSize = 2
    Value = {0, 1}
    Image <- MCImage
    Plans <- OnePlan
    Absent = Absent
    Unreadable = Unreadable
    MaxAttempts = 1
    MaxFaults = 2
    MaxForeign = 1
    MaxSessions = 2
CHECK_DEADLOCK FALSE
INVARIANTS UndoRestoresImage
PROPERTIES ImplementsUndoLog SectorBytesSurvive
