SPECIFICATION FairSpec
CONSTANTS
    DeviceLen = 5
    SectorSize = 2
    BlockSize = 4
    Value = {0, 1, 2}
    Image <- MCImage
    Plans <- MCPlans
    Absent = Absent
    Unreadable = Unreadable
    MaxAttempts = 2
    MaxFaults = 1
    MaxForeign = 0
    MaxSessions = 1
CHECK_DEADLOCK FALSE
INVARIANTS OverlayMatchesStaged
PROPERTIES StageAllIsAtomic DroppedOnlyWhenDurable WritesOnlyArmed CallsReturn
