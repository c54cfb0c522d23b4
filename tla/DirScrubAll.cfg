SPECIFICATION Spec
CONSTANTS
    RootSlots = 2
    LastCluster = 4
    PerCluster = 2
    PerSector = 2
    PerBlock = 4
    MaxRecords = 99
    MaxClusters = 3
    Nothing = Nothing
    NewName = NewName
    Absent = Absent
    Volumes <- AllVolumes
    Marks <- AllMarks
    Others = {"live"}
    Faults = 1
    DriverActs = {"idle", "popup"}
    MaxChanges = 2
INVARIANTS OnlyThisDirectory 
PROPERTIES ListingKept ResidueGone NoLiveRecordLost
CHECK_DEADLOCK FALSE
