SPECIFICATION Spec
CONSTANTS
    SectorSizes = {8, 16}
    ClusterSizes = {1, 2}
    MinFat16 = 3
    MinFat32 = 5
    RecordSize = 4
    BootSectorLen = 8
    Top = 200
    DeviceLen = 128
    Formats <- AllFormats
    DamagedFields <- Fields
    EntryValues = {0, 1, 3, 4095}
    InUse <- Links
    MaxDirClusters = 3
    MaxRecords = 5
    MaxCopies = 2
    MaxDiffs = 2
    CompareLimit = 20
    CompareChunk = 8
    PreviewEntries = 6
    MaxChanges = 1
INVARIANTS HealthyIsQuiet SingleDamageShown MirrorTrue ListedInPlace
CHECK_DEADLOCK FALSE
