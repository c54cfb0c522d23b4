SPECIFICATION Spec
CONSTANTS
    DeviceLen = 40
    SectorSize = 1
    SectorSizes = {1, 2}
    MaxClusterSize = 4
    MaxClusterCount = 8
    ExtCount = 1
    TableEntries = 4
    BitsPerUnit = 2
    MaxChain = 4
    MaxDirectory = 3
    MaxBitmap = 3
    MaxUpcase = 2
    MaxChecked = 5
    MaxListed = 1
    Formats <- AllFormats
    DamagedFields <- Fields
    EntryValues = {0, 1, 2, 7, 999}
    MaxChanges = 1
INVARIANTS HealthyIsQuiet QuietIsOneRegion CrosscheckTrue
CHECK_DEADLOCK FALSE
