SPECIFICATION Spec
CONSTANTS
    Format <- AllFormats
    LastBase = 1
    NoBase = NoBase
    SectorSizes <- Sizes
    DeviceSector = 512
    Tree <- Trees
    Link <- BlankLinks
    Candidates <- BlankDisk
    Resizes <- Sizes
    MaxTargets = 1
    MaxRegions = 2
    MaxJumps = 0
    MaxViews = 2
INVARIANTS RowsCurrent TreesCurrent
CHECK_DEADLOCK FALSE
