SPECIFICATION Spec
CONSTANTS
    Format <- AllFormats
    LastBase = 3
    NoBase = NoBase
    SectorSizes <- Small
    DeviceSector = 512
    Tree <- Trees
    Link <- Links
    Candidates <- MbrDisk
    Resizes <- NoSizes
    MaxTargets = 1
    MaxRegions = 3
    MaxJumps = 1
    MaxViews = 0
INVARIANTS FindingsShown PartitionsListed
PROPERTIES BackToTheRegion
CHECK_DEADLOCK FALSE
