SPECIFICATION Spec
CONSTANTS
    DeviceLbas = 7
    SectorSize = 6
    MinEntrySize = 2
    MaxEntrySize = 4
    EntryAlign = 2
    MaxEntries = 4
    MaxArray = 12
    MinHeaderSize = 3
    MaxOverlapDiags = 1
    MaxWord = 500
    Tables <- AllTables
    DamagedField <- Fields
    DamagedEntry <- Cells
    DamagedMbr <- Mbrs
    MaxChanges = 2
INVARIANTS HealthyIsQuiet QuietIsOneTable SurvivorShown OverlapsCounted
CHECK_DEADLOCK FALSE
