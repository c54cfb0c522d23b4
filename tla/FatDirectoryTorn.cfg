SPECIFICATION Spec
CONSTANTS
    Runs <- TwoRuns
    MaxDirEntries = 6
    Files <- AllFiles
    Bytes = 256
    FirstChar = 32
    DeletedMark = 229
    LastBit = 64
    Residues <- Directories
    MaxChanges = 3
INVARIANTS EveryRecordOnce FilesAsDriver DeletedRecovered
CHECK_DEADLOCK FALSE
