SPECIFICATION Spec
CONSTANTS
    Runs <- TwoRuns
    MaxDirEntries = 7
    Files <- AllFiles
    LastCluster = 5
    ClusterSize = 2
    MaxClusterChain = 4
    Residues <- Directories
    MaxChanges = 3
INVARIANTS EveryRecordOnce FilesAsDriver DeletedRecovered
CHECK_DEADLOCK FALSE
