SPECIFICATION FairSpec
CONSTANTS
    BackupProfiles <- MCProfiles
    SourceFaults = {"stat", "sftp", "readdir", "read", "close", "zip", "which", "header", "cnf", "session", "start", "exec", "write", "inspect", "link"}
    Dirs = {"www", "etc"}
    Node <- MCNode
    Root = "."
    Parent <- MCParent
    Excluded <- MCExcluded
    MaxOpen = 1
    InitTrees <- MCTrees
    ChangeTo <- MCChangeTo
    Size = 3
    PipeSize = 1
    ExitRecorded = TRUE
CHECK_DEADLOCK FALSE
INVARIANTS
    StableFilesArchived
    DumpsComplete
    FailuresExplained
PROPERTIES
    CopySpec
    SourcesEnd
    NoCommandStays
