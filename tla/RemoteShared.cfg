SPECIFICATION RemoteFairSpec
CONSTANTS
    weekly = weekly
    home = home
    Procs = {weekly}
    Profiles = {home}
    Names <- MCNames
    NameOf <- MCNameOf
    Keep <- MCKeep
    Items <- MCItems
    Dbs <- MCDbs
    WithOwner = {}
    WithMode = {home}
    RunsOf <- MCRunsOf
    Matches <- MCMatches
    Uncompilable = {}
    Faults = {"open", "source", "remove", "purge", "crash"}
    Paced = TRUE
    ClockBack = FALSE
    StartTime = 1
    MaxClock = 3
    InitDest = {"absent", "dir", "file"}
    InitFiles <- First
    AuthTypes <- AllAuth
    RemoteFaults = {"stat", "mkdir", "auth", "knownhosts", "dial", "remove", "crash"}

    
PROPERTIES
    StoreSpec
    RemoteEnds
