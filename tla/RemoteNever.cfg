SPECIFICATION RemoteFairSpec
CONSTANTS
    weekly = weekly
    home = home
    Procs = {weekly}
    Profiles = {home}
    Names <- MCNames
    NameOf <- MCNameOf
    Keep <- MCKeep
    Items <- MCItems
    Dbs <- MCDbs
    WithOwner = {}
    WithMode = {home}
    RunsOf <- MCRunsOf
    Matches <- MCMatches
    Uncompilable = {}
    Faults = {}
    Paced = TRUE
    ClockBack = FALSE
    StartTime = 1
    MaxClock = 2
    InitDest = {"absent", "dir"}
    InitFiles <- First
    AuthTypes <- AllAuth
    RemoteFaults = {}
PROPERTY RemoteSucceeds
