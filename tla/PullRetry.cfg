SPECIFICATION PullSpec
CONSTANTS
    weekly = weekly
    home = home
    Procs = {weekly}
    Profiles = {home}
    Names <- MCNames
    NameOf <- MCNameOf
    Keep <- KeepOne
    Items <- MCItems
    Dbs <- MCDbs
    WithOwner = {}
    WithMode = {}
    RunsOf <- MCRunsOf
    Matches <- MCMatches
    Uncompilable = {}
    Faults = {}
    Paced = TRUE
    ClockBack = FALSE
    StartTime = 1
    MaxClock = 2
    InitDest = {"dir"}
    InitFiles <- First
    SyncProfiles <- PullTwo
    SyncFaults = {"copy"}
CHECK_DEADLOCK FALSE
INVARIANT PulledWhatWasComplete
