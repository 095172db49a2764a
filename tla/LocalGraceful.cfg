SPECIFICATION FairSpec
CONSTANTS
    weekly = weekly
    monthly = monthly
    home = home
    mail = mail
    odd = odd
    Procs = {weekly, monthly}
    Profiles = {home, mail, odd}
    Names <- MCNames
    NameOf <- MCNameOf
    Keep <- MCKeep
    Items <- MCItems
    Dbs <- MCDbs
    WithOwner = {}
    WithMode = {home}
    RunsOf <- Apart
    Matches <- Plain
    Uncompilable = {}
    Faults = {"open", "source", "chmod", "list", "glob", "purge"}
    Paced = TRUE
    ClockBack = FALSE
    StartTime = 2
    MaxClock = 3
    InitDest = {"dir"}
    InitFiles <- Old
CHECK_DEADLOCK FALSE
INVARIANTS
    NoPartialLeft
PROPERTIES
    KeepsNewestUsable
    RunEnds
