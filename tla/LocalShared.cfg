SPECIFICATION Spec
CONSTANTS
    weekly = weekly
    monthly = monthly
    home = home
    mail = mail
    odd = odd
    Procs = {weekly, monthly}
    Profiles = {home, mail, odd}
    Names <- MCNames
    NameOf <- MCNameOf
    Keep <- MCKeep
    Items <- MCItems
    Dbs <- MCDbs
    WithOwner = {home}
    WithMode = {mail}
    RunsOf <- Apart
    Matches <- Plain
    Uncompilable = {}
    Faults = {"stat", "mkdir", "open", "source", "panic", "remove", "chown", "chmod", "list", "purge", "crash"}
    Paced = TRUE
    ClockBack = FALSE
    StartTime = 2
    MaxClock = 4
    InitDest = {"absent", "dir"}
    InitFiles <- Old
CHECK_DEADLOCK FALSE
INVARIANTS
    TypeOK
    SuccessHasArchive
    RetentionBound
PROPERTIES
    KeepsNewest
    StoreSpec
