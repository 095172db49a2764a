SPECIFICATION FairSpec
CONSTANTS
    weekly = weekly
    monthly = monthly
    home = home
    mail = mail
    odd = odd
    Procs = {weekly, monthly}
    Profiles = {home, mail, odd}
    Names <- MCNames
    NameOf <- MCNameOf
    Keep <- MCKeep
    Items <- MCItems
    Dbs <- MCDbs
    WithOwner = {home}
    WithMode = {mail}
    RunsOf <- ApartOdd
    Matches <- Plain
    Uncompilable = {3}
    Faults = {"close"}
    Paced = FALSE
    ClockBack = TRUE
    StartTime = 1
    MaxClock = 1
    InitDest = {"dir"}
    InitFiles <- Few
INVARIANT NoSpuriousFailure
PROPERTY RunSucceeds
