SPECIFICATION Spec
CONSTANTS
    Names <- MCNames
    Matches <- Wildcard
    Dates <- MCDates
    Profile = 1
    Keeps <- MCKeeps
    MaxFiles = 4
    Faults = {"stat", "remove"}
CHECK_DEADLOCK FALSE
INVARIANTS
    OldestGoFirst
    KeepsExactlyN
    AgreesWithArchives
