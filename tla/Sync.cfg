SPECIFICATION FairSpec
CONSTANTS
    Names <- MCNames
    Matches <- MCMatches
    Uncompilable = {2}
    MaxClock = 1
    SyncProfiles <- MCProfiles
    SyncFaults = {"prepare", "connect", "local", "remote", "open", "create", "copy", "close", "list", "purge", "disconnect", "crash"}
INVARIANTS
    TypeOK
    MirrorsListing
    LocalRetention
PROPERTIES
    KeepsNewestCopies
    SyncEnds
