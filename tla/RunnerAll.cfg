SPECIFICATION FairSpec
CONSTANTS
    Inputs <- AllInputs
    CmdFaults = {"panic", "vanish", "smtp", "readdir"}
CHECK_DEADLOCK FALSE
INVARIANTS
    ExitCodeHonest
    AllOrNoneRun
    MailsMatchOutcomes
    LoadedMeetsAssumptions
PROPERTY CommandEnds
