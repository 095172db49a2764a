SPECIFICATION FairSpec
CONSTANTS
    Node <- MCNode
    Root = "."
    Parent <- MCParent
    InitTrees <- MCTrees
    ChangeTo = {"absent", "file", "dir"}
    Answers = {"nil", "skip", "err"}
    ErrAnswers = {"nil", "skip", "err"}
    Sessions = TRUE
CHECK_DEADLOCK FALSE
INVARIANTS
    NothingMissed
    ErrorsAreTheCallers
PROPERTIES
    WalkEnds
