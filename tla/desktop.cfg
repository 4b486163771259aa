SPECIFICATION FairSpec
CONSTANTS
    Ui = {u1, u2}
    Mode = {"Show", "ExitUi"}
    None = None
    Other = Other
    BusMayFail = TRUE
    MaxStarts = 2
    MaxExits = 1
    MaxRequests = 2
    XMayFail = TRUE
    LongServing = FALSE
    MaxCopies = 2
    MaxTakeovers = 1
CHECK_DEADLOCK FALSE
INVARIANTS
    TypeOK
    RivalOnlyOfLeaver
    AnswersAreOfTheirTime
PROPERTIES
    OthersSelectionOnlyWhileUntold
    RequestsConclude
    CopiesConclude
    EveryShowConcludes
