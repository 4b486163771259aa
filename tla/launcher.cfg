SPECIFICATION FairSpec
CONSTANTS
    note = note
    notes = notes
    Query <- MCQuery
    Path <- MCPath
    Answers <- MCAnswers
    WindowMayFail = TRUE
    MaxEdits = 3
    MaxRequests = 1
CHECK_DEADLOCK FALSE
INVARIANTS
    TypeOK
    SelectionInRange
    BlankQueryShowsNothing
    QuitAllLeavesNoDaemon
PROPERTIES
    OutdatedAnswersAreDropped
    SearchesSettle
