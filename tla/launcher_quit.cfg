SPECIFICATION FairSpec
CONSTANTS
    note = note
    notes = notes
    Query <- MCQuery
    Path <- MCPath
    Answers <- OneAnswer
    WindowMayFail = FALSE
    MaxEdits = 2
    MaxRequests = 2
CHECK_DEADLOCK FALSE
PROPERTIES
    QuitAllConcludes
