SPECIFICATION FairSpec
CONSTANTS
    Name <- MCName
    Path <- NestedPath
    Root <- NestedRoot
    Kind <- NestedKind
    Hidden <- Nothing
    Unreadable <- OnlyLocked
    IncludeHidden = FALSE
    Home <- home
    Automatic = TRUE
    ConfiguredMax = 2
    AutoLimit = AutoLimit
    AutoPerRoot = 8
    AutoMax = 12
    WatchLimit = 5
    QueueLimit = 2
    BufferEvents = 1
    InotifyMayFail = FALSE
    ReadMayFail = FALSE
    DiscoveryMayFail = FALSE
    MaxChanges = 2
INVARIANTS
    TypeOK
    TruncationIsExact
PROPERTIES
    EventuallyFresh
    RebuildsSettle
    ShutdownCompletes
