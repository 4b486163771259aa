SPECIFICATION Spec
CONSTANTS
    Name <- MCName
    Path <- ChainPath
    Root <- ChainRoot
    Kind <- ChainKind
    Hidden <- OnlyDot
    Unreadable <- Nothing
    IncludeHidden = FALSE
    Home <- home
    Automatic = TRUE
    ConfiguredMax = AutoLimit
    AutoLimit = AutoLimit
    AutoPerRoot = 8
    AutoMax = 12
    WatchLimit = 4
    QueueLimit = 2
    BufferEvents = 1
    InotifyMayFail = FALSE
    ReadMayFail = FALSE
    DiscoveryMayFail = FALSE
    MaxChanges = 3
INVARIANTS
    RacingEventLeavesNoStaleListing
