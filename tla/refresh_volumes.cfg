SPECIFICATION Spec
CONSTANTS
    Name <- MCName
    Path <- VolumePath
    Root <- VolumeRoot
    Kind <- VolumeKind
    Hidden <- Nothing
    Unreadable <- Nothing
    IncludeHidden = FALSE
    Home <- home
    Automatic = TRUE
    ConfiguredMax = AutoLimit
    AutoLimit = AutoLimit
    AutoPerRoot = 8
    AutoMax = 12
    WatchLimit = 6
    QueueLimit = 2
    BufferEvents = 1
    InotifyMayFail = TRUE
    ReadMayFail = TRUE
    DiscoveryMayFail = TRUE
    MaxChanges = 3
INVARIANTS
    CoveredListingsAreCurrent
    FullCoverageIsFresh
    FailedWatchSparesTheOthers
PROPERTIES
    QuietAfterExit
