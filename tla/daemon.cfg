SPECIFICATION FairSpec
CONSTANTS
    Daemon = {d1, d2}
    Child = d2
    None = None
    Stale = Stale
    Gone = Gone
    MaxStarts = 3
    MaxFaults = 1
    MaxStops = 1
    MaxProbes = 2
INVARIANTS
    TypeOK
    ClaimIsExclusive
    SteadyDaemonGetsNoRival
PROPERTIES
    LauncherFindsDaemon
CHECK_DEADLOCK FALSE
