SPECIFICATION Spec
CONSTANTS
    Daemon = {d1, d2, d3}
    Child = d3
    None = None
    Stale = Stale
    Gone = Gone
    MaxStarts = 3
    MaxFaults = 0
    MaxStops = 0
    MaxProbes = 1
INVARIANT LaterStarterFailsFast
CHECK_DEADLOCK FALSE
