SPECIFICATION StoreSpec
CONSTANTS
    Rest = {r0, r1}
    DefaultRest = r0
    r0 = r0
    r1 = r1
    Bad = Bad
    NoFile = NoFile
    Managed = Managed
    Foreign = Foreign
    MaxSaves = 2
    MaxFailures = 0
    MaxKills = 1
    MaxPowerCuts = 0
    MaxCorruptions = 1
INVARIANT ValidConfigRemains
CHECK_DEADLOCK FALSE
