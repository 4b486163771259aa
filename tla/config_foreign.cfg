SPECIFICATION StoreSpec
CONSTANTS
    Rest = {r0, r1}
    DefaultRest = r0
    r0 = r0
    r1 = r1
    Bad = Bad
    NoFile = NoFile
    Managed = Managed
    Foreign = Foreign
    MaxSaves = 1
    MaxFailures = 0
    MaxKills = 0
    MaxPowerCuts = 0
    MaxCorruptions = 0
PROPERTY ForeignEntryIsKept
CHECK_DEADLOCK FALSE
