SPECIFICATION MCSpec
CONSTANTS
    Time = {0, 1, 2, 3}
    MaxHold = 1
    MaxGap = 1
    SidesEquivalent = TRUE
    MaxEvents = 6
    NoRequest = NoRequest
    Item <- MCItem
    Index <- MCIndex
    Request <- MCRequest
    RequestLimit = 2
    UiLimit = 1
    MaxName = 3
    MaxPath = 2
    MaxFrame = 20
    Rest = {r0, r1}
    DefaultRest = r0
    r0 = r0
    r1 = r1
    Bad = Bad
    NoFile = NoFile
    Managed = Managed
    Foreign = Foreign
    MaxSaves = 2
    MaxFailures = 2
    MaxKills = 1
    MaxPowerCuts = 1
    MaxCorruptions = 1
    MaxDisasters = 3
INVARIANTS
    TypeOK
    TriggerNeedsDoubleTap
    DoubleTapTriggers
    BetterMatchRanksFirst
    WalkOrderDoesNotMatter
    UiGetsTheHits
    StoreTypeOK
    SavedSettingsSurvive
    EntryFollowsSettings
    NoTemporaryLeft
CHECK_DEADLOCK FALSE
