SPECIFICATION Spec
CONSTANTS
    ctrl = ctrl
    caps = caps
    Code = {ctrl, caps}
    KeyMap <- MCKeyMap
    Time <- MCTime
    MaxHold = 0
    MaxGap = 0
    SidesEquivalent = TRUE
    MaxEvents = 4
    MaxQueue = 1
    MaxChanges = 2
INVARIANTS
    TypeOK
    TriggerNeedsRealDoubleTap
PROPERTY LockedSessionIsLeftAlone
SYMMETRY Swap
CHECK_DEADLOCK FALSE
