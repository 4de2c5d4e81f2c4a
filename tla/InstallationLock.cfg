SPECIFICATION LockSpec
CONSTANTS
    Processes = {p1, p2, p3, p4}
    None = None
    StaleAfter = 0
    MaxClock = 1
    MaxTroubled = 1
SYMMETRY Symmetry
INVARIANTS
    ExclusionUnlessMisfired
    OwnedLockSurvives
    ReturnedLeavesNoLock
CHECK_DEADLOCK FALSE
PROPERTIES
    OnlyOwnerOrDeadUnlinked
