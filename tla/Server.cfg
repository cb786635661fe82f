CONSTANTS
    Apps = {a1, a2, a3}
    AppSlots = 2
    DeleteSlots = 3
    MaxRestarts = 2
    MaxSignals = 2
SPECIFICATION FairSpec
CHECK_DEADLOCK FALSE
INVARIANTS
    FilesInUseStay
    OnlyDeletedRemoved
    DeletedAreRemoved
PROPERTIES
    RestartTakesEffect
    HeldExitStops
    ShutdownEnds
