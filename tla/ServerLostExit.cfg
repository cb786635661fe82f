CONSTANTS
    Apps = {a1}
    AppSlots = 1
    DeleteSlots = 1
    MaxRestarts = 1
    MaxSignals = 1
SPECIFICATION FairSpec
CHECK_DEADLOCK FALSE

PROPERTIES
    ControlCStops
