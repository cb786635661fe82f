CONSTANTS
    Kinds = {"small", "dynamic"}
    Threads = {t1, t2}
    Width = 2
    SmallSize = 1
    MaxTokens = 3
    MaxCells = 3
    MaxResets = 1
SPECIFICATION FairSpec
CHECK_DEADLOCK FALSE
INVARIANTS
    OneSessionPerReset
PROPERTIES
    RefusedWasClaimed
    LoginsEnd
