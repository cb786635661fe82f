CONSTANTS
    Kinds = {"small"}
    Threads = {t1, t2}
    Width = 3
    SmallSize = 2
    MaxTokens = 5
    MaxCells = 4
    MaxResets = 0
SPECIFICATION Spec
CHECK_DEADLOCK FALSE
PROPERTY
    SeenOnlyIfUsed
