CONSTANTS
    Holders = {h1, h2}
    Values = {v1, v2}
    Garbage = {g1}
SPECIFICATION Spec
CHECK_DEADLOCK FALSE
INVARIANT OnlyOneHolds
