CONSTANTS
    N = 2
    CheckEvery = 2
    Clients = {c1, c2}
    Lifetimes = {1, 2}
    Leeway = 1
    MaxNum = 4
    MaxTime = 2
SPECIFICATION Spec
CHECK_DEADLOCK FALSE
SYMMETRY ClientSymmetry
INVARIANTS
    RangesChained
    FullRangesJoin
    AcceptedAtMostThrice
    ExpirySorted
    SoundWhenMonotone
    NothingRecordedAhead
PROPERTIES
    RecordStays
