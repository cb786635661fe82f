CONSTANTS
    N = 2
    CheckEvery = 4
    Users = {u1}
    Clients = {c1, c2}
    Values = {v1}
    None = None
    EphemeralInterval = 1
    CounterExpires = 1
    ExpireTime = 1
    Leeway = 1
    ChangeAge = 1
    Quota <- MCQuota
    MaxFiles = 2
    MaxSessions = 2
    MaxTime = 2
    MaxEpoch = 1
CONSTRAINT FewTokens
SPECIFICATION Spec
CHECK_DEADLOCK FALSE
SYMMETRY Symmetry
INVARIANTS
    SessionProvesPassword
    HonouredSinceChange
PROPERTIES
    TokensWorkOnce
    OnlyOwnTokens
    ReplacesWhatItSaw
