CONSTANTS
    k1 = k1
    k2 = k2
    main = main
    Objects = {k1, k2}
    None = None
    Peel <- NoPeel
    Short <- MainShort
    TrustKey = key
    Sent = {key, other}
    Headers <- OneHeader
    Versions <- OneBranch
    MaxSyncs = 1
    MaxEnds = 1
SPECIFICATION FairSpec
CHECK_DEADLOCK FALSE
INVARIANTS
    IncompleteOnlyAfterCut
    ResponsesReadBack
PROPERTIES
    MutatesOnlyVouched
    RequestsEnd
