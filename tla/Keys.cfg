CONSTANTS
    SN = 3
    EphemeralInterval = 2
    Leeway = 1
    ProofExpiration = 3
    Width = 3
    Signers = {s1, s2}
    None = None
    MaxTime = 5
    MaxLoads = 2
    MaxKeys = 7
    MaxTokens = 1
SPECIFICATION Spec
SYMMETRY Symmetry
CHECK_DEADLOCK FALSE
INVARIANTS
    NewestKeysVerify
    FreshProofsVerify
    LateProofsFail
