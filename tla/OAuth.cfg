CONSTANTS
    Names = {n1, n2}
    Persons = {p1}
    Clients = {web}
    Verifiers = {v1, v2}
    Handlers = {h1, h2}
    None = None
    RefreshExp = 1
    Grace = 0
    MaxLogins = 1
    MaxFamilies = 2
    MaxRows = 3
    MaxTime = 2
SPECIFICATION Spec
SYMMETRY OAuthSymmetry
CHECK_DEADLOCK FALSE
INVARIANTS
    TokensEarned
    FamilyHasOneRow
    FamilyLapses
