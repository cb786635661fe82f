CONSTANTS
    Keys = {k1, k2, k3, k4, k5}
    Values = {v1}
    Writer = w
    Readers = {r1}
    Requested = 3
    None = None
    Panic = Panic
    CapacityError = CapacityError
SPECIFICATION Spec
SYMMETRY Symmetry
INVARIANTS
    EntriesReachable
    ProbesBehind
    KeysUnique
    GivesUpOnlyWhenFull
PROPERTIES
    IsOnceMap
