CONSTANTS
    p1 = p1
    p2 = p2
    p3 = p3
    big = big
    small = small
    ChunksOf <- MCLength
    ChunkLen = 2
    Retention = 1
    None = None
    Procs = {p1, p2, p3}
    Unrestricted = {p2, p3}
    Keys = {big, small}
    MaxBytes = 4
    MaxTransfers = 1
    MaxClock = 1
    MaxCrashes = 1
    MaxDamage = 1
SYMMETRY MCSymmetry
SPECIFICATION Spec
INVARIANTS
    StoreInvariant
    TransfersAreOwned
PROPERTIES
    EvictedOnlyWhenIdle
    ImplementsCache
