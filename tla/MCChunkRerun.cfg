CONSTANTS
    p1 = p1
    p2 = p2
    p3 = p3
    big = big
    small = small
    ChunksOf <- MCLength
    ChunkLen = 2
    Retention = 1
    None = None
SPECIFICATION Spec
CONSTANTS
    Procs = {p1}
    Unrestricted = {}
    Keys = {big}
    MaxBytes = 4
    MaxTransfers = 2
    MaxClock = 1
    MaxCrashes = 1
    MaxDamage = 0
INVARIANT RerunIsAccepted
