CONSTANTS
    Procs = {p1, p2}
    Commands <- MCCommands
    Configs <- MCConfigs
    Peers = {"a", "b"}
    ConfigDirectory <- MCDirectory
    ChunkSizes = {4}
    MaxAttempts = 2
    MaxEntries = 4
    NoConfig = NoConfig
SYMMETRY MCSymmetry
SPECIFICATION Spec
INVARIANT StartupInvariant
PROPERTY OnlyMissingIsMade
