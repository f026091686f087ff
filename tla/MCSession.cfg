CONSTANTS
    Conns = {1, 2}
    Permission <- MCPermission
    Paths <- MCPaths
    Versions <- MCVersions
    Size <- MCSize
    Ids <- MCPaths
    Jobs = {}
    InitialTrees <- MCInitialTrees
    EditEntries <- MCEditEntries
    Lease = 0
    NoSession = NoSession
    NoFile = NoFile
    NoPath = 0
    NoGoal = NoGoal
    LocalTrees <- MCLocalTrees
    ClientJobs <- MCClientJobs
    MaxEdits = 1
SPECIFICATION FairSessionSpec
CHECK_DEADLOCK FALSE
INVARIANTS
    SessionInvariant
    FilesAreFaithful
    SuccessMeansSynchronized
PROPERTIES
    MirrorsSource
    ExportIsFreed
