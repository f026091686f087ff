CONSTANTS
    Conns = {1, 2}
    Permission <- MCPermission
    Paths <- MCPaths
    Versions <- MCVersions
    Size <- MCSize
    Ids <- MCPaths
    Jobs = {}
    InitialTrees <- MCInitialTrees
    EditEntries <- MCEditEntries
    Lease = 0
    NoSession = NoSession
    NoFile = NoFile
    NoPath = 0
    NoGoal = NoGoal
    LocalTrees <- MCLocalTrees
    ClientJobs <- MCClientJobs
    MaxEdits = 1
    PageChunks = 1
    NoTransfer = NoTransfer
    MaxLosses = 1
SPECIFICATION SessionV2Spec
CHECK_DEADLOCK FALSE
INVARIANTS
    SessionV2Invariant
    SuccessIsHonest
    OnlyMissingSent
PROPERTIES
    ProgressSurvives
    MirrorsSource
