CONSTANTS
    writer = writer
    reader = reader
    Conns <- MCConns
    Permission <- MCPermission
    Paths <- MCPaths
    Versions <- MCVersions
    Size <- MCSize
    Ids = {1, 2}
    Jobs <- MCJobs
    InitialTrees <- MCInitialTrees
    EditEntries <- MCEditEntries
    Lease = 0
    NoSession = NoSession
    NoFile = NoFile
    NoPath = 0
SPECIFICATION Spec
INVARIANT ServerInvariant
PROPERTIES
    NoLostUpdate
    ExtrasGoLast
    FinishIsHonest
