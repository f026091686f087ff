CONSTANTS
    writer = writer
    reader = reader
    Conns <- MCConns
    Permission <- MCPermission
    Paths <- MCPaths
    Versions <- MCVersions
    Size <- MCSize
    Ids = {1}
    Jobs <- MCJobs
    InitialTrees <- MCInitialTrees
    EditEntries <- MCEditEntries
    Lease = 0
    NoSession = NoSession
    NoFile = NoFile
    NoPath = 0
    PageChunks = 1
    NoTransfer = NoTransfer
SPECIFICATION V2Spec
INVARIANT V2Invariant
PROPERTIES
    InstalledIsDescribed
    CompleteBeforeDone
    KeepsServerPromises
