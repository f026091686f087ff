CONSTANTS
    MaxEntries = 2
    MaxFile = 11
    MaxPath = 4
    MinChunk = 2
    MaxChunk = 3
    PageChunks = 2
    MaxControl = 18
    MaxText = 4
    ErrorChars = 2
    CharBytes = 2
    Billion = 2
    MaxU32 = 7
    Reserved = {3}
    ShardChunks = 3
    Within <- MCWithin
    EmptyHash = 1
    Manifests <- MCManifests
    Fields <- MCFields
SPECIFICATION GeometrySpec
CHECK_DEADLOCK FALSE
INVARIANTS
    SidesCutAlike
    SentIsRead
    NothingElseIsRead
