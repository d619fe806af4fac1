CONSTANTS
    Paths = {p1, p2, p3}
    NoPath = NoPath
    MaxLen = 5
    Ids <- MCIds
    ProjectNames <- MCNames
    Searches <- MCSearches
    Routes <- MCRoutes
    Texts <- TextCalls
    Retrievals <- RetrievalCalls
    Splices <- SpliceCalls
    Walks <- PathCalls
    Evictions <- RetentionCalls
    Configurations <- ConfigCalls
    PackScans <- PackCalls
    NoProject = NoProject
    NoCwd = NoCwd
    CommonNames = {"app"}
    RrfK = 60
    TopN = 3
    RankK = 60
    Remembered = 2
    AutoDedup = {"wiki-en"}
    Unnameable = {"My Pack"}
    MaxText = 5
    MaxChunk = 4
    SentinelDirs <- MCSentinelDirs
    LexRank <- MCLexRank
    DirPaths <- MCDirPaths
    TopDirs = {"data"}
    Given <- MCGiven
    Existing <- MCExisting
    Mentionable <- MCMentionable
    MentionsPerTurn = 2
    SpecMin = 2
    ActiveMin = 3
    ActiveMinTurns = 2
    DemoteAfter = 2
    DriftGap = 2
SPECIFICATION Spec
CHECK_DEADLOCK FALSE
INVARIANT CleanEvictsToBudget
