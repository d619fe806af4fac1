SPECIFICATION MCSpec
CONSTANTS
    Texts = {t1, t2}
    Shas = {s1, s2}
    InitialRows = 1
    GrowthNum = 3
    GrowthDen = 2
    OnMismatch = "raise"
    Zero = Zero
    MaxBatch = 3
    MaxRows = 4
    Sessions = {sid1, sid2}
    Models = {minilm}
    MaxSpans = 2
    Disciplined = TRUE
INVARIANT HeldDurable
INVARIANT SpansKept
PROPERTY OperationEnds
PROPERTY AllocatorSpec
PROPERTY IdleLeavesRam
CONSTANTS
    sc1 = sc1
    sc2 = sc2
    Scopes = {sc1, sc2}
    MaxVersion = 3
    Editable = {sc1}
    Requests <- MCRequests
    EarlierCaches <- MCEarlierCaches
    Small = {sc2}
    ChunkCount <- MCChunkCount
    MaxWaiting = 1
    Deaths = {"walk", "chunks"}
    Cap = 1
INVARIANT RegistryConsistent
PROPERTY WatchedEditsLand
