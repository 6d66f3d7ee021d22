SPECIFICATION FairSpec
CONSTANTS
    Root = "root"
    Notions <- MCNotions
    Boundary = {"root", "hub", "spec"}
    Size <- MCSize
    MaxChunkChars = 7
    ChunkOverlapChars = 1
    MaxNesting = 2
    Retries = 3
    BatchSize = 2
    MaxRuns = 2
    MaxEdits = 1
INVARIANTS TypeOK OneSyncPerCollection NothingElseIsIndexed QuietSyncIsComplete
PROPERTY SyncEnds
CHECK_DEADLOCK FALSE
