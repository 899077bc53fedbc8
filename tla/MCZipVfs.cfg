\* Two workers, two calls each, one I/O error, panics on node 2.
SPECIFICATION LiveSpec
CONSTANTS
    w1 = w1
    w2 = w2
    Workers <- MCWorkers
    Nodes <- MCNodes
    Files <- MCFiles
    Locked <- MCLocked
    Fragile = {2}
    File <- MCFile
    data_start <- MCdata_start
    size <- MCsize
    crc32 <- MCcrc32
    Ids <- MCIds
    Calls <- MCCalls
    None = None
    Failed = Failed
    MaxCalls = 2
    MaxFaults = 1
INVARIANTS
    TypeOK
    CacheCoherent
    CursorIsPrivate
    InflatedOnce
    NoFailureOutlives
PROPERTIES
    CachedForever
    EveryCallReturns
    KeepsPromise
\* The workers may all stop calling.
CHECK_DEADLOCK FALSE
