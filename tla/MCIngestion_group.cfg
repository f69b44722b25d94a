CONSTANTS
    c1 = c1
    c2 = c2
    e1 = e1
    e2 = e2
    NoOne = NoOne
    Consumers <- TwoConsumers
    Partitions <- TwoPartitions
    Ids <- Events
    Log <- ToxicLog
    CommitBatchSize = 2
    DbRetryAttempts = 1
    DedupCacheSize = 1
    DlqBufferSize = 1
    MaxInflight = 1
    MaxFaults = 1
    FaultKinds = {"crash", "stop", "evict", "db", "dlq", "commit", "commit_call"}
SPECIFICATION Spec
SYMMETRY ConsumerSymmetry
INVARIANTS
    TypeOK
    OnlyConfirmedCommitted
    CacheBackedByRows
PROPERTIES
    KeepsPromise
    RejectsSurvive
