CONSTANTS
    c1 = c1
    c2 = c2
    e1 = e1
    e2 = e2
    NoOne = NoOne
    Consumers <- OneConsumer
    Partitions <- TwoPartitions
    Ids <- Events
    Log <- SplitLog
    CommitBatchSize = 2
    DbRetryAttempts = 2
    DedupCacheSize = 1
    DlqBufferSize = 2
    MaxInflight = 1
    MaxFaults = 2
    FaultKinds = {"crash", "stop", "evict", "db", "dlq"}
SPECIFICATION FairSpec
INVARIANTS
    QuiescentMeansCommitted
    RedeliveryBounded
PROPERTIES
    CommittedMonotonic
    ExitCommitsWhatIsDone
    EventuallyHandled
    EventuallyDrained
