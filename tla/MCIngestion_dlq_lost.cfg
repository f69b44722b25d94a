CONSTANTS
    c1 = c1
    c2 = c2
    e1 = e1
    e2 = e2
    NoOne = NoOne
    Consumers <- OneConsumer
    Partitions <- OnePartition
    Ids <- Events
    Log <- RejectLog
    CommitBatchSize = 2
    DbRetryAttempts = 2
    DedupCacheSize = 1
    DlqBufferSize = 3
    MaxInflight = 1
    MaxFaults = 1
    FaultKinds = {"crash"}
SPECIFICATION Spec
INVARIANTS
    CommittedRejectSurvives
