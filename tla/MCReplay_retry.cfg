CONSTANTS
    bad = bad
    odd = odd
    good = good
    poison = poison
    junk = junk
    list = list
    Messages <- EveryMessage
    Kind <- KindsOfEvery
    MaxRetryCount = 1
    Habits <- AnyHabit
    DlqBufferSize = 2
    MaxRejects = 1
    MaxDlq = 7
    MaxRetry = 2
    MaxReplays = 2
    MaxFaults = 2
    FaultKinds = {"crash", "stop", "evict", "db", "dlq", "commit", "tool"}
SPECIFICATION FairSpec
INVARIANTS
    TypeOK
    RetryConfirmed
    FailuresSentBack
    CountNeverOverstated
    ExhaustedStays
PROPERTIES
    FailuresSurvive
    EventuallySettled
CHECK_DEADLOCK FALSE
