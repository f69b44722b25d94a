CONSTANTS
    bad = bad
    odd = odd
    good = good
    poison = poison
    junk = junk
    list = list
    Messages <- OnlyOdd
    Kind <- KindsOfOdd
    MaxRetryCount = 2
    Habits = {{"all"}}
    DlqBufferSize = 2
    MaxRejects = 1
    MaxDlq = 3
    MaxRetry = 1
    MaxReplays = 1
    MaxFaults = 0
    FaultKinds = {}
SPECIFICATION Spec
INVARIANT SameVerdict
CHECK_DEADLOCK FALSE
