CONSTANTS
    o1 = o1
    o2 = o2
    Orders <- TwoOrders
    Intervals <- OneInterval
    IntervalOf <- SameInterval
    NotBuilt = NotBuilt
    PeriodsPerDay = 2
    RetentionDays = 0
    MaxClock = 5
    MaxFaults = 3
    FaultKinds = {"dbt", "dump", "prune", "missed", "slow"}
SPECIFICATION FairSpec
INVARIANTS
    TypeOK
    LossBounded
    StorageBounded
PROPERTIES
    WholeDumpRemains
    EventuallyCounted
