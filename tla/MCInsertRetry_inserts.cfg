CONSTANTS
    c1 = c1
    c2 = c2
    e1 = e1
    e2 = e2
    s1 = s1
    s2 = s2
    s3 = s3
    NoId = NoId
    NoSession = NoSession
    Clients <- TwoClients
    Ids <- TwoEvents
    Refused <- PoisonEvent
    Sessions <- ThreeSessions
    Attempts = 2
    MaxFaults = 2
SPECIFICATION FairSpec
INVARIANTS
    IInv
    AnswerMeansStored
    CleanTransaction
PROPERTIES
    CreditedOnce
    CallsEnd
