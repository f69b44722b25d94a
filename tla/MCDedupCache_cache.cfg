CONSTANTS
    e1 = e1
    e2 = e2
    e3 = e3
    Ids <- ThreeIds
    MaxSize = 2
    Ttl = 1
    MaxTime = 4
SPECIFICATION Spec
INVARIANTS
    InOrder
    LookupIsExact
PROPERTIES
    Forgets
