SPECIFICATION HSpec
CONSTANTS
    n1 = n1
    n2 = n2
    n3 = n3
    n4 = n4
    Node <- MCNode
    NULL = NULL
    TTL = 1
    MaxTime = 4
INVARIANTS
    TypeOK
    ListIsChain
    HeadFreshMeansAllFresh
    DecrementAssertHolds
PROPERTIES
    NoEarlyEviction
    ImplementsLruQueue
