SPECIFICATION CreationSpec
CONSTANTS
    e1 = e1
    e2 = e2
    e3 = e3
    e4 = e4
    e5 = e5
    e6 = e6
    Entry <- MCEntry
    HashVal <- MCHashVal
    None = None
    PrimeList <- MCPrimeList
    Target <- MCTarget
INVARIANTS
    TypeOK
    SearchTypeOK
    FindsLowerBound
    EndsInTime
    EachInItsBucket
    CountsEntries
    WalkVisitsExactly
    IterationVisitsAll
PROPERTIES
    ImplementsChainTable
SYMMETRY Entries
