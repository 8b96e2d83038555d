SPECIFICATION Spec
CONSTANTS
    d1 = d1
    d2 = d2
    Path <- MCPath
    HashVal <- MCHashVal
    Hash <- MCHash
    TTL = 1
    None = None
    Data <- MCData
    MaxTime = 3
    MaxEntries = 3
    RenameOntoCached = TRUE
    RenameMayFail = TRUE
PROPERTIES
    InvalidateHides
