SPECIFICATION Spec
CONSTANTS
    h1 = h1
    h2 = h2
    x1 = x1
    x2 = x2
    UserPath <- TwoFiles
    Handle <- OneHandle
    DirHandle <- OneDir
    Path <- TwoKeys
    HashVal <- TwoHashes
    Hash <- TwoHash
    RenameOntoCached = FALSE
    RenameMayFail = TRUE
    TTL = 0
    None = None
    MaxTime = 1
    MaxVer = 2
    MaxNames = 4
    Ops <- FailureOps
INVARIANTS
    TypeOK
    NothingHeld
