SPECIFICATION Spec
CONSTANTS
    h1 = h1
    h2 = h2
    x1 = x1
    x2 = x2
    UserPath <- TwoTrees
    Handle <- OneHandle
    DirHandle <- OneDir
    Path <- TreeKeys
    HashVal <- TreeHashes
    Hash <- TreeHash
    RenameOntoCached = FALSE
    RenameMayFail = FALSE
    TTL = 0
    None = None
    MaxTime = 1
    MaxVer = 3
    MaxNames = 3
    Ops <- RenameOps
INVARIANTS
    GoneNotServed
