SPECIFICATION Spec
CONSTANTS
    h1 = h1
    h2 = h2
    x1 = x1
    x2 = x2
    UserPath <- OneFile
    Handle <- OneHandle
    DirHandle <- TwoDirs
    Path <- OneKey
    HashVal <- OneHashes
    Hash <- OneHash
    RenameOntoCached = FALSE
    RenameMayFail = FALSE
    TTL = 1
    None = None
    MaxTime = 2
    MaxVer = 3
    MaxNames = 6
    Ops <- DirOps
INVARIANTS
    AttrBounded
    ListingComplete
SYMMETRY DirSymmetry
