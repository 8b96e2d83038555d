SPECIFICATION Spec
CONSTANTS
    h1 = h1
    h2 = h2
    x1 = x1
    x2 = x2
    UserPath <- NestedFile
    Handle <- TwoHandles
    DirHandle <- OneDir
    Path <- NestedKeys
    HashVal <- NestedHashes
    Hash <- NestedHash
    RenameOntoCached = FALSE
    RenameMayFail = FALSE
    TTL = 1
    None = None
    MaxTime = 2
    MaxVer = 3
    MaxNames = 3
    Ops <- AttrOps
INVARIANTS
    AttrBounded
    ReadYourWrites
    HandleMapSound
SYMMETRY HandleSymmetry
