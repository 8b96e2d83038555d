SPECIFICATION MountSpec
CONSTANTS
    o1 = o1
    o2 = o2
    h1 = h1
    None = None
    NoPrompt = NoPrompt
    Cell = {"/", "a", "b", "d", "w", "nul", "junk"}
    ArgVectors <- MCArgVectors
    Typed <- MCTyped
    NSIG = 6
    Safe = {2}
    Default <- MCDefault
    Inherited <- MCInherited
    Attempts = 2
    PromptFaults = {"calloc", "mlock", "getdump", "setdump", "sigaction", "munlock"}
    RelPath <- MCRelPath
    WorkDirs <- MCWorkDirs
    Obj = {o1, o2}
    Handle = {h1}
    MaxLen = 2
    MaxOff = 1
    MaxSize = 2
    Faults = {"nomem", "seek", "server"}
INVARIANTS
    MountTypeOK
    ConnectsAsAsked
    AnswerDecides
    AllReleased
    ErasedInTime
    HandlerFindsPrompt
    PromptLeavesNoTrace
    PathsAsAsked
    NoReplaceKeeps
    BytesInPlace
    ReportsWhatItMoved
PROPERTIES
    CallsReturn
CHECK_DEADLOCK FALSE
