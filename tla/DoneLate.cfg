\* A done that was overtaken.
CONSTANTS
    t1 = t1
    dev = dev
    Task <- EndsTask
    Worker = {w1, w2}
    Persona = {dev}
    NoTask = NoTask
    NoWorker = NoWorker
    NoPersona = NoPersona
    File = {}
    MaxAttempts = 1
    Boost = 10
    Review = {}
    Parallel = {t1}
    UsesWorktree = {t1}
    Own <- Nothing
    TaskSeq <- Zero
    Priority <- Zero
    BlockedBy <- Nothing
    Primary <- Dev
    Fallback <- NoDev
    Targets = {}
SPECIFICATION EndsSpec
SYMMETRY Rows
PROPERTY DoneByItsHolder
CHECK_DEADLOCK FALSE
