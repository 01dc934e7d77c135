\* Claims: 2 tasks, 3 workers.
CONSTANTS
    t1 = t1
    t2 = t2
    dev = dev
    Task <- ClaimsTask
    Worker = {w1, w2, w3}
    Persona = {dev}
    NoTask = NoTask
    NoWorker = NoWorker
    NoPersona = NoPersona
    File = {}
    MaxAttempts = 2
    Boost = 10
    Review = {}
    Parallel = {t1, t2}
    UsesWorktree = {t1, t2}
    Own <- Nothing
    TaskSeq <- InOrder
    Priority <- Zero
    BlockedBy <- Nothing
    Primary <- Dev
    Fallback <- NoDev
    Targets = {t1, t2}
SPECIFICATION ClaimsSpec
SYMMETRY Rows
INVARIANTS WorkingHoldsInFlight RetriesBounded
PROPERTIES OneTaskPerRow TargetWaitsForItsWorker HandoffIsFirst
CHECK_DEADLOCK FALSE
