\* Ends: 1 task, 2 workers.  Compaction: 3 jobs of one role, two troubles.
CONSTANTS
    t1 = t1
    dev = dev
    Task <- EndsTask
    Worker = {w1, w2}
    Persona = {dev}
    NoTask = NoTask
    NoWorker = NoWorker
    NoPersona = NoPersona
    File = {}
    MaxAttempts = 1
    Boost = 10
    Review = {}
    Parallel = {t1}
    UsesWorktree = {t1}
    Own <- Nothing
    TaskSeq <- Zero
    Priority <- Zero
    BlockedBy <- Nothing
    Primary <- Dev
    Fallback <- NoDev
    Targets = {}
    k1 = k1
    k2 = k2
    k3 = k3
    Compactor <- ThreeCompactors
    NoCompactor = NoCompactor
    InForeground <- OneForeground
    MaxSends = 1
    MaxTroubles = 2
SPECIFICATION WorkersSpec
SYMMETRY WorkersSymmetry
INVARIANTS
    TypeOK
    InFlightIsClaimed
    OneJobInPane
    NoJobIsForgotten
PROPERTY ImplementsLife
CHECK_DEADLOCK FALSE
