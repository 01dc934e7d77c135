\* Board: 5 tasks, 2 workers.  Triage: 2 decisions, 2 patches, one fault.
CONSTANTS
    a = a
    c = c
    d = d
    x = x
    r = r
    f = f
    dev = dev
    rev = rev
    Task <- BoardTask
    Worker = {w1, w2}
    Persona = {dev, rev}
    NoTask = NoTask
    NoWorker = NoWorker
    NoPersona = NoPersona
    File = {f}
    MaxAttempts = 1
    Boost = 10
    Review = {r}
    Parallel = {a, c, d, r}
    UsesWorktree = {a, x, r}
    Own <- BoardOwn
    TaskSeq <- BoardSeq
    Priority <- BoardPriority
    BlockedBy <- BoardBlockers
    Primary <- BoardPrimary
    Fallback <- BoardFallback
    Targets = {}
    p1 = p1
    p2 = p2
    Patch <- TwoPatches
    Foreign = foreign
    NoCommit = NoCommit
    MaxDecisions = 2
    MaxTrash = 2
    MaxFaults = 1
SPECIFICATION ScenesSpec
SYMMETRY Rows
INVARIANTS
    InFlightFits
    BlockersDone
    QueueMoves
    PlanIsTheLoop
    OnlyGcForgets
CHECK_DEADLOCK FALSE
