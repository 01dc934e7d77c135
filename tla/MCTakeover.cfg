\* Lands and shared: 2 tasks, an attempt at each.  Takeover: 1 task, 2 attempts
\* at it.
CONSTANTS
    t1 = t1
    t2 = t2
    a1 = a1
    a2 = a2
    a3 = a3
    c1 = c1
    c2 = c2
    c3 = c3
    Task <- TwoTasks
    Attempt <- ThreeAttempts
    NoAttempt = NoAttempt
    TaskOf <- TwoAndOne
    Change <- ThreeChanges
    MaxTries = 3
    CheckedOut = FALSE
    MayAge = FALSE
    Quiet = TRUE
SPECIFICATION ScenesSpec
SYMMETRY Symmetry
VIEW View
INVARIANTS
    LandsAreChecked
    LandsInALine
    WorkKept
    LandedIsOnTarget
PROPERTY LandedStays
CHECK_DEADLOCK FALSE
