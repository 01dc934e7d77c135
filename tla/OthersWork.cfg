\* A land that outlives its worker.
CONSTANTS
    t1 = t1
    t2 = t2
    a1 = a1
    a2 = a2
    c1 = c1
    c2 = c2
    c3 = c3
    Task <- OneTask
    Attempt <- TwoAttempts
    NoAttempt = NoAttempt
    TaskOf <- BothOnOne
    Change <- TwoChanges
    MaxTries = 3
    CheckedOut = FALSE
    MayAge = FALSE
    Quiet = FALSE
SPECIFICATION Spec
SYMMETRY Symmetry
CHECK_DEADLOCK FALSE
PROPERTIES
    BranchIsTheHolders
