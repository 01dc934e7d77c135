\* One worktree whose worker committed on a detached HEAD.
CONSTANTS
    p1 = p1
    p2 = p2
    Patch <- OnePatch
    Foreign = foreign
    NoCommit = NoCommit
    MaxDecisions = 2
    MaxTrash = 2
    MaxFaults = 0
SPECIFICATION DetachedSpec
INVARIANT NoCommitIsLost
CHECK_DEADLOCK FALSE
