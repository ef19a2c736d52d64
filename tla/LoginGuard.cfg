SPECIFICATION FairSpec
CHECK_DEADLOCK FALSE
CONSTANTS
    Requests = {r1, r2}
    Limit = 2
    Window = 2
    LockAfter = 4
    LockFor = 2
    MaxNow = 4
    MaxFailures = 4
    CacheFails = TRUE
INVARIANTS RefusedAfterFailures CountsEveryFailure
PROPERTY RefusalEnds
