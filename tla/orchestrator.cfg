\* Two runs for one task, in one process or two; a death or an emergency stop.
CONSTANTS
    Run = {r1, r2}
    Guarded = {r1, r2}
    Process = {p1, p2}
    NoProcess = noProcess
    Limit = 1
    MaxAttempts = 2
    Threshold = 2
    MaxApprovals = 2
    MaxFaults = 1
SPECIFICATION FairSpec
INVARIANTS OneRunPerApproval SlotsAreHonest
PROPERTIES StopPreventsRetry RunsEnd
CHECK_DEADLOCK FALSE
