\* Two attempts at one job, a raw and a clean chunk, one loss, failure or death.
CONSTANTS
    Attempts = {a1, a2}
    RawChunks = 1
    CleanChunks = 1
    MaxFaults = 1
SPECIFICATION FairSpec
INVARIANTS OneLiveDispatch JobFollowsNewest AnswersMatchCommits
PROPERTIES WritesAreCurrent ImplementsOutcome DispatchesEnd
CHECK_DEADLOCK FALSE
