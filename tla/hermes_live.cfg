\* One task with a pre-dispatch ledger, Codex or capability, under fairness.
CONSTANTS
    Task = {t1}
    Worker = {w1, w2}
    sellerSearch = sellerSearch
    Capability = {sellerSearch}
    Codex = codex
    Inline = inline
    Manual = manual
    Profile <- LedgerProfiles
    NoProfile = noProfile
    NoClaim = noClaim
    NoTask = noTask
    MaxClaims = 5
    MaxApprovals = 2
    MaxRecords = 3
    MaxRetries = 2
    MaxAsks = 1
    MaxFaults = 1
SPECIFICATION FairSpec
PROPERTIES Settles SealCompletesTask
