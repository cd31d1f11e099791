\* One task that needs an approval, or is denied.
CONSTANTS
    Task = {t1}
    Worker = {w1, w2}
    sellerSearch = sellerSearch
    Capability = {sellerSearch}
    Codex = codex
    Inline = inline
    Manual = manual
    Profile <- PolicyProfiles
    NoProfile = noProfile
    NoClaim = noClaim
    NoTask = noTask
    MaxClaims = 4
    MaxApprovals = 5
    MaxRecords = 3
    MaxRetries = 2
    MaxAsks = 2
    MaxFaults = 0
SPECIFICATION Spec
SYMMETRY Perms
INVARIANTS ApprovedBeforeLaunch DeniedNeverRuns
PROPERTIES CancelledIsFinal DecisionStands
