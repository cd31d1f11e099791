\* One task on any lane: a capability, Codex, an inline provider or a manual handoff.
CONSTANTS
    Task = {t1}
    Worker = {w1, w2}
    sellerSearch = sellerSearch
    Capability = {sellerSearch}
    Codex = codex
    Inline = inline
    Manual = manual
    Profile <- LaneProfiles
    NoProfile = noProfile
    NoClaim = noClaim
    NoTask = noTask
    MaxClaims = 6
    MaxApprovals = 2
    MaxRecords = 3
    MaxRetries = 2
    MaxAsks = 1
    MaxFaults = 1
SPECIFICATION Spec
SYMMETRY Perms
INVARIANTS OneLaunch CallsAreBounded LedgerIsTruthful UsageWithOutcome EditsAtMostOnce CompletedIsEarned
PROPERTIES TablesRefined LedgerRefinement
