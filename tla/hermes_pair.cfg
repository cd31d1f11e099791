\* Two Codex tasks in one workspace.
CONSTANTS
    Task = {t1, t2}
    Worker = {w1, w2}
    sellerSearch = sellerSearch
    Capability = {sellerSearch}
    Codex = codex
    Inline = inline
    Manual = manual
    Profile <- CodexProfiles
    NoProfile = noProfile
    NoClaim = noClaim
    NoTask = noTask
    MaxClaims = 4
    MaxApprovals = 0
    MaxRecords = 3
    MaxRetries = 2
    MaxAsks = 0
    MaxFaults = 1
SPECIFICATION Spec
SYMMETRY Perms
INVARIANTS CodexIsContained
