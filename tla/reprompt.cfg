\* A prompt raised again after the decision.
CONSTANTS
    Task = {t1}
    Worker = {w1, w2}
    sellerSearch = sellerSearch
    Capability = {sellerSearch}
    Codex = codex
    Inline = inline
    Manual = manual
    Profile <- PolicyProfiles
    NoProfile = noProfile
    NoClaim = noClaim
    NoTask = noTask
    MaxClaims = 3
    MaxApprovals = 2
    MaxRecords = 3
    MaxRetries = 2
    MaxAsks = 1
    MaxFaults = 1
SPECIFICATION Spec
PROPERTIES NoFreshPrompt
