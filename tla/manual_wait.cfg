\* A wait for a manual response that is not durable.
CONSTANTS
    Task = {t1}
    Worker = {w1, w2}
    sellerSearch = sellerSearch
    Capability = {sellerSearch}
    Codex = codex
    Inline = inline
    Manual = manual
    Profile <- ManualProfiles
    NoProfile = noProfile
    NoClaim = noClaim
    NoTask = noTask
    MaxClaims = 3
    MaxApprovals = 1
    MaxRecords = 3
    MaxRetries = 2
    MaxAsks = 1
    MaxFaults = 1
SPECIFICATION Spec
PROPERTIES ManualWaitDurable
