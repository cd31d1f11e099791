\* Two workers and two changes that one batch takes together, under fair workers,
\* with a death and an emergency stop at any time.
CONSTANTS
    Process = {api, w1, w2}
    Drainer = {w1, w2}
    Change = {c1, c2}
    NoChange = noChange
    MaxAttempts = 2
    Limit = 2
    MaxFaults = 1
SPECIFICATION FairSpec
INVARIANTS AttemptsWereMade GivenUpInTime SendsAreBounded UnreportedByDeath
PROPERTIES ReportedForGood
