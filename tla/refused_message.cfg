\* One worker, one change, no deaths: a refused message.
CONSTANTS
    Process = {api, w1}
    Drainer = {w1}
    Change = {c1}
    NoChange = noChange
    MaxAttempts = 2
    Limit = 1
    MaxFaults = 0
SPECIFICATION Spec
PROPERTIES RefusalsAreFailures
