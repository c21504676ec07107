SPECIFICATION Spec
CONSTANTS
    Event = {v1}
    Endpoint = {e1}
    Worker = {w1, w2}
    NoWorker = NoWorker
    NoJob = NoJob
    MaxAttempts = 3
    RetryDelay <- OneTick
    Lease = 1
    MaxDue = 3
    Keep = 2
    MaxEndpoints = 2
    Prompt = FALSE
    MaxRows = 4
    MaxAge = 0
    MaxCrashes = 1
SYMMETRY Symmetric
INVARIANTS OneRowPerAttempt
PROPERTIES LeasesHold OutcomesAreFinal
