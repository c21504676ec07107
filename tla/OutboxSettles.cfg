SPECIFICATION FairSpec
CONSTANTS
    Event = {v1}
    Endpoint = {e1}
    Worker = {w1, w2}
    NoWorker = NoWorker
    NoJob = NoJob
    MaxAttempts = 3
    RetryDelay <- OneTick
    Lease = 2
    MaxDue = 3
    Keep = 5
    MaxEndpoints = 2
    Prompt = TRUE
    MaxRows = 4
    MaxAge = 0
    MaxCrashes = 1
INVARIANTS OneOpenRow
PROPERTIES EveryDeliverySettles
