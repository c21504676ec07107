SPECIFICATION SignInSpec
CONSTANTS
    Merchant = {a1, a2}
    MaxMessages = 3
    MaxCreated = 3
    Handler = {h1, h2}
    None = None
    Tolerance = 1
    Slack = 2
    ChallengeTTL = 1
    SessionTTL = 3
    MaxSessions = 2
    MaxAhead = 0
    MaxDuration = 1
    MaxTime = 3
    MaxFlights = 2
    MaxGeneration = 3
SYMMETRY Symmetric
INVARIANTS
    SignatureWorksOnce
    SignedOutStaysOut
PROPERTIES
    EndsForAReason
    DeliveredIsOwn
CHECK_DEADLOCK FALSE
