CONSTANTS
    Key = {1}
    RouteClass = {payments}
    Handler = {h1, h2}
    None = None
    NoBucket = NoBucket
    Window = 2
    MaxActive = 1
    MaxStored = 2
    PreAuthLimit = 1
    KeyLimit = 1
    TouchInterval = 2
    MaxDuration = 1
    MaxSecrets = 2
    MaxTime = 1
SPECIFICATION Spec
CHECK_DEADLOCK FALSE
PROPERTIES RevokedStaysRevoked
