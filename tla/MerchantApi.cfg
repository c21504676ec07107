SPECIFICATION ApiSpec
CHECK_DEADLOCK FALSE
CONSTANTS
    p1 = p1
    p2 = p2
    PolicyId = {p1, p2}
    Call = {c1}
    Machine = machine
    Foreign = other
    Merchant = merchant
    Usdc = usdc
    Arc = arc
    None = None
    Absent = Absent
    Null = Null
    Bad = Bad
    MaxPolicies = 2
    MaxTime = 2
    Post <- MCPost
    Patch <- MCPatch
    Verified <- MCVerified
    Body <- MCBody
    Key = {1, 2, 3}
    Client = {a1, a2}
    Handler = {h1, h2}
    RouteClass = {payments}
    NoBucket = NoBucket
    Window = 2
    MaxActive = 1
    MaxStored = 2
    PreAuthLimit = 2
    KeyLimit = 1
    TouchInterval = 1
    MaxDuration = 1
    MaxSecrets = 2
    Server = {s1}
    PerKey = 1
    Global = 1
    SweepEvery = 2
    Grace = 1
    MaxDelay = 1
    r1 = r1
    r2 = r2
    RequestId = {r1, r2}
    Legacy = {r1}
    Agent = {r2}
    Expiry <- MCExpiry
    Amount <- MCAmount
    Policy <- MCPolicy
    KeyWindow = 1
    KeyTime = 1
    Code = {"INVALID_POLICY", "AMOUNT_LIMIT_EXCEEDED", "AGENT_NOT_ALLOWED"}
    Refusal <- MCRefusal
    MaxDenials = 1
    Day = 2
    MaxDenied = 2
SYMMETRY Symmetry
CONSTRAINT Bounded
INVARIANTS
    StoredWasJudged
    QuotasHold
    ReportsAgree
PROPERTIES
    OmittedRulesStillDeny
    DeadSecretStaysDead
