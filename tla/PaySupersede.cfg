SPECIFICATION Spec

CONSTANTS
    NoTx = NoTx
    NoToken = NoToken
    Merchant = {m1, m2}
    t1 = t1
    t2 = t2
    x1 = x1
    x2 = x2
    m1 = m1
    m2 = m2
    r1 = r1
    r2 = r2
    e1 = e1
    e2 = e2
    h1 = h1
    h2 = h2
    Token = {t1, t2}
    Tx = {x1, x2}
    RequestId = {r1}
    Endpoint = {}
    Owner <- Owners
    Payee <- OnePayee
    ExpiresAt <- SplitExpiry
    Version <- SameIdVersion
    IdOf <- SameIdIdOf
    Settles <- SameIdSettles
    Handler = {h1, h2}
    Serves <- EveryoneAndMerchant
    MaxSubmittedHashes = 1
    MaxSubmitCandidates = 1
    MaxRecordsPerMerchant = 1
    Lookback = 3
    MaxTime = 1

INVARIANTS
    SettlementsAreDue
    OnePaidRowPerId
    AnswersStayTrue

PROPERTIES
    FollowsLifecycle
