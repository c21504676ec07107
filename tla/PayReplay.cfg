SPECIFICATION Spec

CONSTANTS
    NoTx = NoTx
    NoToken = NoToken
    Merchant = {m1, m2}
    t1 = t1
    t2 = t2
    x1 = x1
    x2 = x2
    m1 = m1
    m2 = m2
    r1 = r1
    r2 = r2
    e1 = e1
    e2 = e2
    h1 = h1
    h2 = h2
    Token = {t1, t2}
    Tx = {x1, x2}
    RequestId = {r1, r2}
    Endpoint = {e1, e2}
    Owner <- Owners
    Payee <- OnePayee
    ExpiresAt <- LateExpiry
    Version <- LegacyVersion
    IdOf <- LegacyIdOf
    Settles <- LegacySettles
    Handler = {h1, h2}
    Serves <- TwoPayers
    MaxSubmittedHashes = 1
    MaxSubmitCandidates = 1
    MaxRecordsPerMerchant = 2
    Lookback = 3
    MaxTime = 0

INVARIANTS
    TypeOK
    OneRowPerTx

PROPERTIES
    QueuedOnTransition
