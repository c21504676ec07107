SPECIFICATION Spec
CHECK_DEADLOCK FALSE
CONSTANTS
    i1 = i1
    i2 = i2
    t1 = t1
    Id = {i1, i2}
    Tx = {t1}
    k1 = k1
    k2 = k2
    k3 = k3
    Key = {k1, k2, k3}
    Call = {c1, c2}
    NoId = NoId
    NoTx = NoTx
    NoKey = NoKey
    Creates <- CreateKeys
    Submits <- SubmitKeys
    Policy <- OneCap
    Expiry <- OneTick
    Grace = 0
    Pays <- PaysFirst
    MaxAttempts = 2
    MaxNow = 1
SYMMETRY Symmetric
INVARIANTS HeldFits ConsumedIsVerified VerifiedAnswersHold
PROPERTIES ReservationsAreKept AnswersStand
