SPECIFICATION Spec
CONSTANTS
    Link = link
    LinkVersion = 2
    Tx = {x1, x2}
    NoTx = NoTx
    MaxReloads = 1
    USDC = USDC
    MEMO = MEMO
    Foreign = Foreign
    payer = payer
    stranger = stranger
    recipient = recipient
    elsewhere = elsewhere
    amount = amount
    less = less
    ownId = ownId
    otherId = otherId
INVARIANTS
    CompletedIsPaid
    PaidIsTransferred
    OwnPaymentIsProven
PROPERTIES
    NoSecondPayment
    PaidIsShown
