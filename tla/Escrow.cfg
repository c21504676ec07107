SPECIFICATION Spec
CONSTANTS
    Escrow = {e1}
    p = p
    r = r
    Account <- MCAccount
    Payer <- MCPayer
    Recipient <- MCRecipient
    Creator <- MCRecipient
    Amount <- MCAmount
    ExpiresAt <- MCExpiresAt
    Supply <- MCSupply
    Handler = {h1, h2}
    Nonce = {n1}
    NoRow = NoRow
    MaxTime = 1
    MaxTxs = 4
    MaxOther = 1
SYMMETRY Symmetric
INVARIANTS MoneyIsWhereStatusSays StoredHashesTellTheLife AnnouncedOnce RowCanCatchUp
PROPERTIES BothLive
CHECK_DEADLOCK FALSE
