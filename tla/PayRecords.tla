----------------------------- MODULE PayRecords -----------------------------
(***************************************************************************)
(* The payment rows of the shared store and the pure functions that move   *)
(* them (src/src/lib/payStore.ts).  A row is keyed by its link token.  The *)
(* link fixes the version of the row, its request id, its payee and its    *)
(* expiry: they are parameters here, so a proof built for token t carries  *)
(* t's own request id and expiry and only its hash and block time are      *)
(* left to say.                                                            *)
(***************************************************************************)
EXTENDS Integers, FiniteSets, Sequences

CONSTANTS
    Token,      \* link tokens in canonical encoding, the keys of store.records
    Tx,         \* transaction hashes
    NoTx,       \* no hash: paidTx or lateSettlementTx is null
    Merchant,   \* wallets that own rows and webhook endpoints
    RequestId,  \* ids carried by the links
    Version,    \* Version[t]: 1 for a legacy link, 2 for a signed request
    IdOf,       \* IdOf[t]: the request id in the link
    Payee,      \* Payee[t]: recipient of t, for a V2 link also its merchant
    ExpiresAt,  \* ExpiresAt[t]: unix second at which a V2 request expires
    Settles,    \* Settles[x]: tokens whose terms the receipt of x matches
    MaxSubmittedHashes,     \* MAX_SUBMITTED_HASHES
    MaxRecordsPerMerchant   \* MAX_PAYMENT_RECORDS_PER_MERCHANT

ASSUME NoTxAssumption == NoTx \notin Tx

ASSUME LinkAssumption ==
    /\ Version \in [Token -> {1, 2}]
    /\ IdOf \in [Token -> RequestId]
    /\ Payee \in [Token -> Merchant]
    /\ ExpiresAt \in [Token -> Nat]
    /\ Settles \in [Tx -> SUBSET Token]

ASSUME LimitAssumption ==
    MaxSubmittedHashes \in Nat /\ MaxRecordsPerMerchant \in Nat

-----------------------------------------------------------------------------
(* Rows. "stored" says that the key is in store.records; views is kept as  *)
(* "was viewed", the only thing payPhase asks of it.                       *)

NoTime == -1

PayRecord ==
    [stored      : BOOLEAN,
     viewed      : BOOLEAN,
     submitted   : Seq(Tx),             \* submittedHashes, oldest first
     paidTx      : Tx \cup {NoTx},
     paidAt      : Nat \cup {NoTime},   \* paidBlockTimestamp
     cancelled   : BOOLEAN,
     cancelledAt : Nat \cup {NoTime},   \* cancelledAtSeconds
     lateTx      : Tx \cup {NoTx}]      \* lateSettlementTx

AbsentRecord ==
    [stored |-> FALSE, viewed |-> FALSE, submitted |-> << >>,
     paidTx |-> NoTx, paidAt |-> NoTime,
     cancelled |-> FALSE, cancelledAt |-> NoTime, lateTx |-> NoTx]

BlankRecord == [AbsentRecord EXCEPT !.stored = TRUE]

IsPaid(row) == row.paidTx # NoTx

PayPhase(t, row, now) ==
    IF IsPaid(row) THEN "PAID"
    ELSE IF row.cancelled THEN "CANCELLED"
    ELSE IF Version[t] = 2 /\ now >= ExpiresAt[t] THEN "EXPIRED"
    ELSE IF row.viewed THEN "VIEWED"
    ELSE "OPEN"

-----------------------------------------------------------------------------
(* Moving one row.                                                         *)

MergePayRecord_Reopens(row) ==
    IF ~row.stored THEN BlankRecord ELSE [row EXCEPT !.paidTx = NoTx]

(* Create-or-merge: a paid or cancelled row is frozen; the fields of an    *)
(* open row are rewritten from the same link, paidTx included.             *)
MergePayRecord(row) ==
    IF ~row.stored THEN BlankRecord
    ELSE IF IsPaid(row) \/ row.cancelled THEN row
    ELSE [row EXCEPT !.paidTx = NoTx]

MayBePaid_AtCancel(t, row, at) ==
    IF Version[t] = 1 THEN ~row.cancelled
    ELSE /\ at < ExpiresAt[t]
         /\ row.cancelled => row.cancelledAt # NoTime /\ at <= row.cancelledAt

(* A V1 proof has no block time to compare with the cancellation.          *)
MayBePaid(t, row, at) ==
    IF Version[t] = 1 THEN ~row.cancelled
    ELSE /\ at < ExpiresAt[t]
         /\ row.cancelled => row.cancelledAt # NoTime /\ at < row.cancelledAt

NextPaidRecord(t, row, x, at) ==
    [row EXCEPT !.paidTx = x,
                !.paidAt = IF Version[t] = 2 THEN at ELSE @,
                !.cancelled = FALSE]

IsLateSettlement(t, row, at) ==
    /\ row.cancelled /\ ~IsPaid(row)
    /\ Version[t] = 2 /\ at < ExpiresAt[t]
    /\ row.cancelledAt = NoTime \/ at >= row.cancelledAt

(* decidedAt is the clock the cancelling request read before it touched    *)
(* the store; a V1 cancellation is stamped inside the mutation instead.    *)
NextCancelledRecord(t, row, decidedAt, now) ==
    IF \/ IsPaid(row)
       \/ row.cancelled
       \/ Version[t] = 2 /\ decidedAt >= ExpiresAt[t]
    THEN row
    ELSE [row EXCEPT !.cancelled = TRUE,
                     !.cancelledAt = IF Version[t] = 2 THEN decidedAt ELSE now]

(* What mutatePayStoreBlob puts back into a row when a mutator dropped it:  *)
(* "stored" is the row that the mutator found.                             *)
PreserveDurableFlags(stored, next) ==
    LET paid == IsPaid(stored) /\ ~IsPaid(next)
        cancelled == /\ stored.cancelled /\ ~next.cancelled
                     /\ ~IsPaid(stored) /\ ~IsPaid(next)
        late == stored.lateTx # NoTx /\ next.lateTx = NoTx
    IN  IF stored.stored /\ ~next.stored /\ (IsPaid(stored) \/ stored.cancelled)
        THEN stored
        ELSE [stored      |-> next.stored,
              viewed      |-> next.viewed,
              submitted   |-> next.submitted,
              paidTx      |-> IF paid THEN stored.paidTx ELSE next.paidTx,
              paidAt      |-> IF paid /\ next.paidAt = NoTime
                              THEN stored.paidAt ELSE next.paidAt,
              cancelled   |-> next.cancelled \/ cancelled,
              cancelledAt |-> IF cancelled /\ stored.cancelledAt # NoTime
                              THEN stored.cancelledAt ELSE next.cancelledAt,
              lateTx      |-> IF late THEN stored.lateTx ELSE next.lateTx]

IsSubmitted(row, x) == \E i \in 1..Len(row.submitted) : row.submitted[i] = x

AddSubmittedHash_NoCap(row, x) ==
    IF ~row.stored \/ IsSubmitted(row, x)
    THEN row
    ELSE [row EXCEPT !.submitted = Append(@, x)]

AddSubmittedHash(row, x) ==
    IF ~row.stored \/ IsSubmitted(row, x)
       \/ Len(row.submitted) >= MaxSubmittedHashes
    THEN row
    ELSE [row EXCEPT !.submitted = Append(@, x)]

-----------------------------------------------------------------------------
(* Questions asked of the whole snapshot inside one mutation.              *)

IsDuplicateRequest(rows, t) ==
    /\ Version[t] = 2
    /\ \E u \in Token \ {t} :
          /\ rows[u].stored /\ Version[u] = 2
          /\ IdOf[u] = IdOf[t] /\ Payee[u] = Payee[t]

OwnedBy(rows, m) == {u \in Token : rows[u].stored /\ Payee[u] = m}

MayBeCreated(rows, t) ==
    /\ ~IsDuplicateRequest(rows, t)
    /\ Cardinality(OwnedBy(rows, Payee[t])) < MaxRecordsPerMerchant

SettlesAnother_Never(rows, t, x) == FALSE

SettlesAnother(rows, t, x) == \E u \in Token \ {t} : rows[u].paidTx = x

IdPaidElsewhere_Never(rows, t) == FALSE

IdPaidElsewhere(rows, t) ==
    /\ Version[t] = 2
    /\ \E u \in Token \ {t} :
          Version[u] = 2 /\ IdOf[u] = IdOf[t] /\ IsPaid(rows[u])

(* applySettlementToStore: its tests in their order.                       *)
SettleCode(rows, t, x, at) ==
    IF ~rows[t].stored THEN "not_found"
    ELSE IF rows[t].paidTx = x THEN "already_settled"
    ELSE IF IsPaid(rows[t]) THEN "already_paid_different"
    ELSE IF SettlesAnother(rows, t, x) THEN "settlement_used"
    ELSE IF IdPaidElsewhere(rows, t) THEN "duplicate_request"
    ELSE IF MayBePaid(t, rows[t], at) THEN "settled"
    ELSE IF IsLateSettlement(t, rows[t], at) THEN "late_settlement"
    ELSE "rejected"

ApplySettlement(rows, t, x, at) ==
    LET code == SettleCode(rows, t, x, at) IN
    IF code = "settled"
    THEN [rows EXCEPT ![t] = NextPaidRecord(t, rows[t], x, at)]
    ELSE IF code = "late_settlement"
    THEN [rows EXCEPT ![t].lateTx = x]
    ELSE rows

=============================================================================
