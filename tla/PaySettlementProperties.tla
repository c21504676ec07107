---------------------- MODULE PaySettlementProperties ----------------------
(***************************************************************************)
(* What must hold of PaySettlement.                                        *)
(***************************************************************************)
EXTENDS PaySettlement

(* Every variable keeps its type, and a row never has more candidates than *)
(* the cap, even when submits that each saw a free slot race for it        *)
(* (addSubmittedHash).                                                     *)
TypeOK ==
    /\ rows \in [Token -> PayRecord]
    /\ \A t \in Token : Len(rows[t].submitted) <= MaxSubmittedHashes
    /\ outbox \in [Endpoint -> [EventIds -> Nat]]
    /\ subscribed \in [Endpoint -> BOOLEAN]
    /\ call \in [Handler -> Call]
    /\ answer \in [Handler -> Answer]
    /\ mined \in [Tx -> Nat \cup {NoTime}]
    /\ chainNow \in Nat
    /\ now \in Nat

-----------------------------------------------------------------------------
(* Settlement.                                                             *)

(* One transaction settles at most one row, however many submits and       *)
(* reconciles carry it at the same time (applySettlementToStore's          *)
(* settlement_used).  Two V1 links with the same terms match one receipt.  *)
OneRowPerTx ==
    \A t, u \in Token :
        IsPaid(rows[t]) /\ rows[t].paidTx = rows[u].paidTx => t = u

(* A paid row was paid by a mined transaction that matches its link, and a *)
(* V2 row by one mined before it expired: no hash is believed unverified   *)
(* (submitTransactionHash, reconcileOnePayment).                           *)
PaidIsProven ==
    \A t \in Token : IsPaid(rows[t]) =>
        /\ IsProof(t, rows[t].paidTx)
        /\ Version[t] = 2 => rows[t].paidAt = mined[rows[t].paidTx]

(* A row that was cancelled and is paid now was paid by a transaction      *)
(* mined strictly before the recorded cancellation, and is not shown as    *)
(* both (nextPaidRecord, payment-before-cancel).                           *)
PaidBeforeCancelled ==
    \A t \in Token : IsPaid(rows[t]) =>
        /\ ~rows[t].cancelled
        /\ rows[t].cancelledAt # NoTime =>
              Version[t] = 2 /\ rows[t].paidAt < rows[t].cancelledAt

(* A transaction noted as a late settlement was mined at or after the      *)
(* cancellation on record, and never is the one that paid the row.         *)
LateIsAfterCancel ==
    \A t \in Token : rows[t].lateTx # NoTx =>
        /\ rows[t].cancelledAt # NoTime
        /\ mined[rows[t].lateTx] >= rows[t].cancelledAt
        /\ rows[t].lateTx # rows[t].paidTx

(* Whatever settled a row, or came too late to, is proven, and is on its   *)
(* own side of block time: what paid the row was mined before any          *)
(* cancellation of it, what came late at or after the cancellation.        *)
SettlementsAreDue == PaidIsProven /\ PaidBeforeCancelled /\ LateIsAfterCancel

(* Of the V2 rows that carry one request id at most one is paid, although  *)
(* a cancellation can store a second row with that id.                     *)
OnePaidRowPerId ==
    \A t, u \in Token :
        /\ Version[t] = 2 /\ Version[u] = 2 /\ IdOf[t] = IdOf[u]
        /\ IsPaid(rows[t]) /\ IsPaid(rows[u])
        => t = u

(* A settlement on record is never replaced or cleared, whatever arrives   *)
(* later: a register, another hash, a cancellation.                        *)
PaidForGood ==
    [][\A t \in Token : IsPaid(rows[t]) =>
          rows'[t].paidTx = rows[t].paidTx /\ rows'[t].paidAt = rows[t].paidAt]_rows

(* What mutatePayStoreBlob puts back after a mutator (preserveDurableFlags) *)
(* never changes what a handler wrote: no mutator drops a row, a payment,  *)
(* a cancellation or a late settlement, so that the guards, which          *)
(* PaySettlement leaves out, are a second line of defence.                 *)
GuardsAreIdle ==
    [][\A t \in Token : PreserveDurableFlags(rows[t], rows'[t]) = rows'[t]]_rows

(* Seen from outside, the rows follow the lifecycle of PayLifecycle.       *)
Lifecycle ==
    INSTANCE PayLifecycle WITH
        phase     <- [t \in Token |-> IF rows[t].stored
                                      THEN PayPhase(t, rows[t], now) ELSE "NONE"],
        settledBy <- [t \in Token |-> rows[t].paidTx]

FollowsLifecycle == Lifecycle!Spec

-----------------------------------------------------------------------------
(* The outbox.                                                             *)

(* payment.paid is queued in the step that turns a row to PAID, once for   *)
(* each endpoint the payee has subscribed, and in no other step            *)
(* (settleAndEnqueue).                                                     *)
BecomesPaid(t) == ~IsPaid(rows[t]) /\ IsPaid(rows'[t])

QueuedOnTransition ==
    [][\A e \in Endpoint, i \in RequestId, x \in Tx :
          outbox'[e][<<i, x>>] - outbox[e][<<i, x>>] =
             IF \E t \in Token : /\ BecomesPaid(t) /\ rows'[t].paidTx = x
                                 /\ IdOf[t] = i /\ e \in Subscribers(t)
             THEN 1 ELSE 0]_<<rows, outbox>>

-----------------------------------------------------------------------------
(* What a handler told its caller.                                         *)

(* A response that reported a settlement or a cancellation stays true      *)
(* while other requests go on: the settlement is still the one on record,  *)
(* and a cancellation was only undone by a payment mined before it.        *)
AnswersStayTrue ==
    \A h \in Handler :
        LET a == answer[h] IN
        /\ a.kind = "paid" => rows[a.token].paidTx = a.tx
        /\ a.kind = "cancelled" =>
              \/ rows[a.token].cancelled
              \/ IsPaid(rows[a.token])
                 /\ rows[a.token].paidAt < rows[a.token].cancelledAt

(* Every request that was started is answered: the candidate loop of a     *)
(* reconcile ends.                                                         *)
EveryCallReturns ==
    \A h \in Handler : ~At(h, "idle") ~> At(h, "idle")

(* The merchant does not give up, and neither the chain reads nor the      *)
(* store fail every time the same hash is tried.                           *)
MerchantPersists ==
    \A h \in {g \in Handler : "reconcile" \in Serves[g]}, t \in Token, x \in Tx :
        /\ SF_vars(StartReconcile(h, t, x))
        /\ SF_vars(/\ ReconcileVerify(h)
                   /\ call[h].token = t /\ Head(call[h].queue) = x)
        /\ SF_vars(/\ ReconcileSettle(h)
                   /\ call[h].token = t /\ call[h].tx = x)

(* A payment that may settle its row is on record in the end when the      *)
(* merchant keeps reconciling with its hash, even if other hashes fill the *)
(* candidate slots and the scan no longer reaches it; unless it settled    *)
(* another row, the id was paid elsewhere, or a cancellation came first    *)
(* (reconcileOnePayment: the given hash is tried first).                   *)
GivenHashRecovers ==
    MerchantPersists =>
        \A t \in Token, x \in Tx :
            rows[t].stored /\ IsProof(t, x)
            ~> \/ IsPaid(rows[t])
               \/ SettlesAnother(rows, t, x)
               \/ IdPaidElsewhere(rows, t)
               \/ ~MayBePaid(t, rows[t], mined[x])

-----------------------------------------------------------------------------
(* What the documentation says and the code does not keep.                 *)

(* payStore.ts on nextCancelledRecord: "A derived-expired V2 request stays *)
(* expired instead of becoming CANCELLED."                                 *)
ExpiredIsNotCancelled ==
    [][\A t \in Token :
          rows[t].stored /\ PayPhase(t, rows[t], now) = "EXPIRED"
             => PayPhase(t, rows'[t], now') # "CANCELLED"]_<<rows, now>>

=============================================================================
