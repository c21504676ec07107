------------------------------ MODULE Checkout -------------------------------
(***************************************************************************)
(* The payment page of one link (src/src/components/Checkout.tsx with      *)
(* checkoutState.ts, sendMemo.ts and checkoutObserve.ts) as its payer uses *)
(* it: it asks the server for the state of the link every few seconds,     *)
(* sends the payment through the wallet, and reports the hash.             *)
(*                                                                         *)
(* The answers of the server arrive in any order, the page can be reloaded *)
(* between any two steps, and other browsers pay the same link.  What is   *)
(* lost by a reload is all but the hash kept in sessionStorage.            *)
(*                                                                         *)
(* The server is the abstract store of PayLifecycle, which PaySettlement   *)
(* implements.  The link decodes and its merchant signed it: a page for    *)
(* any other token shows an error and nothing else.                        *)
(***************************************************************************)
EXTENDS MemoProof

CONSTANTS
    Link,        \* the token the page was opened with
    LinkVersion, \* 1 or 2
    Tx, NoTx,    \* transactions the wallets can send
    MaxReloads   \* bound: reloads of the page

ASSUME CheckoutAssumption ==
    /\ LinkVersion \in {1, 2}
    /\ NoTx \notin Tx
    /\ MaxReloads \in Nat

VARIABLES
    phase, settledBy,  \* the row of the link, as in PayLifecycle
    chain,             \* what became of each transaction
    observed,          \* state of the link in the last answer
    availability,      \* whether the last answer was one
    inflight,          \* answers on their way to the page
    signatureOk,       \* the V2 signature has been verified
    due,               \* the page's clock has passed expiresAt
    connected, connecting, onArc, balance,  \* what the wallet reports
    flow,              \* progress of the payment as the page shows it
    sending,           \* progress inside sendMemoPayment
    pending,           \* the transaction sendMemoPayment waits for
    submittedHash,     \* React state
    stored,            \* sessionStorage
    announcing,        \* attempts to report the hash
    reloads

serverVars == <<phase, settledBy>>
statusVars == <<observed, availability, inflight>>
localVars == <<signatureOk, due>>
walletVars == <<connected, connecting, onArc, balance>>
sendVars == <<flow, sending, pending>>
hashVars == <<submittedHash, stored, announcing>>
vars == <<serverVars, chain, statusVars, localVars, walletVars, sendVars,
          hashVars, reloads>>

Server == INSTANCE PayLifecycle WITH
    Token <- {Link}, RequestId <- {Link},
    Version <- [t \in {Link} |-> LinkVersion], IdOf <- [t \in {Link} |-> t]

Seen == {"open", "cancelled", "paid"}
Balance == {"loading", "unavailable", "enough", "insufficient"}
Flow == {"idle", "preparing", "awaiting_signature", "submitted", "error"}

-----------------------------------------------------------------------------
(* The proof that the version of the link asks for.  The receipt page,     *)
(* which names no link, has one only: of a transaction that pays a legacy  *)
(* link it may say "Unable to verify".                                     *)
settlementProofFor(logs) ==
    IF LinkVersion = 2 THEN verifyReceiptForRequest(logs, terms)
    ELSE matchV1Settlement(logs, terms)

Kept(tx) ==
    IF LinkVersion = 2
    THEN Transferred(terms, tx) /\ presentReceipt(Receipt(tx)) = "Verified"
    ELSE Moved(terms, tx) /\ Announced(terms, tx)

(* What a transaction is to the server once it is mined in time: not       *)
(* proven; proven, and rightly so, with a receipt page that agrees; or     *)
(* proven, to the checkout or to an agent, though it should not be.        *)
Binds(tx) == \E load \in liveLoad(tx) : bindProof(load, terms)

Fate(tx) ==
    LET proven == settlementProofFor(Receipt(tx))
        right == Kept(tx)
    IN  CASE (proven \/ Binds(tx)) /\ ~right -> "forged"
          [] proven /\ right -> "settles"
          [] OTHER -> "unproven"

Fates == {Fate(tx) : tx \in Executions}

(* What the page, or an agent, sends for this request.                     *)
FateOfPayment ==
    IF Binds(<<memoInstruction(terms, payer)>>)
    THEN Fate(<<encodeAuthorizedMemoCall(terms, payer)>>) ELSE "unproven"

-----------------------------------------------------------------------------
(* What the page shows.                                                    *)

storedPaid == observed = "paid"

effectiveFlow_NotRestored == flow

effectiveFlow ==
    IF flow = "idle" /\ submittedHash # NoTx /\ ~storedPaid
      THEN "submitted" ELSE flow

wallet ==
    CASE ~connected -> "disconnected"
      [] connected /\ connecting -> "connecting"
      [] OTHER -> "connected"

(* What a payer who may still pay sees, by what the wallet reports: a page *)
(* on another network offers the switch before it knows the link's state.  *)
payerState ==
    IF wallet = "connecting" THEN "connecting"
    ELSE IF wallet = "connected" /\ ~onArc THEN "wrong_network"
    ELSE IF ~signatureOk \/ availability = "unknown" THEN "loading"
    ELSE IF availability = "failed" THEN "unavailable"
    ELSE IF wallet = "disconnected" THEN "open"
    ELSE IF balance = "insufficient" THEN "insufficient_balance"
    ELSE "connected"

resolveCheckoutState_OnSubmit ==
    IF storedPaid \/ flow = "submitted" THEN "completed"
    ELSE IF observed = "cancelled" THEN "cancelled"
    ELSE IF due THEN "expired"
    ELSE IF effectiveFlow # "idle" THEN effectiveFlow
    ELSE payerState

resolveCheckoutState ==
    IF storedPaid THEN "completed"
    ELSE IF observed = "cancelled" THEN "cancelled"
    ELSE IF due THEN "expired"
    ELSE IF effectiveFlow # "idle" THEN effectiveFlow
    ELSE payerState

canPay ==
    /\ resolveCheckoutState = "connected"
    /\ balance \in {"enough", "unavailable"}

-----------------------------------------------------------------------------
(* Asking for the state of the link.                                       *)

observeCheckoutRecord ==
    CASE phase[Link] = "PAID" -> "paid"
      [] phase[Link] = "CANCELLED" -> "cancelled"
      [] OTHER -> "open"

(* A request made now is answered by the row as it is now.                 *)
Ask == inflight' = inflight \cup {observeCheckoutRecord'}

pullStatus ==
    /\ UNCHANGED <<serverVars, chain, observed, availability, localVars,
                   walletVars, sendVars, hashVars, reloads>>
    /\ Ask

(* A page that stops reading the answers once it has reported a hash.      *)
Answered_NotWaiting(answer) ==
    /\ flow # "submitted"
    /\ answer \in inflight
    /\ inflight' = inflight \ {answer}
    /\ observed' = answer
    /\ availability' = "ready"
    /\ UNCHANGED <<serverVars, chain, localVars, walletVars, sendVars,
                   hashVars, reloads>>

(* Answers are not matched to requests: a late one replaces a newer one.   *)
Answered(answer) ==
    /\ answer \in inflight
    /\ inflight' = inflight \ {answer}
    /\ observed' = answer
    /\ availability' = "ready"
    /\ UNCHANGED <<serverVars, chain, localVars, walletVars, sendVars,
                   hashVars, reloads>>

(* 503 or no response; what the page last saw stays.                       *)
AskFailed ==
    /\ availability' = "failed"
    /\ UNCHANGED <<serverVars, chain, observed, inflight, localVars,
                   walletVars, sendVars, hashVars, reloads>>

Retry ==
    /\ resolveCheckoutState = "unavailable"
    /\ availability' = "unknown"
    /\ UNCHANGED <<serverVars, chain, observed, localVars, walletVars,
                   sendVars, hashVars, reloads>>
    /\ Ask

(* The two effects that do not depend on the server.                       *)
SignatureVerified ==
    /\ ~signatureOk
    /\ signatureOk' = TRUE
    /\ UNCHANGED <<serverVars, chain, statusVars, due, walletVars, sendVars,
                   hashVars, reloads>>

ClockPassesExpiry ==
    /\ LinkVersion = 2
    /\ ~due
    /\ due' = TRUE
    /\ UNCHANGED <<serverVars, chain, statusVars, signatureOk, walletVars,
                   sendVars, hashVars, reloads>>

-----------------------------------------------------------------------------
(* The wallet.                                                             *)

onConnect ==
    /\ resolveCheckoutState = "open"
    /\ ~connecting
    /\ connecting' = TRUE
    /\ UNCHANGED <<serverVars, chain, statusVars, localVars, connected, onArc,
                   balance, sendVars, hashVars, reloads>>

connectFailed ==
    /\ connecting
    /\ connecting' = FALSE
    /\ flow' = "error"
    /\ UNCHANGED <<serverVars, chain, statusVars, localVars, connected, onArc,
                   balance, sending, pending, hashVars, reloads>>

(* An answer to onConnect, or a wallet that connects again by itself.      *)
WalletConnects ==
    /\ ~connected
    /\ connected' = TRUE
    /\ connecting' \in {connecting, FALSE}
    /\ onArc' \in BOOLEAN
    /\ balance' = "loading"
    /\ UNCHANGED <<serverVars, chain, statusVars, localVars, sendVars,
                   hashVars, reloads>>

WalletDisconnects ==
    /\ connected
    /\ connected' = FALSE
    /\ onArc' = FALSE /\ balance' = "loading"
    /\ UNCHANGED <<serverVars, chain, statusVars, localVars, connecting,
                   sendVars, hashVars, reloads>>

(* onSwitch, or the payer switches in the wallet.                          *)
NetworkChanges ==
    /\ connected
    /\ onArc' = ~onArc
    /\ UNCHANGED <<serverVars, chain, statusVars, localVars, connected,
                   connecting, balance, sendVars, hashVars, reloads>>

classifyBalance ==
    /\ connected
    /\ balance' \in Balance
    /\ UNCHANGED <<serverVars, chain, statusVars, localVars, connected,
                   connecting, onArc, sendVars, hashVars, reloads>>

-----------------------------------------------------------------------------
(* Paying.                                                                 *)

onPay ==
    /\ canPay
    /\ flow' = "preparing"
    /\ UNCHANGED <<serverVars, chain, statusVars, localVars, walletVars,
                   sending, pending, hashVars, reloads>>

sendMemoPayment ==
    /\ flow = "preparing"
    /\ flow' = "awaiting_signature"
    /\ sending' = "checking"
    /\ UNCHANGED <<serverVars, chain, statusVars, localVars, walletVars,
                   pending, hashVars, reloads>>

(* presentSendResult keeps no hash of a send that did not succeed.         *)
SendFails ==
    /\ flow' = "error"
    /\ sending' = "none"
    /\ pending' = NoTx
    /\ UNCHANGED <<serverVars, statusVars, localVars, walletVars, hashVars,
                   reloads>>

(* Expired, a smart account, a simulation that reverts, no balance for     *)
(* the gas, or the node does not answer.                                   *)
CheckFails == sending = "checking" /\ SendFails /\ UNCHANGED chain

AskWallet ==
    /\ sending = "checking"
    /\ ~due
    /\ sending' = "prompted"
    /\ UNCHANGED <<serverVars, chain, statusVars, localVars, walletVars,
                   flow, pending, hashVars, reloads>>

Rejected == sending = "prompted" /\ SendFails /\ UNCHANGED chain

Signed(x) ==
    /\ sending = "prompted"
    /\ chain[x] = "none"
    /\ chain' = [chain EXCEPT ![x] = "sent"]
    /\ pending' = x
    /\ sending' = "mining"
    /\ UNCHANGED <<serverVars, statusVars, localVars, walletVars, flow,
                   hashVars, reloads>>

(* waitForTransactionReceipt returned a receipt with status success.       *)
Submitted ==
    /\ sending = "mining"
    /\ chain[pending] \notin {"sent", "reverted"}
    /\ flow' = "submitted"
    /\ sending' = "none"
    /\ pending' = NoTx
    /\ submittedHash' = pending
    /\ stored' = pending
    /\ announcing' = "first"
    /\ UNCHANGED <<serverVars, chain, statusVars, localVars, walletVars,
                   reloads>>

(* It returned one that reverted, or the wait timed out.                   *)
ReceiptFails ==
    /\ sending = "mining"
    /\ SendFails
    /\ UNCHANGED chain

TryAgain ==
    /\ resolveCheckoutState = "error"
    /\ flow' = "idle"
    /\ UNCHANGED <<serverVars, chain, statusVars, localVars, walletVars,
                   sending, pending, hashVars, reloads>>

-----------------------------------------------------------------------------
(* Reporting the hash: three attempts after a payment, one after a reload. *)

AnotherAttempt ==
    CASE announcing = "first" -> "second"
      [] announcing = "second" -> "third"
      [] announcing \in {"third", "once"} -> "none"

(* Another browser of the same link, or a scan of the logs, has the server *)
(* record a transaction as well.                                           *)
Records(x) == chain[x] \in {"settles", "forged"} /\ Server!Pay(Link, x)

(* The server answered: it recorded the hash, already had, or could not    *)
(* prove it yet.  After the response the page asks for the state.          *)
AnnounceAnswered ==
    /\ announcing # "none"
    /\ Records(submittedHash) \/ UNCHANGED serverVars
    /\ announcing' = "none"
    /\ Ask
    /\ UNCHANGED <<chain, observed, availability, localVars, walletVars,
                   sendVars, submittedHash, stored, reloads>>

(* 503, or no response, whether or not the server got as far as recording. *)
AnnounceFails ==
    /\ announcing # "none"
    /\ Records(submittedHash) \/ UNCHANGED serverVars
    /\ announcing' = AnotherAttempt
    /\ UNCHANGED <<chain, statusVars, localVars, walletVars, sendVars,
                   submittedHash, stored, reloads>>

(* Everything but sessionStorage is lost, the pending hash included.       *)
Reload ==
    /\ reloads < MaxReloads
    /\ reloads' = reloads + 1
    /\ observed' = "none" /\ availability' = "unknown" /\ inflight' = {}
    /\ signatureOk' = (LinkVersion = 1)
    /\ connected' = FALSE /\ connecting' = FALSE
    /\ onArc' = FALSE /\ balance' = "loading"
    /\ flow' = "idle" /\ sending' = "none" /\ pending' = NoTx
    /\ submittedHash' = stored
    /\ announcing' = IF stored = NoTx THEN "none" ELSE "once"
    /\ UNCHANGED <<serverVars, chain, due, stored>>

-----------------------------------------------------------------------------
(* The chain, the server and the other payers.                             *)

(* A transaction is mined in time, after the link expired, or reverts.     *)
Mined(x) ==
    /\ chain[x] = "sent"
    /\ \E fate \in {FateOfPayment, "reverted"}
                   \cup (IF LinkVersion = 2 THEN {"late"} ELSE {}) :
          chain' = [chain EXCEPT ![x] = fate]
    /\ UNCHANGED <<serverVars, statusVars, localVars, walletVars, sendVars,
                   hashVars, reloads>>

(* Any other transaction, of another browser, a wallet or a contract.      *)
MinedElsewhere(x) ==
    /\ chain[x] = "none"
    /\ \E fate \in Fates : chain' = [chain EXCEPT ![x] = fate]
    /\ UNCHANGED <<serverVars, statusVars, localVars, walletVars, sendVars,
                   hashVars, reloads>>

(* That a row was viewed or has expired makes no difference to the page.   *)
RowMoves ==
    /\ Server!Cancel(Link) \/ \E x \in Tx : Records(x)
    /\ UNCHANGED <<chain, statusVars, localVars, walletVars, sendVars,
                   hashVars, reloads>>

-----------------------------------------------------------------------------
Init ==
    /\ phase = [t \in {Link} |-> "OPEN"]
    /\ settledBy = [t \in {Link} |-> NoTx]
    /\ chain = [x \in Tx |-> "none"]
    /\ observed = "none" /\ availability = "unknown" /\ inflight = {}
    /\ signatureOk = (LinkVersion = 1) /\ due \in {FALSE, LinkVersion = 2}
    /\ connected = FALSE /\ connecting = FALSE
    /\ onArc = FALSE /\ balance = "loading"
    /\ flow = "idle" /\ sending = "none" /\ pending = NoTx
    /\ submittedHash = NoTx /\ stored = NoTx /\ announcing = "none"
    /\ reloads = 0

Page ==
    \/ pullStatus \/ Retry \/ SignatureVerified \/ ClockPassesExpiry
    \/ AskFailed \/ \E answer \in Seen : Answered(answer)
    \/ onConnect \/ connectFailed
    \/ onPay \/ sendMemoPayment \/ CheckFails \/ AskWallet
    \/ Submitted \/ ReceiptFails \/ TryAgain
    \/ AnnounceAnswered \/ AnnounceFails
    \/ Reload

Wallet ==
    \/ WalletConnects \/ WalletDisconnects \/ NetworkChanges
    \/ classifyBalance \/ Rejected
    \/ \E x \in Tx : Signed(x)

World == RowMoves \/ \E x \in Tx : Mined(x) \/ MinedElsewhere(x)

Next == Page \/ Wallet \/ World

(* The timer of the page fires every eight seconds, and an answer that     *)
(* says paid arrives.                                                      *)
Fairness ==
    /\ WF_vars(pullStatus)
    /\ WF_vars(Answered("paid"))

Spec == Init /\ [][Next]_vars /\ Fairness

-----------------------------------------------------------------------------
TypeOK ==
    /\ phase \in [{Link} -> Server!Phase]
    /\ settledBy \in [{Link} -> Tx \cup {NoTx}]
    /\ chain \in [Tx -> {"none", "sent", "reverted", "late",
                        "settles", "forged", "unproven"}]
    /\ observed \in Seen \cup {"none"}
    /\ availability \in {"unknown", "failed", "ready"}
    /\ inflight \subseteq Seen
    /\ {signatureOk, due, connected, connecting, onArc} \subseteq BOOLEAN
    /\ balance \in Balance /\ flow \in Flow
    /\ sending \in {"none", "checking", "prompted", "mining"}
    /\ {pending, submittedHash, stored} \subseteq Tx \cup {NoTx}
    /\ announcing \in {"none", "once", "first", "second", "third"}
    /\ reloads \in 0 .. MaxReloads

(* "completed is allowed only when paymentLinkPhase is already PAID"       *)
(* (checkoutState.ts:12): whatever order answers, reloads and sends come   *)
(* in, a page says Paid only of a link the server has recorded as paid.    *)
CompletedIsPaid ==
    resolveCheckoutState = "completed" => phase[Link] = "PAID"

(* A row is paid only by a transaction in which a call made for this       *)
(* request transferred its amount to its recipient: not by a memo that     *)
(* wraps the payment of another request, not by a transfer that was made   *)
(* for something else.  The receipt page the checkout then links to says   *)
(* Verified.  What the proof of an agent's payment accepts is held to the  *)
(* same (a transaction that it wrongly accepts is taken to pay the row).   *)
(* Of a legacy link less is claimed: the amount came to the payee in a     *)
(* transaction that also made a memo of the link's text.                   *)
PaidIsTransferred ==
    phase[Link] = "PAID" => chain[settledBy[Link]] = "settles"

(* What the page sends, the server can prove: the call that sendMemo.ts    *)
(* builds, and that agents are instructed to make, is the one that         *)
(* receipt.ts looks for and that bindProof accepts once the certificate of *)
(* its block is there.  Only one mined after the link expired is in vain.  *)
OwnPaymentIsProven ==
    stored # NoTx => chain[stored] \in {"settles", "late"}

(* A page that knows of a payment it made never has the wallet sign        *)
(* another one: not after the answers went back and forth, not after       *)
(* "Try again", not after a reload.  What it does not know of is a payment *)
(* whose receipt it stopped waiting for.                                   *)
NoSecondPayment ==
    [][(\E x \in Tx : chain[x] = "none" /\ chain'[x] = "sent")
          => stored = NoTx /\ pending = NoTx]_vars

(* Once the server has the payment the page comes to say so and stays with *)
(* it, though answers of before may still arrive.                          *)
PaidIsShown ==
    [](phase[Link] = "PAID" => <>[](resolveCheckoutState = "completed"))

=============================================================================
