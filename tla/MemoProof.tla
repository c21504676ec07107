----------------------------- MODULE MemoProof -------------------------------
(***************************************************************************)
(* How the server proves that a transaction pays a request: from the logs  *)
(* of its receipt (src/src/lib/receipt.ts).  The payment is a call of the  *)
(* Memo contract, which announces a memo, forwards a USDC transfer in the  *)
(* name of its caller, and emits the memo with the hash of what it         *)
(* forwarded; sendMemo.ts builds that call.                                *)
(*                                                                         *)
(* A transaction can do more than that: call contracts that move tokens,   *)
(* or that call the Memo contract again.  Executions is a set of such      *)
(* transactions and Receipt the logs they leave; the logs are all that the *)
(* proof sees.  Hashes are injective: a hash is what was hashed.           *)
(***************************************************************************)
EXTENDS Naturals, Sequences, FiniteSets, FiniteSetsExt, SequencesExt

CONSTANTS
    USDC, MEMO, Foreign,   \* contracts: the token, the memo, any other
    payer, stranger,       \* who calls the Memo contract
    recipient, elsewhere,  \* who is paid
    amount, less,          \* and how much
    ownId, otherId         \* memo ids: of this request, of another one

ASSUME ContractsAssumption == Foreign # USDC

Sender == {payer, stranger}

(* The terms of this request, as its token carries them.                   *)
terms == [memoId |-> ownId, recipient |-> recipient, amount |-> amount]

-----------------------------------------------------------------------------
(* What a transaction does.  A memo call forwards data to target; a call   *)
(* of USDC is the transfer, a call of another contract does as it likes.   *)

(* transfer(to, value), or its hash.                                       *)
transferCalldataHash(to, value) == <<to, value>>

transferCalls ==
    {transferCalldataHash(recipient, amount),
     transferCalldataHash(elsewhere, amount),
     transferCalldataHash(recipient, less)}

Moves ==
    [kind : {"move"}, token : {USDC, Foreign}, from : Sender,
     data : transferCalls]

MemoCall(sender, id, target, data, body) ==
    [kind |-> "memo", sender |-> sender, id |-> id, target |-> target,
     data |-> data, body |-> body]

(* A memo that is named by its text, which other requests may share.       *)
encodeAuthorizedMemoCall_OtherMemo(request, sender) ==
    MemoCall(sender, otherId, USDC,
             transferCalldataHash(request.recipient, request.amount), <<>>)

encodeAuthorizedMemoCall(request, sender) ==
    MemoCall(sender, request.memoId, USDC,
             transferCalldataHash(request.recipient, request.amount), <<>>)

Payments ==
    {MemoCall(s, id, USDC, data, <<>>) :
        s \in Sender, id \in {ownId, otherId}, data \in transferCalls}

(* A call of another contract, with the data of the payment as bait.       *)
Wrapped ==
    {MemoCall(payer, id, Foreign, transferCalldataHash(recipient, amount), b) :
        id \in {ownId, otherId},
        b \in {<<>>} \cup {<<step>> : step \in Moves \cup Payments}}

Steps == Moves \cup Payments \cup Wrapped

Executions == {<<s>> : s \in Steps} \cup (Steps \X Steps)

(* All that a transaction did: its steps, and what the contracts that it   *)
(* called through the memo did in their turn.                              *)
Parts(step) == {step} \cup (IF step.kind = "memo" THEN Range(step.body) ELSE {})
Done(tx) == UNION {Parts(tx[i]) : i \in DOMAIN tx}

(* What the request asked for was done: its own call forwarded a transfer  *)
(* of the amount to the recipient.                                         *)
Transferred(request, tx) ==
    \E s \in Sender : encodeAuthorizedMemoCall(request, s) \in Done(tx)

(* The amount came to the recipient, and a memo of the request was made:   *)
(* what is left of it when neither has to be for the other.                *)
Sends(step, data) ==
    /\ step.data = data
    /\ USDC = IF step.kind = "move" THEN step.token ELSE step.target

Moved(request, tx) ==
    \E step \in Done(tx) :
        Sends(step, transferCalldataHash(request.recipient, request.amount))

Announced(request, tx) ==
    \E step \in Done(tx) : step.kind = "memo" /\ step.id = request.memoId

-----------------------------------------------------------------------------
(* The logs of a transaction.                                              *)

TransferLog(token, from, data) ==
    [address |-> token, event |-> "Transfer", from |-> from,
     to |-> data[1], value |-> data[2]]

(* Forwarded by the Memo contract, the transfer is in its caller's name.   *)
MemoLogs(call, index, inner) ==
    <<[address |-> MEMO, event |-> "BeforeMemo", memoIndex |-> index]>>
    \o inner
    \o <<[address |-> MEMO, event |-> "Memo", memoIndex |-> index,
          sender |-> call.sender, target |-> call.target,
          callDataHash |-> call.data, memoId |-> call.id]>>

SimpleLogs(step, index) ==
    IF step.kind = "move" THEN <<TransferLog(step.token, step.from, step.data)>>
    ELSE MemoLogs(step, index, <<TransferLog(USDC, step.sender, step.data)>>)

StepLogs(step, i) ==
    IF step.kind = "move" \/ step.target = USDC THEN SimpleLogs(step, <<i>>)
    ELSE MemoLogs(step, <<i>>,
                  FlattenSeq([j \in DOMAIN step.body |->
                                  SimpleLogs(step.body[j], <<i, j>>)]))

Receipt(tx) == FlattenSeq([i \in DOMAIN tx |-> StepLogs(tx[i], i)])

-----------------------------------------------------------------------------
(* The proof.  Events are named by their position, which is logIndex.      *)

Decoded(logs, address, event) ==
    {k \in DOMAIN logs : logs[k].address = address /\ logs[k].event = event}

decodeMemoEvents(logs) == Decoded(logs, MEMO, "Memo")
decodeBeforeMemos(logs) == Decoded(logs, MEMO, "BeforeMemo")
decodeUsdcTransfers(logs) == Decoded(logs, USDC, "Transfer")

(* Where the call of this memo began.                                      *)
windowStarts(logs, memo) ==
    {k \in decodeBeforeMemos(logs) :
        logs[k].memoIndex = logs[memo].memoIndex /\ k < memo}

Forwarded(logs, memo, start) ==
    {k \in decodeUsdcTransfers(logs) :
        /\ start < k /\ k < memo
        /\ logs[k].from = logs[memo].sender
        /\ transferCalldataHash(logs[k].to, logs[k].value)
             = logs[memo].callDataHash}

(* A transfer anywhere in the transaction counts, whoever it was made for. *)
bindTransfer_First(logs, memo) ==
    LET found == Forwarded(logs, memo, 0)
    IN  IF found = {} THEN {} ELSE {Min(found)}

(* The one transfer the memo can have forwarded, if it is the only one.    *)
bindTransfer(logs, memo) ==
    IF logs[memo].target # USDC \/ windowStarts(logs, memo) = {} THEN {}
    ELSE LET found == Forwarded(logs, memo, Max(windowStarts(logs, memo)))
         IN  IF Cardinality(found) = 1 THEN found ELSE {}

(* The first memo of the request's id speaks for it.                       *)
matchMemoSettlement(logs, memoId) ==
    LET memos == {k \in decodeMemoEvents(logs) : logs[k].memoId = memoId}
    IN  IF memos = {} THEN {} ELSE bindTransfer(logs, Min(memos))

(* exactForRequest of a receipt that did not revert, its time aside.       *)
verifyReceiptForRequest(logs, request) ==
    \E k \in matchMemoSettlement(logs, request.memoId) :
        logs[k].to = request.recipient /\ logs[k].value = request.amount

(* A legacy link is settled by a memo of its text and a transfer of its    *)
(* amount to its payee, wherever in the transaction each was made.         *)
matchV1Settlement(logs, request) ==
    /\ \E k \in decodeMemoEvents(logs) : logs[k].memoId = request.memoId
    /\ \E k \in decodeUsdcTransfers(logs) :
          logs[k].to = request.recipient /\ logs[k].value = request.amount

(* The public receipt page, which names no request: the first memo that    *)
(* forwarded a transfer speaks for the transaction.                        *)
parseMemoReceipt(logs) ==
    LET memos == decodeMemoEvents(logs)
        bound == {m \in memos : bindTransfer(logs, m) # {}}
    IN  [memoEventValid |-> memos # {},
         settlementValid |-> bound # {},
         memo |-> IF bound = {} THEN {} ELSE {Min(bound)}]

presentReceipt(logs) ==
    IF parseMemoReceipt(logs).settlementValid THEN "Verified"
    ELSE "Unable to verify"

-----------------------------------------------------------------------------
(* The proof of an agent's payment (arcProof.ts, agentPayments.ts), from   *)
(* what that page sees and from the certificate of the block, which the    *)
(* node may not have, or have for another block or without signatures.     *)

NoCertificate == [block |-> "none", signed |-> FALSE]

readCertificate ==
    [block : {"same", "other"}, signed : BOOLEAN] \cup {NoCertificate}

checkCertificate(certificate) ==
    certificate.block = "same" /\ certificate.signed

(* The node knows the receipt, does not know it, or does not answer.       *)
liveLoad(tx) ==
    {[kind |-> "not_found"], [kind |-> "unavailable"]} \cup
    {[kind |-> "receipt", logs |-> Receipt(tx), certificate |-> certificate] :
        certificate \in readCertificate}

assembleArcProof(parsed, certificate) ==
    CASE ~parsed.memoEventValid \/ ~parsed.settlementValid -> "INVALID"
      [] parsed.settlementValid /\ certificate = NoCertificate -> "PARTIAL"
      [] parsed.settlementValid /\ certificate # NoCertificate ->
            IF checkCertificate(certificate) THEN "VERIFIED" ELSE "INVALID"

verifyArcTransaction(load) ==
    CASE load.kind = "not_found" -> "NOT_FOUND"
      [] load.kind = "unavailable" -> "UNAVAILABLE"
      [] load.kind = "receipt" ->
            assembleArcProof(parseMemoReceipt(load.logs), load.certificate)

(* The intent that the request stands for is verified by the transaction,  *)
(* its time aside.                                                         *)
bindProof(load, request) ==
    /\ verifyArcTransaction(load) = "VERIFIED"
    /\ \E memo \in parseMemoReceipt(load.logs).memo :
          /\ load.logs[memo].memoId = request.memoId
          /\ \E k \in bindTransfer(load.logs, memo) :
                /\ load.logs[k].to = request.recipient
                /\ load.logs[k].value = request.amount

(* What the agent is told to send.                                         *)
memoInstruction(request, agent) == encodeAuthorizedMemoCall(request, agent)

=============================================================================
