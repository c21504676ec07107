--------------------------- MODULE EscrowService -----------------------------
(***************************************************************************)
(* The escrow API (src/src/lib/escrowService.ts) above FinalEscrow.        *)
(*                                                                         *)
(* A handler reads the row, asks the chain about one or two transactions   *)
(* and writes the whole row back from the copy it read, in a mutation that *)
(* compares only the states of the two; then it announces the change to    *)
(* the webhooks.  Every step is an action, so handlers, the contract's     *)
(* users and the clock interleave freely.  A handler can end before any of *)
(* its steps: the chain is not readable, the store fails, or the process   *)
(* dies.                                                                   *)
(*                                                                         *)
(* Requests are those of the creator, whose key or wallet signature the    *)
(* API has checked; release, refund and cancel also carry an authorization *)
(* that one of the parties signed, named by its nonce.                     *)
(***************************************************************************)
EXTENDS EscrowContract, Totals

CONSTANTS
    Handler,   \* requests served at the same time
    Nonce,     \* nonces of signed authorizations
    NoRow      \* the store has no row for an escrow

VARIABLES
    rows,      \* store.escrows.records
    handler,   \* what each request is doing
    announced  \* announced[e][t]: escrow.* events emitted

serviceVars == <<rows, handler, announced>>
vars == <<contractVars, serviceVars>>

Life == INSTANCE EscrowLife WITH state <- [e \in Escrow |-> OnChain(e)]
States == Life!States
Ahead(s) == Life!Ahead(s)

Action == {"open", "fund", "release", "refund", "cancel"}
NoHash == 0

(* openTxHash, fundingTxHash, ... are hash["open"], hash["fund"], ...      *)
Row == [state : States, hash : [Action -> Nat], usedNonces : SUBSET Nonce]

ResultOf(a) ==
    CASE a = "open" -> "OPEN"
      [] a = "fund" -> "FUNDED"
      [] a = "release" -> "RELEASED"
      [] a = "refund" -> "REFUNDED"
      [] a = "cancel" -> "CANCELLED"

EventName(a) ==
    CASE a = "open" -> "EscrowOpened"
      [] a = "fund" -> "EscrowFunded"
      [] a = "release" -> "EscrowReleased"
      [] a = "refund" -> "EscrowRefunded"
      [] a = "cancel" -> "EscrowCancelled"

NewRow == [state |-> "CREATED", hash |-> [a \in Action |-> NoHash],
           usedNonces |-> {}]

(* What a handler has in hand: the escrow, its copy of the row (the new    *)
(* row when it creates), the action and the nonces of the authorization.   *)
(* The transaction hash the client named is first used when it is loaded,  *)
(* and is chosen there.                                                    *)
Local == [pc : {"create", "funding", "load", "save", "emit"},
          escrow : Escrow, copy : Row, action : Action, nonces : SUBSET Nonce]

Idle == [pc |-> "idle"]

ASSUME ServiceAssumption == NoRow \notin Row

-----------------------------------------------------------------------------
(* Evidence.                                                               *)

(* loadTx: the node has the receipt and its block.                         *)
Loaded(hash) == hash \in 1 .. Len(chain)

(* The receipt is there and matchEscrowEvent finds one log of the contract *)
(* for this escrow in it.  The arguments of the log are the escrow's own   *)
(* terms, since the contract derives its id from them.                     *)
Evidence(e, a, hash) ==
    /\ Loaded(hash)
    /\ LET tx == chain[hash]
       IN /\ tx.success
          /\ tx.ours
          /\ tx.event = EventName(a)
          /\ tx.escrow = e

(* Release and refund go by the time of the block, not by a clock.         *)
InTime(e, a, time) ==
    /\ a = "release" => time < ExpiresAt[e]
    /\ a = "refund" => time >= ExpiresAt[e]

(* verifyStoredHash when the chain is readable.                            *)
StoredHashVerifies(e, a, hash) ==
    Evidence(e, a, hash) /\ InTime(e, a, chain[hash].time)

(* escrowProof: null for a hash that is not stored.  There is no proof of  *)
(* a cancellation.                                                         *)
escrowProof(e) ==
    [a \in Action \ {"cancel"} |->
        IF rows[e].hash[a] = NoHash THEN "null"
        ELSE IF StoredHashVerifies(e, a, rows[e].hash[a]) THEN "valid"
        ELSE "invalid"]

Starts_CancelsCreated(a, s) ==
    \/ a = "open" /\ s = "CREATED"
    \/ a = "fund" /\ s = "OPEN"
    \/ a \in {"release", "refund"} /\ s = "FUNDED"
    \/ a = "cancel" /\ s = "CREATED"

(* applyEscrowTransition, and the same guards at the top of                *)
(* applyChainTransition.                                                   *)
Starts(a, s) ==
    \/ a = "open" /\ s = "CREATED"
    \/ a = "fund" /\ s = "OPEN"
    \/ a \in {"release", "refund"} /\ s = "FUNDED"
    \/ a = "cancel" /\ s \in {"CREATED", "OPEN"}

Signer(e, a) ==
    IF a = "release" THEN Recipient[e]
    ELSE IF a = "refund" THEN Payer[e] ELSE Creator[e]

Rank(s) ==
    IF s = "CREATED" THEN 0
    ELSE IF s = "OPEN" THEN 1
    ELSE IF s = "FUNDED" THEN 2 ELSE 3

canPersistEscrowState_Unranked(existing, incoming) ==
    \/ existing = incoming
    \/ existing \notin {"RELEASED", "REFUNDED", "CANCELLED"}

canPersistEscrowState(existing, incoming) ==
    \/ existing = incoming
    \/ /\ existing \notin {"RELEASED", "REFUNDED", "CANCELLED"}
       /\ Rank(incoming) >= Rank(existing)
       /\ ~(existing = "FUNDED" /\ incoming = "CANCELLED")

(* The unsigned call prepared for an action; cancelEscrow voids the id of  *)
(* an agreement that was never opened.                                     *)
PreparedCall(a, s) ==
    IF a = "cancel" /\ s = "CREATED" THEN "voidEscrow" ELSE a

-----------------------------------------------------------------------------
(* Handlers.                                                               *)

Put(h, local) == handler' = [handler EXCEPT ![h] = local]

(* createEscrow up to its save: the terms are checked, and no row is       *)
(* listed.  When one is, it is the answer.                                 *)
CreateEscrow(h, e) ==
    /\ handler[h].pc = "idle"
    /\ ExpiresAt[e] > now
    /\ rows[e] = NoRow
    /\ Put(h, [pc |-> "create", escrow |-> e, copy |-> NewRow,
               action |-> "open", nonces |-> {}])
    /\ UNCHANGED <<contractVars, rows, announced>>

(* openEscrow and fundEscrow with a transaction hash.                      *)
ConfirmByCreator(h, e, a) ==
    /\ handler[h].pc = "idle"
    /\ rows[e] # NoRow
    /\ a \in {"open", "fund"}
    /\ Starts(a, rows[e].state)
    /\ Put(h, [pc |-> "load", escrow |-> e, copy |-> rows[e], action |-> a,
               nonces |-> {}])
    /\ UNCHANGED <<contractVars, rows, announced>>

(* releaseEscrow, refundEscrow and cancelEscrow with a transaction hash,   *)
(* through confirmSigned: the authorization is not expired, not used and   *)
(* signed by the party the action belongs to.                              *)
ConfirmSigned(h, e, a, nonce, deadline, signer) ==
    /\ handler[h].pc = "idle"
    /\ rows[e] # NoRow
    /\ a \in {"release", "refund", "cancel"}
    /\ deadline >= now
    /\ nonce \notin rows[e].usedNonces
    /\ signer = Signer(e, a)
    /\ Starts(a, rows[e].state)
    /\ a # "cancel" => rows[e].hash["fund"] # NoHash
    /\ Put(h, [pc |-> IF a = "cancel" THEN "load" ELSE "funding",
               escrow |-> e, copy |-> rows[e], action |-> a,
               nonces |-> {nonce}])
    /\ UNCHANGED <<contractVars, rows, announced>>

(* Release and refund verify the funding again before they look at their   *)
(* own transaction.                                                        *)
VerifyFunding(h) ==
    /\ handler[h].pc = "funding"
    /\ LET l == handler[h]
       IN /\ StoredHashVerifies(l.escrow, "fund", l.copy.hash["fund"])
          /\ Put(h, [l EXCEPT !.pc = "load"])
    /\ UNCHANGED <<contractVars, rows, announced>>

(* The row a step on, with the transaction that is the evidence and the    *)
(* nonces that are now used.                                               *)
Advanced(row, a, tx, nonces) ==
    [state |-> ResultOf(a), hash |-> [row.hash EXCEPT ![a] = tx],
     usedNonces |-> row.usedNonces \cup nonces]

LoadTransaction_NewHashes(h, tx) ==
    /\ handler[h].pc = "load"
    /\ LET l == handler[h]
       IN /\ Evidence(l.escrow, l.action, tx)
          /\ Starts(l.action, l.copy.state)
          /\ InTime(l.escrow, l.action, chain[tx].time)
          /\ Put(h, [pc |-> "save", escrow |-> l.escrow,
                     copy |-> Advanced([l.copy EXCEPT !.hash = NewRow.hash],
                                       l.action, tx, l.nonces),
                     action |-> l.action, nonces |-> l.nonces])
    /\ UNCHANGED <<contractVars, rows, announced>>

(* The transaction is loaded, matched and carries the copy a step on.      *)
LoadTransaction(h, tx) ==
    /\ handler[h].pc = "load"
    /\ LET l == handler[h]
       IN /\ Evidence(l.escrow, l.action, tx)
          /\ Starts(l.action, l.copy.state)
          /\ InTime(l.escrow, l.action, chain[tx].time)
          /\ Put(h, [pc |-> "save", escrow |-> l.escrow,
                     copy |-> Advanced(l.copy, l.action, tx, l.nonces),
                     action |-> l.action, nonces |-> l.nonces])
    /\ UNCHANGED <<contractVars, rows, announced>>

Save_AnnouncesAll(h) ==
    /\ handler[h].pc \in {"create", "save"}
    /\ LET l == handler[h]
           e == l.escrow
           allowed == \/ rows[e] = NoRow
                      \/ canPersistEscrowState(rows[e].state, l.copy.state)
       IN /\ rows' = IF allowed THEN [rows EXCEPT ![e] = l.copy] ELSE rows
          /\ Put(h, IF allowed THEN [l EXCEPT !.pc = "emit"] ELSE Idle)
    /\ UNCHANGED <<contractVars, announced>>

(* save: the whole row is written when its state may follow the stored     *)
(* one, and a change of state is announced.                                *)
Save(h) ==
    /\ handler[h].pc \in {"create", "save"}
    /\ LET l == handler[h]
           e == l.escrow
           allowed == \/ rows[e] = NoRow
                      \/ canPersistEscrowState(rows[e].state, l.copy.state)
           changed == rows[e] = NoRow \/ rows[e].state # l.copy.state
       IN /\ rows' = IF allowed THEN [rows EXCEPT ![e] = l.copy] ELSE rows
          /\ Put(h, IF allowed /\ changed THEN [l EXCEPT !.pc = "emit"]
                    ELSE Idle)
    /\ UNCHANGED <<contractVars, announced>>

(* emit, or emitSaved, whose failures are swallowed.                       *)
Emit(h) ==
    /\ handler[h].pc = "emit"
    /\ LET l == handler[h]
       IN announced' = [announced EXCEPT ![l.escrow][l.copy.state] = @ + 1]
    /\ Put(h, Idle)
    /\ UNCHANGED <<contractVars, rows>>

(* The handler ends without its next step: a failed check or read, a store *)
(* or process that is gone.                                                *)
Abandon(h) ==
    /\ handler[h].pc # "idle"
    /\ Put(h, Idle)
    /\ UNCHANGED <<contractVars, rows, announced>>

Init ==
    /\ ContractInit
    /\ rows = [e \in Escrow |-> NoRow]
    /\ handler = [h \in Handler |-> Idle]
    /\ announced = [e \in Escrow |-> [s \in States |-> 0]]

HandlerNext(h) ==
    \/ \E e \in Escrow : CreateEscrow(h, e)
    \/ \E e \in Escrow, a \in Action :
           \/ ConfirmByCreator(h, e, a)
           \/ \E nonce \in Nonce, deadline \in 0 .. MaxTime, signer \in Account :
                  ConfirmSigned(h, e, a, nonce, deadline, signer)
    \/ \E tx \in 1 .. Len(chain) : LoadTransaction(h, tx)
    \/ VerifyFunding(h) \/ Save(h) \/ Emit(h) \/ Abandon(h)

Next ==
    \/ ContractNext /\ UNCHANGED serviceVars
    \/ \E h \in Handler : HandlerNext(h)

Spec == Init /\ [][Next]_vars

-----------------------------------------------------------------------------
(* Properties.                                                             *)

(* Types of the state.                                                     *)
TypeOK ==
    /\ status \in [Escrow -> Status]
    /\ chain \in Seq(Tx)
    /\ wallet \in [Account -> Nat]
    /\ held \in Nat
    /\ now \in Nat
    /\ rows \in [Escrow -> Row \cup {NoRow}]
    /\ handler \in [Handler -> Local \cup {Idle}]
    /\ announced \in [Escrow -> [States -> Nat]]

(* The contract holds exactly the amounts of the escrows it has as funded, *)
(* and every account has paid and been paid what the terms of the funded,  *)
(* released and refunded ones say: no escrow pays twice, pays the wrong    *)
(* party or pays from another's money.                                     *)
PaidBy(a) ==
    {e \in Escrow : Payer[e] = a /\ status[e] \in {"Funded", "Released"}}

PaidTo(a) == {e \in Escrow : Recipient[e] = a /\ status[e] = "Released"}

MoneyIsWhereStatusSays ==
    /\ held = Total(Amount, {e \in Escrow : status[e] = "Funded"})
    /\ \A a \in Account :
           wallet[a] + Total(Amount, PaidBy(a)) = Supply[a] + Total(Amount, PaidTo(a))

(* No row says more than the contract did: what a row shows as funded or   *)
(* released is so on the chain, or the chain has moved on from there.      *)
RowFollowsContract ==
    \A e \in Escrow :
        rows[e] # NoRow => OnChain(e) \in Ahead(rows[e].state)

(* What the overview shows a merchant of its agreements, from the rows     *)
(* alone (escrowAnalytics in analytics.ts): how many are in each state and *)
(* what they are worth.                                                    *)
escrowAnalytics(merchant) ==
    LET In(s) == {e \in Escrow : /\ rows[e] # NoRow /\ rows[e].state = s
                                 /\ Creator[e] = merchant}
    IN  [s \in States |-> [count |-> Cardinality(In(s)), sum |-> Total(Amount, In(s))]]

(* What it shows as released, refunded or funded did move on the chain:    *)
(* rows that are behind understate it, and none overstates it.             *)
ReportIsBacked ==
    \A m \in Account :
        LET On(S) == Total(Amount, {e \in Escrow : Creator[e] = m /\ status[e] \in S})
            shown == escrowAnalytics(m)
        IN  /\ shown["RELEASED"].sum <= On({"Released"})
            /\ shown["REFUNDED"].sum <= On({"Refunded"})
            /\ shown["FUNDED"].sum + shown["RELEASED"].sum + shown["REFUNDED"].sum
                   <= On({"Funded", "Released", "Refunded"})

(* The hashes of a row are those of its own life, one for every step it    *)
(* took and none for a step it did not take, and each still passes the     *)
(* check of the proof endpoint.                                            *)
Took(a, s) ==
    \/ a = "open" /\ s \in {"OPEN", "FUNDED", "RELEASED", "REFUNDED"}
    \/ a = "fund" /\ s \in {"FUNDED", "RELEASED", "REFUNDED"}
    \/ s = ResultOf(a)

StoredHashesTellTheLife ==
    \A e \in Escrow : rows[e] # NoRow =>
        \A a \in Action :
            /\ Took(a, rows[e].state) => rows[e].hash[a] # NoHash
            /\ rows[e].hash[a] # NoHash =>
                   Took(a, rows[e].state) \/ rows[e].state = "CANCELLED"
            /\ IF a = "cancel"
               THEN rows[e].hash[a] # NoHash =>
                        StoredHashVerifies(e, a, rows[e].hash[a])
               ELSE escrowProof(e)[a] # "invalid"

(* However many handlers confirm the same transaction, a change of state   *)
(* is announced to the merchant's webhooks at most once, and only after    *)
(* the row has it.                                                         *)
AnnouncedOnce ==
    \A e \in Escrow, s \in States :
        announced[e][s] > 0 =>
            /\ announced[e][s] = 1
            /\ rows[e] # NoRow
            /\ rows[e].state \in Ahead(s)

(* The contract lives the life of an agreement, and so does the row, from  *)
(* whatever stale copies the handlers write it.                            *)
RowLife == INSTANCE EscrowLife WITH
    state <- [e \in Escrow |->
                 IF rows[e] = NoRow THEN "CREATED" ELSE rows[e].state]

BothLive == Life!Spec /\ RowLife!Spec

(* No order of confirmations strands a row: whenever it is behind the      *)
(* contract, some transaction on the chain is evidence for its next step,  *)
(* with an authorization that is still to be used and, for a release or a  *)
(* refund, a funding that can be verified again.                           *)
RowCanCatchUp ==
    \A e \in Escrow :
        rows[e] # NoRow /\ rows[e].state # OnChain(e) =>
            \E a \in Action, tx \in 1 .. Len(chain) :
                /\ Starts(a, rows[e].state)
                /\ Evidence(e, a, tx) /\ InTime(e, a, chain[tx].time)
                /\ a \in {"release", "refund", "cancel"} =>
                       rows[e].usedNonces = {}
                /\ a \in {"release", "refund"} =>
                       StoredHashVerifies(e, "fund", rows[e].hash["fund"])

=============================================================================
