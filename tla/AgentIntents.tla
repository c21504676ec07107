---------------------------- MODULE AgentIntents ----------------------------
(***************************************************************************)
(* Machine payment intents (src/src/lib/agentPayments.ts) of one merchant  *)
(* whose policies cap spending: creating, submitting and reading them,     *)
(* with the reservations they hold in the policy ledger.                   *)
(*                                                                         *)
(* Intents, payment requests and remembered answers live in the blob of    *)
(* the pay store, where each mutation is atomic (PayStoreCas); the ledger  *)
(* is a key of its own.  A handler reads, decides and writes in steps, and *)
(* nothing locks them: handlers run on any number of servers.              *)
(*                                                                         *)
(* Abandon ends a call at any point: an error that reaches the client, an  *)
(* answer lost after its effect, a server that stops.  transitionReserva-  *)
(* tion is one step, since its callers ignore whether it succeeded and it  *)
(* takes effect, when it does, in the compare-and-set of its last attempt. *)
(* Notifications are left out: emitting one changes nothing here.          *)
(***************************************************************************)
EXTENDS PolicyLedger

CONSTANTS
    Tx, Call, NoId, NoTx, NoKey,
    Key,          \* idempotency keys, each with the route it is used on
    Creates,      \* the creates that clients send under each key
    Submits,      \* the submissions that clients send under each key
    Pays,         \* the intent whose terms and memo a transaction carries
    MaxAttempts,  \* MAX_RESERVATION_ATTEMPTS
    MaxNow        \* bound: the clock stops here

VARIABLES
    now,      \* the servers' clock and the chain's
    mined,    \* block time of each transaction, Never while it has none
    records,  \* amount of each stored payment request, 0 while there is none
    intents,  \* agents.intents
    answers,  \* agents.idempotency: what each key was answered
    ledger,   \* the merchant's policy ledger
    calls     \* what each handler is doing

vars == <<now, mined, records, intents, answers, ledger, calls>>

Intent ==
    [status : {"NONE", "AWAITING_PAYMENT", "SUBMITTED", "VERIFIED", "FAILED"},
     tx : Tx \cup {NoTx}, verifiedAt : Time]

NoIntent == [status |-> "NONE", tx |-> NoTx, verifiedAt |-> Never]

NewIntent == [status |-> "AWAITING_PAYMENT", tx |-> NoTx, verifiedAt |-> Never]

Says == {"SHOWN", "VERIFIED", "REFUSED", "NOTHING"}

(* An answer shows an intent, verified or not, or refuses to store one.    *)
Answer == [id : Id \cup {NoId}, says : Says]

NoAnswer == [id |-> NoId, says |-> "NOTHING"]

(* What is remembered of showing an intent: nothing while the transaction  *)
(* submitted for it is still to be proven (shouldRemember).                *)
Showing(status) ==
    IF status = "SUBMITTED" THEN "NOTHING"
    ELSE IF status = "VERIFIED" THEN "VERIFIED" ELSE "SHOWN"

(* What a handler holds between two awaits.  A create: the intents as it   *)
(* read them (facts), the time of its attempts (at), the ledger value that *)
(* its write compares with (read), whether the reservation is its own to   *)
(* release (held).  A submission: the transaction and the row it judges.   *)
Idle == [step |-> "idle"]

CreateState ==
    [step : {"decide"}, id : Id, key : Key, amount : Nat, facts : [Id -> Intent]]
    \cup [step : {"reserve"}, id : Id, key : Key, amount : Nat,
          facts : [Id -> Intent], at : Nat, tries : 1 .. MaxAttempts]
    \cup [step : {"commit"}, id : Id, key : Key, amount : Nat,
          facts : [Id -> Intent], at : Nat, tries : 1 .. MaxAttempts,
          read : [Id -> Reservation]]
    \cup [step : {"request"}, id : Id, key : Key, amount : Nat, held : BOOLEAN]
    \cup [step : {"store"}, id : Id, key : Key]

SubmitState ==
    [step : {"verify", "persist"}, id : Id, key : Key, tx : Tx, row : Intent]
    \cup [step : {"settle"}, id : Id, row : Intent]

ReplyState ==
    [step : {"release"}, id : Id, key : Key \cup {NoKey}, says : Says]
    \cup [step : {"remember"}, id : Id, key : Key, says : Says]

CallState == {Idle} \cup CreateState \cup SubmitState \cup ReplyState

ASSUME AgentAssumption ==
    /\ PolicyAssumption
    /\ NoId \notin Id /\ NoTx \notin Tx /\ NoKey \notin Key
    /\ Creates \in [Key -> SUBSET [id : Id, amount : Nat \ {0}]]
    /\ Submits \in [Key -> SUBSET [id : Id, tx : Tx]]
    /\ \A k \in Key : Creates[k] = {} \/ Submits[k] = {}
    /\ Pays \in [Tx -> Id \cup {NoId}]
    /\ MaxAttempts \in Nat \ {0}
    /\ MaxNow \in Nat

Init ==
    /\ now = 0
    /\ mined = [t \in Tx |-> Never]
    /\ records = [i \in Id |-> 0]
    /\ intents = [i \in Id |-> NoIntent]
    /\ answers = [k \in Key |-> NoAnswer]
    /\ ledger = [i \in Id |-> NoReservation]
    /\ calls = [c \in Call |-> Idle]

-----------------------------------------------------------------------------
(* Writing to the blob.                                                    *)

(* Mutant: the last writer wins.                                           *)
MergeAgentIntent_LastWins(cur, next) == next

MergeAgentIntent(cur, next) ==
    IF cur.status = "VERIFIED" /\ next.status # "VERIFIED" THEN cur ELSE next

HashUsedByOther(t, i) ==
    \E j \in Id \ {i} : intents[j].status = "VERIFIED" /\ intents[j].tx = t

(* Mutant: a later answer under the key replaces it.                       *)
RememberAnswer_LastWins(k, i, says) ==
    IF says = "NOTHING" THEN answers
    ELSE [answers EXCEPT ![k] = [id |-> i, says |-> says]]

(* lookupIdempotency.                                                      *)
Unanswered(k) == answers[k] = NoAnswer

(* The first answer stored under a key stays.                              *)
RememberAnswer(k, i, says) ==
    IF ~Unanswered(k) \/ says = "NOTHING" THEN answers
    ELSE [answers EXCEPT ![k] = [id |-> i, says |-> says]]

Begin(c, call) == calls[c].step = "idle" /\ calls' = [calls EXCEPT ![c] = call]

At(c, step) == calls[c].step = step

End(c) == calls' = [calls EXCEPT ![c] = Idle]

(* Answer the request; what is remembered of it is stored first.           *)
Reply(c, says) ==
    calls' = [calls EXCEPT ![c] =
        IF says # "NOTHING"
        THEN [step |-> "remember", id |-> calls[c].id, key |-> calls[c].key,
              says |-> says]
        ELSE Idle]

Remember(c) ==
    /\ At(c, "remember")
    /\ answers' = RememberAnswer(calls[c].key, calls[c].id, calls[c].says)
    /\ End(c)
    /\ UNCHANGED <<now, mined, records, intents, ledger>>

Abandon(c) ==
    /\ calls[c].step # "idle"
    /\ End(c)
    /\ UNCHANGED <<now, mined, records, intents, answers, ledger>>

-----------------------------------------------------------------------------
(* createAgentPaymentIntent.  A key that was answered is answered again,   *)
(* or refused for another body, and nothing changes.                       *)

CreateRead(c, i, a, k) ==
    /\ Unanswered(k)
    /\ Begin(c, [step |-> "decide", id |-> i, key |-> k, amount |-> a,
                 facts |-> intents])
    /\ UNCHANGED <<now, mined, records, intents, answers, ledger>>

(* termsMatch: the amount stands for all terms.                            *)
TermsMatch(call) == records[call.id] = call.amount

(* The next attempt to reserve, with what the call began with.             *)
Attempt(c, at, tries) ==
    calls' = [calls EXCEPT ![c] =
        [step |-> "reserve", id |-> calls[c].id, key |-> calls[c].key,
         amount |-> calls[c].amount, facts |-> calls[c].facts, at |-> at,
         tries |-> tries]]

(* An intent that is stored is shown if the terms are its own.             *)
Decide(c) ==
    LET call == calls[c]
        known == call.facts[call.id]
    IN
    /\ At(c, "decide")
    /\ \/ /\ known.status # "NONE"
          /\ TermsMatch(call)
          /\ Reply(c, Showing(known.status))
       \/ /\ known.status # "NONE"
          /\ ~TermsMatch(call)
          /\ End(c)
       \/ /\ known.status = "NONE"
          /\ PolicyDenies(call.facts, records, now, call.amount)
          /\ Reply(c, "REFUSED")
       \/ /\ known.status = "NONE"
          /\ ~PolicyDenies(call.facts, records, now, call.amount)
          /\ Attempt(c, now, 1)
    /\ UNCHANGED <<now, mined, records, intents, answers, ledger>>

(* The ledger value that an attempt read, recovered.                       *)
Recovered(call, doc) == RecoverReservations(doc, call.facts, call.at)

(* commit of the ledger, in Redis or in the file of the one process.       *)
Commit(read, doc) == ledger = read /\ ledger' = doc

(* The reservation is there, and this call has added it or found it; what  *)
(* it was decided from is done with.                                       *)
Proceed(c, added) ==
    calls' = [calls EXCEPT ![c] =
        [step |-> "request", id |-> calls[c].id, key |-> calls[c].key,
         amount |-> calls[c].amount, held |-> added]]

(* One attempt of reserveSpendAtomically.  The intents and the time are    *)
(* those that the call began with, whatever attempt it is.                 *)
ReserveRead(c) ==
    LET call == calls[c]
        doc == Recovered(call, ledger)
        live == IsLive(doc[call.id])
        denied == LedgerDenies(doc, call.facts, records, call.at, call.amount)
    IN
    /\ At(c, "reserve")
    /\ \/ /\ live /\ doc[call.id].amount # call.amount
          /\ End(c)
       \/ /\ live /\ doc[call.id].amount = call.amount /\ doc = ledger
          /\ Proceed(c, FALSE)
       \/ /\ ~live /\ denied
          /\ Reply(c, "REFUSED")
       \/ /\ IF live THEN doc[call.id].amount = call.amount /\ doc # ledger
                     ELSE ~denied
          /\ calls' = [calls EXCEPT ![c] =
                 [step |-> "commit", id |-> call.id, key |-> call.key,
                  amount |-> call.amount, facts |-> call.facts, at |-> call.at,
                  tries |-> call.tries, read |-> ledger]]
    /\ UNCHANGED <<now, mined, records, intents, answers, ledger>>

(* Mutant: the write does not compare.                                     *)
ReserveCommit_Blind(c) ==
    LET call == calls[c]
        doc == Recovered(call, call.read)
        live == IsLive(doc[call.id])
    IN
    /\ At(c, "commit")
    /\ ledger' = IF live THEN doc
                 ELSE [doc EXCEPT ![call.id] = NewReservation(call.amount)]
    /\ Proceed(c, ~live)
    /\ UNCHANGED <<now, mined, records, intents, answers>>

(* Its compare-and-set; only a reservation that this call added is its own *)
(* to release.                                                             *)
ReserveCommit(c) ==
    LET call == calls[c]
        doc == Recovered(call, call.read)
        live == IsLive(doc[call.id])
    IN
    /\ At(c, "commit")
    /\ \/ /\ Commit(call.read, IF live THEN doc
              ELSE [doc EXCEPT ![call.id] = NewReservation(call.amount)])
          /\ Proceed(c, ~live)
       \/ /\ ledger # call.read
          /\ call.tries < MaxAttempts
          /\ Attempt(c, call.at, call.tries + 1)
          /\ UNCHANGED ledger
       \/ /\ ledger # call.read
          /\ call.tries = MaxAttempts
          /\ End(c)
          /\ UNCHANGED ledger
    /\ UNCHANGED <<now, mined, records, intents, answers>>

(* Answer, after giving up the reservation that the call added.            *)
GiveUp(c, says) ==
    IF calls[c].held
    THEN calls' = [calls EXCEPT ![c] =
             [step |-> "release", id |-> calls[c].id, key |-> calls[c].key,
              says |-> says]]
    ELSE Reply(c, says)

(* createPaymentRequest stores the signed request, or finds it stored; it  *)
(* refuses a request that expired, reuses an id with other terms, is badly *)
(* signed or one too many; or it fails, stored or not.                     *)
CreateRequest(c) ==
    LET call == calls[c]
        valid == now < Expiry[call.id] /\ records[call.id] \in {0, call.amount}
        stored == [records EXCEPT ![call.id] = call.amount]
    IN
    /\ At(c, "request")
    /\ \/ /\ valid
          /\ records' = stored
          /\ calls' = [calls EXCEPT ![c] =
                 [step |-> "store", id |-> call.id, key |-> call.key]]
       \/ /\ UNCHANGED records
          /\ GiveUp(c, "REFUSED")
       \/ /\ records' \in {records} \cup (IF valid THEN {stored} ELSE {})
          /\ GiveUp(c, "NOTHING")
    /\ UNCHANGED <<now, mined, intents, answers, ledger>>

(* persistTouched: the new row is merged with what is stored by now.       *)
StoreIntent(c) ==
    LET call == calls[c] IN
    /\ At(c, "store")
    /\ intents' = [intents EXCEPT ![call.id] = MergeAgentIntent(@, NewIntent)]
    /\ answers' = RememberAnswer(call.key, call.id, "SHOWN")
    /\ End(c)
    /\ UNCHANGED <<now, mined, records, ledger>>

(* Give a reservation up: after a create that failed, and for an intent    *)
(* that a read found expired.                                              *)
ReleaseHold(c) ==
    LET call == calls[c] IN
    /\ At(c, "release")
    /\ \/ UNCHANGED ledger
       \/ ledger' = [ledger EXCEPT ![call.id] = Release(@)]
    /\ Reply(c, call.says)
    /\ UNCHANGED <<now, mined, records, intents, answers>>

-----------------------------------------------------------------------------
(* getAgentPaymentIntent, which releases what an unpaid intent held.       *)

GetRead(c, i) ==
    /\ intents[i].status = "AWAITING_PAYMENT"
    /\ PastGrace(i, now)
    /\ Begin(c, [step |-> "release", id |-> i, key |-> NoKey, says |-> "NOTHING"])
    /\ UNCHANGED <<now, mined, records, intents, answers, ledger>>

-----------------------------------------------------------------------------
(* loadOwned.                                                              *)
Owned(i) == intents[i].status # "NONE"

(* submitAgentPaymentIntent.  An intent verified by another transaction,   *)
(* and a transaction that verified another intent, are refused.            *)

SubmitRead(c, i, t, k) ==
    /\ Unanswered(k)
    /\ Owned(i)
    /\ ~HashUsedByOther(t, i)
    /\ \/ /\ intents[i].status = "VERIFIED"
          /\ intents[i].tx = t
          /\ Begin(c, [step |-> "remember", id |-> i, key |-> k,
                       says |-> "VERIFIED"])
       \/ /\ intents[i].status # "VERIFIED"
          /\ Begin(c, [step |-> "verify", id |-> i, key |-> k, tx |-> t,
                       row |-> intents[i]])
    /\ UNCHANGED <<now, mined, records, intents, answers, ledger>>

(* A mined transaction binds to the intent it pays if its block is earlier *)
(* than the expiry.                                                        *)
Binds(t, i) == Pays[t] = i /\ mined[t] < Expiry[i]

(* What the proof makes of the row that was read.                          *)
Judged(row, t, status) ==
    [status |-> status, tx |-> t,
     verifiedAt |-> IF status = "VERIFIED" /\ row.verifiedAt = Never
                    THEN now ELSE row.verifiedAt]

(* The proof: not found or not available, or final once it is mined.       *)
Verify(c) ==
    LET call == calls[c]
        final == IF Binds(call.tx, call.id) THEN "VERIFIED" ELSE "FAILED"
    IN
    /\ At(c, "verify")
    /\ \E status \in {"SUBMITTED"} \cup (IF mined[call.tx] # Never THEN {final} ELSE {}) :
           calls' = [calls EXCEPT ![c] =
               [step |-> "persist", id |-> call.id, key |-> call.key,
                tx |-> call.tx, row |-> Judged(call.row, call.tx, status)]]
    /\ UNCHANGED <<now, mined, records, intents, answers, ledger>>

(* persistTouched: the row goes over whatever is stored by now, and the    *)
(* answer is stored even if another intent took the transaction.           *)
Persist(c) ==
    LET call == calls[c]
        taken == call.row.status = "VERIFIED" /\ HashUsedByOther(call.tx, call.id)
    IN
    /\ At(c, "persist")
    /\ intents' = IF taken THEN intents
                  ELSE [intents EXCEPT ![call.id] = MergeAgentIntent(@, call.row)]
    /\ answers' = RememberAnswer(call.key, call.id, Showing(call.row.status))
    /\ IF taken \/ call.row.status = "SUBMITTED" THEN End(c)
       ELSE calls' = [calls EXCEPT ![c] =
                [step |-> "settle", id |-> call.id, row |-> call.row]]
    /\ UNCHANGED <<now, mined, records, ledger>>

(* The reservation follows the row that was judged, if it is reserved and  *)
(* the ledger answers.                                                     *)
Settle(c) ==
    LET call == calls[c] IN
    /\ At(c, "settle")
    /\ \/ UNCHANGED ledger
       \/ ledger' = [ledger EXCEPT ![call.id] =
              IF call.row.status = "VERIFIED" THEN Consume(@, call.row.verifiedAt)
              ELSE Release(@)]
    /\ End(c)
    /\ UNCHANGED <<now, mined, records, intents, answers>>

-----------------------------------------------------------------------------
(* The chain.  When a transaction was mined is settled once a proof looks  *)
(* for it: no one else can tell, and a proof may have failed to find it.   *)
Mine(t) ==
    /\ mined[t] = Never
    /\ \E c \in Call : At(c, "verify") /\ calls[c].tx = t
    /\ \E b \in 0 .. now : mined' = [mined EXCEPT ![t] = b]
    /\ UNCHANGED <<now, records, intents, answers, ledger, calls>>

Tick ==
    /\ now < MaxNow
    /\ now' = now + 1
    /\ UNCHANGED <<mined, records, intents, answers, ledger, calls>>

Create(c) == Decide(c) \/ ReserveRead(c) \/ ReserveCommit(c) \/ CreateRequest(c)
             \/ StoreIntent(c) \/ ReleaseHold(c) \/ Remember(c)

Submit(c) == Verify(c) \/ Persist(c) \/ Settle(c)

Next ==
    \/ \E c \in Call :
        \/ \E k \in Key : \E new \in Creates[k] : CreateRead(c, new.id, new.amount, k)
        \/ \E k \in Key : \E paid \in Submits[k] : SubmitRead(c, paid.id, paid.tx, k)
        \/ \E i \in Id : GetRead(c, i)
        \/ Create(c)
        \/ Submit(c)
        \/ Abandon(c)
    \/ \E t \in Tx : Mine(t)
    \/ Tick

Spec == Init /\ [][Next]_vars

-----------------------------------------------------------------------------
(* Properties.                                                             *)

(* Calls, rows and answers keep their shapes: a reservation is tried at    *)
(* most MAX_RESERVATION_ATTEMPTS times.                                    *)
TypeOK ==
    /\ now \in 0 .. MaxNow
    /\ mined \in [Tx -> Time]
    /\ records \in [Id -> Nat]
    /\ intents \in [Id -> Intent]
    /\ answers \in [Key -> Answer]
    /\ ledger \in [Id -> Reservation]
    /\ calls \in [Call -> CallState]

(* What is reserved at one time fits under every cap, however the creates  *)
(* that reserve it interleave: each evaluates the caps against the ledger  *)
(* value that its compare-and-set replaces.                                *)
HeldFits ==
    LET Held == {i \in Id : ledger[i].status = "RESERVED"}
    IN  \A p \in Policy : Total(Reserved(ledger), Held) <= p.cap

(* No writer of the ledger loses a reservation that another made: it moves *)
(* to consumed or released, and is given anew, in one write with its       *)
(* release, only after the grace.                                          *)
ReservationsAreKept ==
    [][\A i \in Id :
        /\ ledger[i].status = "RESERVED" =>
              /\ ledger'[i].status # "NONE"
              /\ ledger'[i].amount = ledger[i].amount \/ PastGrace(i, now)
        /\ ledger[i].status = "CONSUMED" => ledger'[i] = ledger[i]]_vars

(* A reservation is consumed only by an intent that is verified, though it *)
(* is another store that says so, read before.                             *)
ConsumedIsVerified ==
    \A i \in Id : ledger[i].status = "CONSUMED" => intents[i].status = "VERIFIED"

(* An answer that shows an intent verified is never belied: neither a      *)
(* create nor a submission that read the intent earlier undoes it.         *)
VerifiedAnswersHold ==
    \A k \in Key :
        answers[k].says = "VERIFIED" => intents[answers[k].id].status = "VERIFIED"

(* A verified intent is verified for good, whatever writer is late.        *)
VerifiedForGood ==
    [][\A i \in Id : intents[i].status = "VERIFIED" => intents'[i].status = "VERIFIED"]_vars

(* The answer that was first stored under a key is what every repetition   *)
(* of the request gets.                                                    *)
AnswersStand ==
    [][\A k \in Key : answers[k] # NoAnswer => answers'[k] = answers[k]]_vars

(* What paymentPolicy.test.ts:1022-1037 asserts of concurrent creates:     *)
(* verified spend and what is held of a cap never exceed it.               *)
SpendFits ==
    LET Paid(p) == {i \in Id : /\ intents[i].status = "VERIFIED"
                               /\ InWindow(intents[i].verifiedAt, now, p.window)}
        Held(p) == {i \in Id \ Paid(p) : ledger[i].status = "RESERVED"}
    IN  \A p \in Policy :
            Total(records, Paid(p)) + Total(Reserved(ledger), Held(p)) <= p.cap

=============================================================================
