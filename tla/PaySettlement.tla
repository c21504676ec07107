---------------------------- MODULE PaySettlement ----------------------------
(***************************************************************************)
(* The request handlers of /api/pay over the shared store: register, view, *)
(* submit, reconcile and cancel (src/src/lib/payStatusHttp.ts,             *)
(* settlement.ts, resolveCancellation.ts).                                 *)
(*                                                                         *)
(* A handler is an asynchronous function: every await is a point where the *)
(* other handlers, the merchant and the chain may move.  One action is one *)
(* store mutation or one chain read, with the decisions that follow it up  *)
(* to the next await.  Each mutation is a single step because              *)
(* mutatePayStoreBlob makes it one: PayStoreCas is about that.             *)
(* Requests the handler refuses before its first effect are not steps.     *)
(***************************************************************************)
EXTENDS PayRecords

CONSTANTS
    Handler,              \* requests being served at the same time
    Serves,               \* Serves[h]: kinds of request h is used for (a bound)
    Endpoint,             \* registered webhook endpoints
    Owner,                \* Owner[e]: merchant of the endpoint
    NoToken,              \* local state of an idle handler
    MaxSubmitCandidates,  \* MAX_SUBMIT_CANDIDATES
    Lookback,             \* how far back the scan looks, in block time
    MaxTime               \* bound on both clocks

RequestKind == {"register", "view", "cancel", "submit", "reconcile"}

ASSUME HandlerAssumption ==
    /\ NoToken \notin Token
    /\ Serves \in [Handler -> SUBSET RequestKind]
    /\ Owner \in [Endpoint -> Merchant]
    /\ MaxSubmitCandidates \in Nat /\ Lookback \in Nat /\ MaxTime \in Nat

VARIABLES
    rows,        \* store.records
    outbox,      \* first-attempt payment.paid deliveries per endpoint and event
    subscribed,  \* endpoints enabled for payment.paid
    call,        \* local state of each handler
    answer,      \* what the handler's last response promised
    mined,       \* block time of each transaction, NoTime before it is mined
    chainNow,    \* timestamp of the latest block
    now          \* clock of the servers

store == <<rows, outbox>>
world == <<mined, chainNow, now>>
vars == <<rows, outbox, subscribed, call, answer, mined, chainNow, now>>

-----------------------------------------------------------------------------
(* Local state of a handler.                                               *)

PcValue == {"idle", "register.create", "cancel.get", "cancel.ensure",
            "cancel.mark", "submit.candidate", "submit.verify", "settle",
            "reconcile.verify", "reconcile.settle"}

Call == [pc    : PcValue,
         token : Token \cup {NoToken},
         tx    : Tx \cup {NoTx},          \* hash being verified or settled
         queue : Seq(Tx),                 \* candidates a reconcile has left
         at    : Nat \cup {NoTime}]       \* clock read by a V2 cancellation

NoCall == [pc |-> "idle", token |-> NoToken, tx |-> NoTx,
           queue |-> << >>, at |-> NoTime]

(* Only the answers that promise something are told apart.                 *)
Answer == [kind  : {"none", "paid", "cancelled"},
           token : Token \cup {NoToken},
           tx    : Tx \cup {NoTx}]

NoAnswer == [kind |-> "none", token |-> NoToken, tx |-> NoTx]

PaidAnswer(t, x) == [kind |-> "paid", token |-> t, tx |-> x]

CancelledAnswer(t) == [kind |-> "cancelled", token |-> t, tx |-> NoTx]

At(h, pc) == call[h].pc = pc

Begin(h, c) ==
    /\ At(h, "idle")
    /\ call' = [call EXCEPT ![h] = c]
    /\ answer' = [answer EXCEPT ![h] = NoAnswer]

Goto(h, pc) ==
    /\ call' = [call EXCEPT ![h].pc = pc]
    /\ UNCHANGED answer

Finish(h, a) ==
    /\ call' = [call EXCEPT ![h] = NoCall]
    /\ answer' = [answer EXCEPT ![h] = a]

-----------------------------------------------------------------------------
(* The chain, as the verifier sees it.                                     *)

IsProof(t, x) ==
    /\ mined[x] # NoTime
    /\ t \in Settles[x]
    /\ Version[t] = 2 => mined[x] < ExpiresAt[t]

InWindow(t) == {x \in Tx : IsProof(t, x) /\ mined[x] + Lookback > chainNow}

Newest(S) == {x \in S : \A y \in S : mined[y] <= mined[x]}

-----------------------------------------------------------------------------
(* Settlement and its outbox entry, one mutation.                          *)

EventId(t, x) == <<IdOf[t], x>>

EventIds == RequestId \X Tx

Subscribers(t) == {e \in Endpoint : subscribed[e] /\ Owner[e] = Payee[t]}

EnqueuePaymentPaid(t, x) ==
    [e \in Endpoint |->
        IF e \in Subscribers(t) /\ outbox[e][EventId(t, x)] = 0
        THEN [outbox[e] EXCEPT ![EventId(t, x)] = @ + 1]
        ELSE outbox[e]]

SettleAndEnqueue_EveryProof(t, x) ==
    /\ rows' = ApplySettlement(rows, t, x, mined[x])
    /\ outbox' = EnqueuePaymentPaid(t, x)

SettleAndEnqueue(t, x) ==
    /\ rows' = ApplySettlement(rows, t, x, mined[x])
    /\ outbox' = IF SettleCode(rows, t, x, mined[x]) = "settled"
                 THEN EnqueuePaymentPaid(t, x)
                 ELSE outbox

-----------------------------------------------------------------------------
Init ==
    /\ rows = [t \in Token |-> AbsentRecord]
    /\ outbox = [e \in Endpoint |-> [v \in EventIds |-> 0]]
    /\ subscribed = [e \in Endpoint |-> FALSE]
    /\ call = [h \in Handler |-> NoCall]
    /\ answer = [h \in Handler |-> NoAnswer]
    /\ mined = [x \in Tx |-> NoTime]
    /\ chainNow = 0
    /\ now = 0

(* register: the row is read first, but the mutation decides again.        *)
StartRegister(h, t) ==
    /\ ~rows[t].stored
    /\ Begin(h, [NoCall EXCEPT !.pc = "register.create", !.token = t])
    /\ UNCHANGED <<store, world, subscribed>>

RegisterCreate(h) ==
    LET t == call[h].token IN
    /\ At(h, "register.create")
    /\ rows' = IF rows[t].stored \/ MayBeCreated(rows, t)
               THEN [rows EXCEPT ![t] = MergePayRecord(@)]
               ELSE rows
    /\ Finish(h, NoAnswer)
    /\ UNCHANGED <<outbox, world, subscribed>>

View(h, t) ==
    /\ At(h, "idle")
    /\ rows[t].stored
    /\ rows' = [rows EXCEPT ![t].viewed = TRUE]
    /\ Finish(h, NoAnswer)
    /\ UNCHANGED <<outbox, world, subscribed>>

-----------------------------------------------------------------------------
(* cancel: the clock is read once, before the row is looked at.            *)

StartCancel(h, t) ==
    /\ Version[t] = 2 => now < ExpiresAt[t]
    /\ Begin(h, [NoCall EXCEPT !.pc = "cancel.get", !.token = t,
                               !.at = IF Version[t] = 2 THEN now ELSE NoTime])
    /\ UNCHANGED <<store, world, subscribed>>

CancelExpired(h, t) ==
    /\ Version[t] = 2 /\ now >= ExpiresAt[t]
    /\ At(h, "idle")
    /\ IsPaid(rows[t])
    /\ Finish(h, PaidAnswer(t, rows[t].paidTx))
    /\ UNCHANGED <<store, world, subscribed>>

CancelGet(h) ==
    LET t == call[h].token IN
    /\ At(h, "cancel.get")
    /\ IF IsPaid(rows[t]) THEN Finish(h, PaidAnswer(t, rows[t].paidTx))
       ELSE IF rows[t].cancelled THEN Finish(h, CancelledAnswer(t))
       ELSE Goto(h, IF rows[t].stored THEN "cancel.mark" ELSE "cancel.ensure")
    /\ UNCHANGED <<store, world, subscribed>>

(* ensureRecord: upsertRecord of a blank row, with none of the checks that *)
(* createPayRecord makes.                                                  *)
CancelEnsure(h) ==
    LET t == call[h].token IN
    /\ At(h, "cancel.ensure")
    /\ rows' = [rows EXCEPT ![t] = MergePayRecord(@)]
    /\ Goto(h, "cancel.mark")
    /\ UNCHANGED <<outbox, world, subscribed>>

CancelMark(h) ==
    LET t    == call[h].token
        next == NextCancelledRecord(t, rows[t], call[h].at, now)
    IN
    /\ At(h, "cancel.mark")
    /\ rows' = [rows EXCEPT ![t] = next]
    /\ \/ /\ next.cancelled
          /\ Finish(h, CancelledAnswer(t))
       \/ /\ IsPaid(next)
          /\ Finish(h, PaidAnswer(t, next.paidTx))
       \/ Finish(h, NoAnswer)        \* refused, or its outcome was lost
    /\ UNCHANGED <<outbox, world, subscribed>>

-----------------------------------------------------------------------------
(* submit: decisions are made on the row as it was first read.             *)

SubmitSettled(h, t, x) ==
    /\ At(h, "idle")
    /\ rows[t].paidTx = x
    /\ Finish(h, PaidAnswer(t, x))
    /\ UNCHANGED <<store, world, subscribed>>

StartSubmit(h, t, x) ==
    LET known == IsSubmitted(rows[t], x) IN
    /\ rows[t].stored /\ ~IsPaid(rows[t])
    /\ known \/ Len(rows[t].submitted) < MaxSubmitCandidates
    /\ Begin(h, [NoCall EXCEPT
                    !.pc = IF known THEN "submit.verify" ELSE "submit.candidate",
                    !.token = t, !.tx = x])
    /\ UNCHANGED <<store, world, subscribed>>

SubmitCandidate(h) ==
    LET t == call[h].token IN
    /\ At(h, "submit.candidate")
    /\ rows' = [rows EXCEPT ![t] = AddSubmittedHash(@, call[h].tx)]
    /\ Goto(h, "submit.verify")
    /\ UNCHANGED <<outbox, world, subscribed>>

SubmitVerify_Unchecked(h) ==
    /\ At(h, "submit.verify")
    /\ Goto(h, "settle")
    /\ UNCHANGED <<store, world, subscribed>>

SubmitVerify(h) ==
    /\ At(h, "submit.verify")
    /\ IF IsProof(call[h].token, call[h].tx)
       THEN Goto(h, "settle")
       ELSE Finish(h, NoAnswer)
    /\ UNCHANGED <<store, world, subscribed>>

(* The last step of a submit and of a reconcile that scanned the chain.    *)
SettleAndAnswer(h) ==
    LET t == call[h].token
        x == call[h].tx
    IN
    /\ At(h, "settle")
    /\ SettleAndEnqueue(t, x)
    /\ \/ /\ SettleCode(rows, t, x, mined[x]) \in {"settled", "already_settled"}
          /\ Finish(h, PaidAnswer(t, x))
       \/ Finish(h, NoAnswer)        \* refused, or its outcome was lost
    /\ UNCHANGED <<world, subscribed>>

-----------------------------------------------------------------------------
(* reconcile: an explicit hash, then the stored candidates, then a scan.   *)

WithoutHash(s, x) ==
    IF \E i \in 1..Len(s) : s[i] = x
    THEN LET i == CHOOSE j \in 1..Len(s) : s[j] = x
         IN  SubSeq(s, 1, i - 1) \o SubSeq(s, i + 1, Len(s))
    ELSE s

Candidates_StoredFirst(row, given) ==
    LET all == IF given = NoTx THEN row.submitted
               ELSE WithoutHash(row.submitted, given) \o <<given>>
    IN  SubSeq(all, 1, IF Len(all) < MaxSubmitCandidates
                       THEN Len(all) ELSE MaxSubmitCandidates)

Candidates(row, given) ==
    LET all == IF given = NoTx THEN row.submitted
               ELSE <<given>> \o WithoutHash(row.submitted, given)
    IN  SubSeq(all, 1, IF Len(all) < MaxSubmitCandidates
                       THEN Len(all) ELSE MaxSubmitCandidates)

StartReconcile(h, t, given) ==
    /\ rows[t].stored /\ ~IsPaid(rows[t])
    /\ Begin(h, [NoCall EXCEPT !.pc = "reconcile.verify", !.token = t,
                               !.queue = Candidates(rows[t], given)])
    /\ UNCHANGED <<store, world, subscribed>>

ReconcileSettled(h, t) ==
    /\ At(h, "idle")
    /\ IsPaid(rows[t])
    /\ Finish(h, PaidAnswer(t, rows[t].paidTx))
    /\ UNCHANGED <<store, world, subscribed>>

ReconcileVerify_Retries(h) ==
    LET c == call[h]
        x == Head(c.queue)
    IN
    /\ At(h, "reconcile.verify")
    /\ c.queue # << >>
    /\ call' = [call EXCEPT ![h] =
                  IF IsProof(c.token, x)
                  THEN [c EXCEPT !.pc = "reconcile.settle", !.tx = x,
                                 !.queue = Tail(c.queue)]
                  ELSE c]
    /\ UNCHANGED <<answer, store, world, subscribed>>

ReconcileVerify(h) ==
    LET c == call[h]
        x == Head(c.queue)
    IN
    /\ At(h, "reconcile.verify")
    /\ c.queue # << >>
    /\ call' = [call EXCEPT ![h] =
                  IF IsProof(c.token, x)
                  THEN [c EXCEPT !.pc = "reconcile.settle", !.tx = x,
                                 !.queue = Tail(c.queue)]
                  ELSE [c EXCEPT !.queue = Tail(c.queue)]]
    /\ UNCHANGED <<answer, store, world, subscribed>>

(* A used or late hash ends the call; another refusal tries the next one.  *)
ReconcileSettle(h) ==
    LET t    == call[h].token
        x    == call[h].tx
        code == SettleCode(rows, t, x, mined[x])
    IN
    /\ At(h, "reconcile.settle")
    /\ SettleAndEnqueue(t, x)
    /\ \/ /\ code \in {"settled", "already_settled"}
          /\ Finish(h, PaidAnswer(t, x))
       \/ /\ code \in {"not_found", "already_paid_different",
                       "duplicate_request", "rejected"}
          /\ Goto(h, "reconcile.verify")
       \/ Finish(h, NoAnswer)        \* settlement_used, late, or lost
    /\ UNCHANGED <<world, subscribed>>

(* Newest first: the first log the verifier accepts is the only one tried. *)
ReconcileScan(h) ==
    LET found == Newest(InWindow(call[h].token)) IN
    /\ At(h, "reconcile.verify")
    /\ call[h].queue = << >>
    /\ \/ \E x \in found :
             /\ call' = [call EXCEPT ![h].pc = "settle", ![h].tx = x]
             /\ UNCHANGED answer
       \/ found = {} /\ Finish(h, NoAnswer)
    /\ UNCHANGED <<store, world, subscribed>>

-----------------------------------------------------------------------------
(* A read fails, the store is unavailable or its retries are exhausted, or *)
(* the process serving the request dies: what was written stays written.   *)
Fail(h) ==
    /\ ~At(h, "idle")
    /\ Finish(h, NoAnswer)
    /\ UNCHANGED <<store, world, subscribed>>

-----------------------------------------------------------------------------
(* The merchant's endpoints, the chain and the clocks.                     *)

SetSubscription(e) ==
    /\ subscribed' = [subscribed EXCEPT ![e] = ~@]
    /\ UNCHANGED <<store, world, call, answer>>

Mine(x) ==
    /\ mined[x] = NoTime
    /\ mined' = [mined EXCEPT ![x] = chainNow]
    /\ UNCHANGED <<store, chainNow, now, call, answer, subscribed>>

NewBlock ==
    /\ chainNow < MaxTime
    /\ chainNow' = chainNow + 1
    /\ UNCHANGED <<store, mined, now, call, answer, subscribed>>

Tick ==
    /\ now < MaxTime
    /\ now' = now + 1
    /\ UNCHANGED <<store, mined, chainNow, call, answer, subscribed>>

-----------------------------------------------------------------------------
(* Steps of a request that has been accepted.                              *)
Step(h) ==
    \/ RegisterCreate(h)
    \/ CancelGet(h) \/ CancelEnsure(h) \/ CancelMark(h)
    \/ SubmitCandidate(h) \/ SubmitVerify(h) \/ SettleAndAnswer(h)
    \/ ReconcileVerify(h) \/ ReconcileSettle(h) \/ ReconcileScan(h)

Arrive(h) ==
    \E t \in Token :
        \/ "register" \in Serves[h] /\ StartRegister(h, t)
        \/ "view" \in Serves[h] /\ View(h, t)
        \/ "cancel" \in Serves[h] /\ (StartCancel(h, t) \/ CancelExpired(h, t))
        \/ /\ "submit" \in Serves[h]
           /\ \E x \in Tx : StartSubmit(h, t, x) \/ SubmitSettled(h, t, x)
        \/ /\ "reconcile" \in Serves[h]
           /\ \/ ReconcileSettled(h, t)
              \/ \E x \in Tx \cup {NoTx} : StartReconcile(h, t, x)

Environment ==
    \/ \E e \in Endpoint : SetSubscription(e)
    \/ \E x \in Tx : Mine(x)
    \/ NewBlock
    \/ Tick

Next ==
    \/ \E h \in Handler : Arrive(h) \/ Step(h) \/ Fail(h)
    \/ Environment

Spec == Init /\ [][Next]_vars

(* A function that was started is run on by the server's event loop.       *)
FairSpec == Spec /\ \A h \in Handler : WF_vars(Step(h))

=============================================================================
