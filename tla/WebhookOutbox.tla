---------------------------- MODULE WebhookOutbox ----------------------------
(***************************************************************************)
(* Webhook deliveries (src/src/lib/webhooks.ts): the rows of the outbox,   *)
(* the leases under which workers send them, retries, pruning, and the     *)
(* endpoints they go to, which their merchant may change at any time.      *)
(*                                                                         *)
(* Workers are requests that emit an event and passes of the processor,    *)
(* which the cron route runs and which every settlement starts, so several *)
(* run at once.  Each step of a worker is one mutation of the store, or    *)
(* the HTTP request with the mutation that records its outcome.  Emission  *)
(* ids are fresh, so an event is emitted once.  All events have one type   *)
(* and the endpoints one merchant: others are filtered out where the       *)
(* subscribers are read, and never meet.                                   *)
(*                                                                         *)
(* There is no clock: a row keeps the time that is left until its retry    *)
(* and until its lease expires, and Tick takes from both.                  *)
(***************************************************************************)
EXTENDS Integers, Sequences, FiniteSets, Functions

CONSTANTS
    Endpoint, Event, Worker, NoWorker, NoJob,
    MaxAttempts,   \* WEBHOOK_MAX_ATTEMPTS
    RetryDelay,    \* WEBHOOK_RETRY_DELAYS_SECONDS, in ticks
    Lease,         \* WEBHOOK_CLAIM_LEASE_SECONDS, in ticks
    MaxDue,        \* WEBHOOK_MAX_DUE_PER_RUN
    Keep,          \* rows of an endpoint that pruneDeliveries leaves
    MaxEndpoints,  \* MAX_WEBHOOK_ENDPOINTS_PER_MERCHANT
    Prompt,        \* whether workers that live finish before their lease does
    MaxRows,       \* bound: rows ever written
    MaxAge,        \* bound: ages past it are not told apart
    MaxCrashes     \* bound: passes cut short

VARIABLES
    rows,      \* every delivery row in the order written, the pruned ones too
    endpoint,  \* webhooks.endpoints
    worker,    \* what each worker is doing
    emitted,   \* events that happened
    crashes    \* passes cut short so far

vars == <<rows, endpoint, worker, emitted, crashes>>

NoRow == 0     \* an enqueue has yet to write the job's row
NoRetry == -1  \* nextRetryAt is null

Row == [event : Event, endpoint : Endpoint, attempt : 1 .. MaxAttempts,
        status : {"pending", "retrying", "success", "failed", "pruned"},
        nextRetry : Nat \cup {NoRetry},
        leaseOwner : Worker \cup {NoWorker}, lease : 0 .. Lease,
        age : 0 .. MaxAge]

(* What a worker has in hand: the row it read when its pass began (NoRow   *)
(* when it is to be written first) and whether it read a due retry.        *)
Job == [row : Nat, retry : BOOLEAN, event : Event, endpoint : Endpoint,
        attempt : 1 .. MaxAttempts]

PC == {"idle", "enqueue", "find", "claim", "load", "giveup", "consume", "send"}

EndpointRecord ==
    [state : {"new", "live", "deleted"}, enabled : BOOLEAN, subscribed : BOOLEAN]

ASSUME OutboxAssumption ==
    /\ IsFiniteSet(Endpoint)
    /\ NoWorker \notin Worker
    /\ NoJob \notin Job
    /\ MaxAttempts \in Nat \ {0}
    /\ RetryDelay \in [1 .. MaxAttempts - 1 -> Nat \ {0}]
    /\ Lease \in Nat \ {0}
    /\ MaxDue \in Nat \ {0}
    /\ Keep \in Nat \ {0}
    /\ MaxEndpoints \in Nat
    /\ Prompt \in BOOLEAN
    /\ {MaxRows, MaxAge, MaxCrashes} \subseteq Nat

-----------------------------------------------------------------------------
(* Rows.                                                                   *)

NewRow(v, e, n) ==
    [event |-> v, endpoint |-> e, attempt |-> n, status |-> "pending",
     nextRetry |-> NoRetry, leaseOwner |-> NoWorker, lease |-> 0, age |-> 0]

LeaseActive_Forever(r) == r.leaseOwner # NoWorker

LeaseActive(r) == r.leaseOwner # NoWorker /\ r.lease > 0

IsDue_Leased(r) ==
    \/ r.status = "pending"
    \/ r.status = "retrying" /\ r.nextRetry = 0

(* isWebhookDeliveryDue.  A retry whose slot is consumed is never due; a   *)
(* pending row is written without a time.                                  *)
IsDue(r) ==
    /\ ~LeaseActive(r)
    /\ \/ r.status = "pending"
       \/ r.status = "retrying" /\ r.nextRetry = 0

HasDelivery_First(v, e, n) ==
    \E i \in DOMAIN rows :
        /\ rows[i].status # "pruned"
        /\ rows[i].event = v /\ rows[i].endpoint = e
        /\ n = 1

(* hasDeliveryForEventEndpoint: any row stops a first attempt.             *)
HasDelivery(v, e, n) ==
    \E i \in DOMAIN rows :
        /\ rows[i].status # "pruned"
        /\ rows[i].event = v /\ rows[i].endpoint = e
        /\ n = 1 \/ rows[i].attempt = n

(* retryDelaySeconds.                                                      *)
RetryAfter(n) == IF n < MaxAttempts THEN RetryDelay[n] ELSE NoRetry

(* The rows pruneDeliveries may drop: all but the newest Keep of the       *)
(* endpoint.  Creation times are whole seconds, and the sort leaves rows   *)
(* of one second in any order.                                             *)
Surplus(rs, e) ==
    LET stored == {i \in DOMAIN rs : rs[i].endpoint = e /\ rs[i].status # "pruned"}
    IN {gone \in SUBSET stored :
          /\ \A g \in gone, k \in stored \ gone : rs[g].age >= rs[k].age
          /\ \/ gone = {} /\ Cardinality(stored) <= Keep
             \/ Cardinality(stored \ gone) = Keep}

Released(r, status, nextRetry) ==
    [r EXCEPT !.status = status, !.nextRetry = nextRetry,
              !.leaseOwner = NoWorker, !.lease = 0]

Without(rs, gone) ==
    [i \in DOMAIN rs |-> IF i \in gone THEN Released(rs[i], "pruned", NoRetry) ELSE rs[i]]

Claimed(r, w) == [r EXCEPT !.leaseOwner = w, !.lease = Lease]

Finalize_Unowned(d, w, status, nextRetry) ==
    IF rows[d].status # "pruned"
    THEN [rows EXCEPT ![d] = Released(rows[d], status, nextRetry)]
    ELSE rows

(* finalizeClaimedDelivery: without effect for a worker that lost the row. *)
Finalize(d, w, status, nextRetry) ==
    IF rows[d].status # "pruned" /\ rows[d].leaseOwner = w
    THEN [rows EXCEPT ![d] = Released(rows[d], status, nextRetry)]
    ELSE rows

-----------------------------------------------------------------------------
Idle == [pc |-> "idle", job |-> NoJob, jobs |-> {}, known |-> {}]

Init ==
    /\ rows = <<>>
    /\ endpoint = [e \in Endpoint |->
                     [state |-> "new", enabled |-> FALSE, subscribed |-> FALSE]]
    /\ worker = [w \in Worker |-> Idle]
    /\ emitted = {}
    /\ crashes = 0

Usable(e) == endpoint[e].state = "live" /\ endpoint[e].enabled

Subscribers == {e \in Endpoint : Usable(e) /\ endpoint[e].subscribed}

(* The worker takes up one of its jobs, or is done.                        *)
TakeUp(w, jobs, known) ==
    \/ jobs = {} /\ worker' = [worker EXCEPT ![w] = Idle]
    \/ \E j \in jobs :
         worker' = [worker EXCEPT ![w] =
            [pc |-> IF j.row = NoRow THEN "enqueue" ELSE "claim",
             job |-> j, jobs |-> jobs \ {j}, known |-> known]]

NextJob(w) == TakeUp(w, worker[w].jobs, worker[w].known)

GoTo(w, pc) == worker' = [worker EXCEPT ![w].pc = pc]

(* An attempt whose row is still to be written.                            *)
NewAttempt(v, e, n) ==
    [row |-> NoRow, retry |-> FALSE, event |-> v, endpoint |-> e, attempt |-> n]

(* settleAndEnqueue: the mutation that settles a row also writes one       *)
(* pending row per subscriber, and prunes nothing.                         *)
Settle(v) ==
    /\ v \notin emitted
    /\ Len(rows) + Cardinality(Subscribers) <= MaxRows
    /\ emitted' = emitted \cup {v}
    /\ \E order \in Bijection(1 .. Cardinality(Subscribers), Subscribers) :
         rows' = rows \o [i \in 1 .. Cardinality(Subscribers) |->
                             NewRow(v, order[i], 1)]
    /\ UNCHANGED <<endpoint, worker, crashes>>

(* emitWebhookEvent: the subscribers are read once, then sent to in turn.  *)
Emit(w, v) ==
    /\ worker[w].pc = "idle" /\ v \notin emitted
    /\ emitted' = emitted \cup {v}
    /\ TakeUp(w, {NewAttempt(v, e, 1) : e \in Subscribers}, {})
    /\ UNCHANGED <<rows, endpoint, crashes>>

(* sendWebhookTest: to one endpoint, subscribed and enabled or not.        *)
SendTest(w, v, e) ==
    /\ worker[w].pc = "idle" /\ v \notin emitted /\ endpoint[e].state = "live"
    /\ emitted' = emitted \cup {v}
    /\ TakeUp(w, {NewAttempt(v, e, 1)}, {})
    /\ UNCHANGED <<rows, endpoint, crashes>>

(* processDueWebhookDeliveries reads what is due; the order in which it    *)
(* works through the rows, by their times, is left open.                   *)
ProcessDue(w) ==
    LET due == {i \in DOMAIN rows : IsDue(rows[i])}
        AsJob(i) == [row |-> i, retry |-> rows[i].status = "retrying",
                     event |-> rows[i].event, endpoint |-> rows[i].endpoint,
                     attempt |-> rows[i].attempt]
    IN /\ worker[w].pc = "idle" /\ due # {}
       /\ \E batch \in SUBSET due :
            /\ \/ batch = due /\ Cardinality(due) <= MaxDue
               \/ Cardinality(batch) = MaxDue
            /\ TakeUp(w, {AsJob(i) : i \in batch}, {e \in Endpoint : Usable(e)})
       /\ UNCHANGED <<rows, endpoint, emitted, crashes>>

-----------------------------------------------------------------------------
(* deliverOnce, and the branch of the processor that retries.              *)

(* enqueuePendingDelivery.                                                 *)
Enqueue(w) ==
    LET j == worker[w].job
        added == Append(rows, NewRow(j.event, j.endpoint, j.attempt))
    IN /\ worker[w].pc = "enqueue"
       /\ \/ /\ HasDelivery(j.event, j.endpoint, j.attempt)
             /\ GoTo(w, "find")
             /\ UNCHANGED rows
          \/ /\ ~HasDelivery(j.event, j.endpoint, j.attempt)
             /\ Len(rows) < MaxRows
             /\ \E gone \in Surplus(added, j.endpoint) : rows' = Without(added, gone)
             /\ worker' = [worker EXCEPT ![w].pc = "claim", ![w].job.row = Len(rows) + 1]
       /\ UNCHANGED <<endpoint, emitted, crashes>>

(* The duplicate's row answers for this one; if it is gone meanwhile, the  *)
(* pass throws.                                                            *)
Find(w) ==
    LET j == worker[w].job IN
    /\ worker[w].pc = "find"
    /\ IF \E i \in DOMAIN rows :
            /\ rows[i].status # "pruned"
            /\ rows[i].event = j.event /\ rows[i].endpoint = j.endpoint
            /\ rows[i].attempt = j.attempt
       THEN NextJob(w)
       ELSE worker' = [worker EXCEPT ![w] = Idle]
    /\ UNCHANGED <<rows, endpoint, emitted, crashes>>

(* claimDelivery.  Only the current row counts: it need not be in the      *)
(* state in which the pass read it.                                        *)
Claim(w) ==
    LET d == worker[w].job.row IN
    /\ worker[w].pc = "claim"
    /\ \/ /\ IsDue(rows[d])
          /\ rows' = [rows EXCEPT ![d] = Claimed(rows[d], w)]
          /\ GoTo(w, "load")
       \/ ~IsDue(rows[d]) /\ NextJob(w) /\ UNCHANGED rows
    /\ UNCHANGED <<endpoint, emitted, crashes>>

(* loadEndpoint.  A retry falls back on what the pass read at its start    *)
(* when the endpoint was deleted.                                          *)
Load(w) ==
    LET j == worker[w].job
        usable == \/ Usable(j.endpoint)
                  \/ j.retry /\ endpoint[j.endpoint].state # "live"
                             /\ j.endpoint \in worker[w].known
    IN /\ worker[w].pc = "load"
       /\ GoTo(w, IF ~usable THEN "giveup"
                  ELSE IF ~j.retry THEN "send"
                  ELSE IF j.attempt < MaxAttempts THEN "consume" ELSE "giveup")
       /\ UNCHANGED <<rows, endpoint, emitted, crashes>>

GiveUp(w) ==
    /\ worker[w].pc = "giveup"
    /\ rows' = Finalize(worker[w].job.row, w, "failed", NoRetry)
    /\ NextJob(w)
    /\ UNCHANGED <<endpoint, emitted, crashes>>

Consume_Keeps(w) ==
    LET j == worker[w].job IN
    /\ worker[w].pc = "consume"
    /\ rows' = Finalize(j.row, w, "retrying", 0)
    /\ worker' = [worker EXCEPT ![w].pc = "enqueue",
                     ![w].job = NewAttempt(j.event, j.endpoint, j.attempt + 1)]
    /\ UNCHANGED <<endpoint, emitted, crashes>>

(* The retry's slot is consumed, then the next attempt is enqueued, even   *)
(* by a worker that has lost the row.                                      *)
Consume(w) ==
    LET j == worker[w].job IN
    /\ worker[w].pc = "consume"
    /\ rows' = Finalize(j.row, w, "retrying", NoRetry)
    /\ worker' = [worker EXCEPT ![w].pc = "enqueue",
                     ![w].job = NewAttempt(j.event, j.endpoint, j.attempt + 1)]
    /\ UNCHANGED <<endpoint, emitted, crashes>>

(* httpDeliver and what its outcome, as classifyWebhookAttempt sees it,    *)
(* makes of the row.                                                       *)
Send(w) ==
    LET j == worker[w].job IN
    /\ worker[w].pc = "send"
    /\ \/ rows' = Finalize(j.row, w, "success", NoRetry)
       \/ rows' = Finalize(j.row, w, "failed", NoRetry)
       \/ rows' = Finalize(j.row, w,
                    IF RetryAfter(j.attempt) = NoRetry THEN "failed" ELSE "retrying",
                    RetryAfter(j.attempt))
    /\ NextJob(w)
    /\ UNCHANGED <<endpoint, emitted, crashes>>

(* The process dies, or a read or write of the store fails, which ends the *)
(* pass as well.                                                           *)
Crash(w) ==
    /\ worker[w].pc # "idle" /\ crashes < MaxCrashes
    /\ crashes' = crashes + 1
    /\ worker' = [worker EXCEPT ![w] = Idle]
    /\ UNCHANGED <<rows, endpoint, emitted>>

-----------------------------------------------------------------------------
(* The merchant's requests.  Ids are random: a deleted one never returns.  *)

CreateEndpoint(e) ==
    /\ endpoint[e].state = "new"
    /\ Cardinality({f \in Endpoint : endpoint[f].state = "live"}) < MaxEndpoints
    /\ \E on, subscribed \in BOOLEAN :
         endpoint' = [endpoint EXCEPT ![e] =
            [state |-> "live", enabled |-> on, subscribed |-> subscribed]]
    /\ UNCHANGED <<rows, worker, emitted, crashes>>

UpdateEndpoint(e) ==
    /\ endpoint[e].state = "live"
    /\ \E on, subscribed \in BOOLEAN :
         endpoint' = [endpoint EXCEPT ![e].enabled = on, ![e].subscribed = subscribed]
    /\ UNCHANGED <<rows, worker, emitted, crashes>>

DeleteEndpoint(e) ==
    /\ endpoint[e].state = "live"
    /\ endpoint' = [endpoint EXCEPT ![e] =
            [state |-> "deleted", enabled |-> FALSE, subscribed |-> FALSE]]
    /\ UNCHANGED <<rows, worker, emitted, crashes>>

Less(n) == IF n > 0 THEN n - 1 ELSE n

(* Time passes.  A send is cut off long before its lease ends (8 of 60     *)
(* seconds): under Prompt, time does not outrun a worker that lives.       *)
Tick ==
    /\ Prompt => \A w \in Worker, d \in DOMAIN rows :
                    (worker[w].pc # "idle" /\ worker[w].job.row = d)
                        => ~(rows[d].leaseOwner = w /\ rows[d].lease = 1)
    /\ rows' = [i \in DOMAIN rows |->
                  [rows[i] EXCEPT
                     !.nextRetry = Less(rows[i].nextRetry),
                     !.lease = Less(rows[i].lease),
                     !.age = IF rows[i].age < MaxAge THEN rows[i].age + 1
                             ELSE MaxAge]]
    /\ UNCHANGED <<endpoint, worker, emitted, crashes>>

WorkerStep(w) ==
    Enqueue(w) \/ Find(w) \/ Claim(w) \/ Load(w) \/ GiveUp(w) \/ Consume(w) \/ Send(w)

Start(w) ==
    \/ ProcessDue(w)
    \/ \E v \in Event : Emit(w, v)
    \/ \E v \in Event, e \in Endpoint : SendTest(w, v, e)

Next ==
    \/ \E w \in Worker : Start(w) \/ WorkerStep(w) \/ Crash(w)
    \/ \E v \in Event : Settle(v)
    \/ \E e \in Endpoint : CreateEndpoint(e) \/ UpdateEndpoint(e) \/ DeleteEndpoint(e)
    \/ Tick

Spec == Init /\ [][Next]_vars

(* A worker that lives goes on, the cron keeps coming, time passes.        *)
FairSpec ==
    /\ Spec
    /\ \A w \in Worker : WF_vars(WorkerStep(w))
    /\ WF_vars(\E w \in Worker : ProcessDue(w))
    /\ WF_vars(Tick)

-----------------------------------------------------------------------------
(* The properties.                                                         *)

(* Types; only a row that waits for a retry has a time for it, and only a  *)
(* row that is held has time left on its lease.                            *)
TypeOK ==
    /\ rows \in Seq(Row)
    /\ \A d \in DOMAIN rows :
          /\ rows[d].nextRetry # NoRetry => rows[d].status = "retrying"
          /\ rows[d].lease > 0 => rows[d].leaseOwner # NoWorker
    /\ endpoint \in [Endpoint -> EndpointRecord]
    /\ worker \in [Worker -> [pc : PC, job : Job \cup {NoJob}, jobs : SUBSET Job,
                              known : SUBSET Endpoint]]
    /\ emitted \subseteq Event
    /\ crashes \in 0 .. MaxCrashes

(* An event has one row per endpoint and attempt, whoever enqueues it:     *)
(* the settlement, an emission or any number of passes that retry it.      *)
OneRowPerAttempt ==
    \A i, k \in DOMAIN rows :
        /\ rows[i].status # "pruned" /\ rows[k].status # "pruned"
        /\ rows[i].event = rows[k].event /\ rows[i].endpoint = rows[k].endpoint
        /\ rows[i].attempt = rows[k].attempt
        => i = k

(* While a lease runs, the row is changed by its holder alone, however     *)
(* late another worker comes back to it; only pruning takes it away.       *)
LeasesHold ==
    [][\A d \in DOMAIN rows :
         LET r == rows[d] IN
         /\ LeaseActive(r)
         /\ rows'[d].status # "pruned"
         /\ <<rows'[d].status, rows'[d].leaseOwner>> # <<r.status, r.leaseOwner>>
         => worker'[r.leaseOwner] # worker[r.leaseOwner]]_vars

(* A delivery that succeeded or failed for good stays as it is: no stale   *)
(* worker reopens or rewrites it.                                          *)
OutcomesAreFinal ==
    [][\A d \in DOMAIN rows :
         rows[d].status \in {"success", "failed"}
             => rows'[d].status \in {rows[d].status, "pruned"}]_vars

IsOpen(r) ==
    \/ r.status = "pending"
    \/ r.status = "retrying" /\ r.nextRetry # NoRetry

RowsOf(v, e) == {d \in DOMAIN rows : rows[d].event = v /\ rows[d].endpoint = e}

(* When leases outlast the work, crashes notwithstanding: an event has at  *)
(* most one row to be sent to an endpoint, the last it has, and none once  *)
(* an attempt succeeded.  No two workers carry on the same retry.          *)
OneOpenRow ==
    \A v \in Event, e \in Endpoint :
        \A i \in RowsOf(v, e) : IsOpen(rows[i]) =>
            \A k \in RowsOf(v, e) \ {i} :
                k < i /\ ~IsOpen(rows[k]) /\ rows[k].status # "success"

(* A retry was consumed, nobody carries it on and nobody will.             *)
Stranded(v, e) ==
    \E i \in RowsOf(v, e) :
        /\ rows[i].status = "retrying" /\ rows[i].nextRetry = NoRetry
        /\ \A k \in RowsOf(v, e) : rows[k].attempt <= rows[i].attempt
        /\ \A w \in Worker : worker[w].job # NoJob =>
               <<worker[w].job.event, worker[w].job.endpoint, worker[w].pc>>
                 # <<v, e, "enqueue">>

Settled(v, e) ==
    \E i \in RowsOf(v, e) : rows[i].status \in {"success", "failed"}

(* What is in the outbox is sent until an attempt succeeds or the attempts *)
(* run out, whatever fails, unless a pass was cut short just after it      *)
(* consumed a retry.                                                       *)
EveryDeliverySettles ==
    \A v \in Event, e \in Endpoint :
        RowsOf(v, e) # {} ~> (Settled(v, e) \/ (crashes > 0 /\ Stranded(v, e)))

-----------------------------------------------------------------------------
(* What the comments say and the code does not do.                         *)

(* "Claim lease so a crashed worker recovers without blocking forever"     *)
(* (webhooksCatalog.ts:52): what a crashed worker was at is carried on, as *)
(* long as there is somebody to send it to.                                *)
CrashedWorkerRecovers ==
    \A v \in Event, e \in Endpoint :
        RowsOf(v, e) # {} ~> (Settled(v, e) \/ ~Usable(e))

(* "At-least-once HTTP" (webhooks.ts:1210): no row leaves the outbox       *)
(* before a worker has claimed it.                                         *)
AtLeastOnce ==
    [][\A d \in DOMAIN rows :
         rows[d].status = "pending" /\ rows[d].leaseOwner = NoWorker
             => rows'[d].status # "pruned"]_vars

=============================================================================
