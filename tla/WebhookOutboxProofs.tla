------------------------- MODULE WebhookOutboxProofs -------------------------
(***************************************************************************)
(* Proofs about WebhookOutbox, for every set of events, endpoints and      *)
(* workers and every schedule of retries: first whether or not a worker    *)
(* outlives its lease, then, where the rows of an event follow one another *)
(* one at a time, under Prompt; at the end, again without Prompt, that a   *)
(* retry once taken up is carried on.                                      *)
(***************************************************************************)
EXTENDS WebhookOutbox, TLAPS, SequenceTheorems, FiniteSetTheorems

WorkerRecord == [pc : PC, job : Job \cup {NoJob}, jobs : SUBSET Job,
                 known : SUBSET Endpoint]

(* A row that is held is one that may still be sent.                       *)
GoodRow ==
    {r \in Row :
       /\ r.nextRetry # NoRetry => r.status = "retrying"
       /\ r.lease > 0 => r.leaseOwner # NoWorker
       /\ r.status \in {"success", "failed", "pruned"} => r.leaseOwner = NoWorker}

(* What a worker has in hand are rows that were written and events that    *)
(* happened.                                                               *)
WorkerOK(x, n, seen) ==
    /\ x.pc # "idle" => x.job \in Job /\ x.job.event \in seen
    /\ x.pc \in {"claim", "load", "giveup", "consume", "send"} => x.job.row \in 1 .. n
    /\ x.pc = "consume" => x.job.attempt < MaxAttempts
    /\ \A j \in x.jobs : j.row \in 0 .. n /\ j.event \in seen

WorkersOK ==
    /\ worker \in [Worker -> WorkerRecord]
    /\ \A w \in Worker : WorkerOK(worker[w], Len(rows), emitted)

RowsOK ==
    /\ rows \in Seq(GoodRow)
    /\ \A d \in 1 .. Len(rows) : rows[d].event \in emitted
    /\ \A i, k \in 1 .. Len(rows) :
          /\ rows[i].status # "pruned" /\ rows[k].status # "pruned"
          /\ rows[i].event = rows[k].event /\ rows[i].endpoint = rows[k].endpoint
          /\ rows[i].attempt = rows[k].attempt
          => i = k

IInv ==
    /\ RowsOK
    /\ WorkersOK
    /\ endpoint \in [Endpoint -> EndpointRecord]
    /\ emitted \subseteq Event
    /\ crashes \in 0 .. MaxCrashes

(* How a step may change a row: it is pruned, a worker claims it, or the   *)
(* worker that owns it lets go of it.                                      *)
RowStep ==
    \A d \in 1 .. Len(rows) :
        \/ rows'[d].status = rows[d].status /\ rows'[d].leaseOwner = rows[d].leaseOwner
        \/ rows'[d].status = "pruned"
        \/ IsDue(rows[d])
        \/ \E w \in Worker : rows[d].leaseOwner = w /\ worker'[w] # worker[w]

(* The steps that write no row.                                            *)
SameRows(rs) ==
    /\ rs \in Seq(GoodRow)
    /\ Len(rs) = Len(rows)
    /\ \A d \in 1 .. Len(rows) :
          /\ rs[d].event = rows[d].event
          /\ rs[d].endpoint = rows[d].endpoint
          /\ rs[d].attempt = rows[d].attempt
          /\ rows[d].status = "pruned" => rs[d].status = "pruned"

-----------------------------------------------------------------------------
LEMMA SameRowsOK ==
    ASSUME RowsOK, SameRows(rows'), emitted \subseteq emitted'
    PROVE  RowsOK'
<1>1. rows' \in Seq(GoodRow) /\ Len(rows') = Len(rows)
  BY DEF SameRows
<1>2. ASSUME NEW d \in 1 .. Len(rows') PROVE rows'[d].event \in emitted'
  BY <1>1, <1>2 DEF SameRows, RowsOK
<1>3. ASSUME NEW i \in 1 .. Len(rows'), NEW k \in 1 .. Len(rows'),
             rows'[i].status # "pruned", rows'[k].status # "pruned",
             rows'[i].event = rows'[k].event, rows'[i].endpoint = rows'[k].endpoint,
             rows'[i].attempt = rows'[k].attempt
      PROVE  i = k
  BY <1>1, <1>3 DEF SameRows, RowsOK
<1> QED
  BY <1>1, <1>2, <1>3 DEF RowsOK

(* What a worker knows survives the steps of others.                       *)
LEMMA WorkerKeeps ==
    ASSUME NEW x, NEW n \in Nat, NEW m \in Nat, n <= m,
           NEW seen, NEW later, seen \subseteq later, WorkerOK(x, n, seen)
    PROVE  WorkerOK(x, m, later)
BY DEF WorkerOK

LEMMA UnmovedWorkersOK ==
    ASSUME WorkersOK, UNCHANGED worker, rows \in Seq(GoodRow), rows' \in Seq(GoodRow),
           Len(rows) <= Len(rows'), emitted \subseteq emitted'
    PROVE  WorkersOK'
<1>1. Len(rows) \in Nat /\ Len(rows') \in Nat
  BY LenProperties
<1>2. ASSUME NEW w \in Worker PROVE WorkerOK(worker[w], Len(rows'), emitted')
  BY <1>1, <1>2, WorkerKeeps DEF WorkersOK
<1> QED
  BY <1>2 DEF WorkersOK

(* One worker moves, to a record that is in order.                         *)
LEMMA MovedWorkerOK ==
    ASSUME WorkersOK, NEW w \in Worker, NEW x \in WorkerRecord,
           worker' = [worker EXCEPT ![w] = x],
           rows \in Seq(GoodRow), rows' \in Seq(GoodRow),
           Len(rows) <= Len(rows'), emitted \subseteq emitted',
           WorkerOK(x, Len(rows'), emitted')
    PROVE  WorkersOK'
<1>1. Len(rows) \in Nat /\ Len(rows') \in Nat
  BY LenProperties
<1>2. worker' \in [Worker -> WorkerRecord]
  BY DEF WorkersOK
<1>3. ASSUME NEW u \in Worker PROVE WorkerOK(worker'[u], Len(rows'), emitted')
  <2>1. CASE u = w
    BY <2>1 DEF WorkersOK
  <2>2. CASE u # w
    <3>1. worker'[u] = worker[u] /\ WorkerOK(worker[u], Len(rows), emitted)
      BY <2>2 DEF WorkersOK
    <3> QED BY <3>1, <1>1, WorkerKeeps
  <2> QED BY <2>1, <2>2
<1> QED
  BY <1>2, <1>3 DEF WorkersOK

LEMMA IdleOK ==
    ASSUME NEW n, NEW seen
    PROVE  Idle \in WorkerRecord /\ WorkerOK(Idle, n, seen)
BY DEF Idle, WorkerRecord, WorkerOK, PC

LEMMA TakeUpOK ==
    ASSUME WorkersOK, NEW w \in Worker,
           NEW jobs \in SUBSET Job, NEW known \in SUBSET Endpoint, TakeUp(w, jobs, known),
           rows \in Seq(GoodRow), rows' \in Seq(GoodRow),
           Len(rows) <= Len(rows'), emitted \subseteq emitted',
           \A j \in jobs : j.row \in 0 .. Len(rows') /\ j.event \in emitted'
    PROVE  WorkersOK'
<1>0. Len(rows') \in Nat
  BY LenProperties
<1>1. CASE worker' = [worker EXCEPT ![w] = Idle]
  BY <1>1, IdleOK, MovedWorkerOK
<1>2. ASSUME NEW j \in jobs,
             worker' = [worker EXCEPT ![w] =
                [pc |-> IF j.row = NoRow THEN "enqueue" ELSE "claim",
                 job |-> j, jobs |-> jobs \ {j}, known |-> known]]
      PROVE  WorkersOK'
  <2> DEFINE x == [pc |-> IF j.row = NoRow THEN "enqueue" ELSE "claim",
                   job |-> j, jobs |-> jobs \ {j}, known |-> known]
  <2>1. x \in WorkerRecord
    BY DEF WorkerRecord, PC
  <2>2. WorkerOK(x, Len(rows'), emitted')
    BY <1>0 DEF WorkerOK, NoRow
  <2>3. worker' = [worker EXCEPT ![w] = x]
    BY <1>2
  <2> HIDE DEF x
  <2> QED BY <2>1, <2>2, <2>3, MovedWorkerOK
<1> QED
  BY <1>1, <1>2 DEF TakeUp

LEMMA NextJobOK ==
    ASSUME IInv, NEW w \in Worker, NextJob(w), rows' \in Seq(GoodRow),
           Len(rows) <= Len(rows'), emitted \subseteq emitted'
    PROVE  WorkersOK'
<1>1. rows \in Seq(GoodRow) /\ WorkersOK
  BY DEF IInv, RowsOK
<1>2. Len(rows) \in Nat /\ Len(rows') \in Nat
  BY <1>1, LenProperties
<1>3. worker[w] \in WorkerRecord /\ WorkerOK(worker[w], Len(rows), emitted)
  BY <1>1 DEF WorkersOK
<1>4. worker[w].jobs \in SUBSET Job /\ worker[w].known \in SUBSET Endpoint
  BY <1>3 DEF WorkerRecord
<1>5. \A j \in worker[w].jobs : j.row \in 0 .. Len(rows') /\ j.event \in emitted'
  BY <1>2, <1>3 DEF WorkerOK
<1>6. TakeUp(w, worker[w].jobs, worker[w].known)
  BY DEF NextJob
<1> QED
  BY <1>1, <1>4, <1>5, <1>6, TakeUpOK

(* A worker that goes on to another job is seen to move.                   *)
LEMMA TakeUpMoves ==
    ASSUME WorkersOK, NEW w \in Worker, NEW jobs, NEW known, TakeUp(w, jobs, known),
           worker[w].pc \notin {"idle", "enqueue", "claim"}
    PROVE  worker'[w] # worker[w]
<1>1. worker'[w].pc \in {"idle", "enqueue", "claim"}
  BY DEF TakeUp, WorkersOK, Idle
<1> QED
  BY <1>1

(* A row replaced by one of the same event, endpoint and attempt.          *)
LEMMA ReplacedRow ==
    ASSUME rows \in Seq(GoodRow), NEW d \in 1 .. Len(rows), NEW r \in GoodRow,
           r.event = rows[d].event, r.endpoint = rows[d].endpoint,
           r.attempt = rows[d].attempt, rows[d].status # "pruned",
           rows' = [rows EXCEPT ![d] = r]
    PROVE  /\ SameRows(rows')
           /\ \A i \in 1 .. Len(rows) : i # d => rows'[i] = rows[i]
           /\ rows'[d] = r
<1>1. /\ rows' \in Seq(GoodRow) /\ Len(rows') = Len(rows)
      /\ \A j \in 1 .. Len(rows) : rows'[j] = IF j = d THEN r ELSE rows[j]
  BY ExceptSeq
<1>2. SameRows(rows')
  BY <1>1 DEF SameRows
<1> QED
  BY <1>1, <1>2

LEMMA ReleasedGood ==
    ASSUME NEW r \in GoodRow,
           NEW status \in {"retrying", "success", "failed", "pruned"},
           NEW nextRetry \in Nat \cup {NoRetry},
           nextRetry # NoRetry => status = "retrying"
    PROVE  /\ Released(r, status, nextRetry) \in GoodRow
           /\ Released(r, status, nextRetry).event = r.event
           /\ Released(r, status, nextRetry).endpoint = r.endpoint
           /\ Released(r, status, nextRetry).attempt = r.attempt
           /\ Released(r, status, nextRetry).status = status
<1> DEFINE q == Released(r, status, nextRetry)
<1>1. /\ r \in Row
      /\ q = [r EXCEPT !.status = status, !.nextRetry = nextRetry,
                       !.leaseOwner = NoWorker, !.lease = 0]
  BY DEF GoodRow, Released
<1>2. Lease \in Nat
  BY OutboxAssumption
<1> HIDE DEF q
<1>3. /\ q.status = status /\ q.nextRetry = nextRetry
      /\ q.leaseOwner = NoWorker /\ q.lease = 0
      /\ q.event = r.event /\ q.endpoint = r.endpoint /\ q.attempt = r.attempt
  BY <1>1 DEF Row
<1>4. q \in Row
  <2>1. q = [event |-> r.event, endpoint |-> r.endpoint, attempt |-> r.attempt,
             status |-> status, nextRetry |-> nextRetry,
             leaseOwner |-> NoWorker, lease |-> 0, age |-> r.age]
    BY <1>1 DEF Row
  <2>2. /\ r.event \in Event /\ r.endpoint \in Endpoint
        /\ r.attempt \in 1 .. MaxAttempts /\ r.age \in 0 .. MaxAge
    BY <1>1 DEF Row
  <2>3. 0 \in 0 .. Lease
    BY <1>2
  <2> QED BY <2>1, <2>2, <2>3 DEF Row
<1>5. q \in GoodRow
  BY <1>3, <1>4 DEF GoodRow
<1> QED
  BY <1>3, <1>5 DEF q

LEMMA FinalizeOK ==
    ASSUME RowsOK, NEW d \in 1 .. Len(rows), NEW w \in Worker,
           NEW status \in {"retrying", "success", "failed"},
           NEW nextRetry \in Nat \cup {NoRetry},
           nextRetry # NoRetry => status = "retrying",
           rows' = Finalize(d, w, status, nextRetry), worker'[w] # worker[w]
    PROVE  SameRows(rows') /\ RowStep
<1> DEFINE r == Released(rows[d], status, nextRetry)
<1>0. rows \in Seq(GoodRow) /\ rows[d] \in GoodRow
  BY ElementOfSeq DEF RowsOK
<1>1. CASE rows[d].status # "pruned" /\ rows[d].leaseOwner = w
  <2>1. r \in GoodRow
    BY <1>0, ReleasedGood
  <2>2. /\ r.event = rows[d].event /\ r.endpoint = rows[d].endpoint
        /\ r.attempt = rows[d].attempt
    BY <1>0 DEF Released, GoodRow, Row
  <2>3. rows' = [rows EXCEPT ![d] = r]
    BY <1>1 DEF Finalize
  <2> HIDE DEF r
  <2>4. SameRows(rows') /\ \A i \in 1 .. Len(rows) : i # d => rows'[i] = rows[i]
    BY <1>0, <1>1, <2>1, <2>2, <2>3, ReplacedRow
  <2>5. RowStep
    BY <1>1, <2>4 DEF RowStep
  <2> QED BY <2>4, <2>5
<1>2. CASE ~(rows[d].status # "pruned" /\ rows[d].leaseOwner = w)
  <2>1. rows' = rows
    BY <1>2 DEF Finalize
  <2> QED BY <1>0, <2>1 DEF SameRows, RowStep
<1> QED BY <1>1, <1>2

LEMMA UnwrittenRows ==
    ASSUME RowsOK, rows' = rows
    PROVE  SameRows(rows') /\ RowStep
BY DEF RowsOK, SameRows, RowStep

LEMMA RowsKept ==
    ASSUME RowsOK, SameRows(rows')
    PROVE  /\ rows \in Seq(GoodRow) /\ rows' \in Seq(GoodRow)
           /\ Len(rows) \in Nat /\ Len(rows) <= Len(rows')
<1>1. rows \in Seq(GoodRow) /\ rows' \in Seq(GoodRow) /\ Len(rows') = Len(rows)
  BY DEF RowsOK, SameRows
<1>2. Len(rows) \in Nat
  BY <1>1, LenProperties
<1> QED
  BY <1>1, <1>2

LEMMA RowIndex ==
    ASSUME RowsOK
    PROVE  /\ Len(rows) \in Nat
           /\ DOMAIN rows = 1 .. Len(rows)
           /\ \A d \in 1 .. Len(rows) : rows[d] \in GoodRow /\ rows[d] \in Row
<1>1. rows \in Seq(GoodRow)
  BY DEF RowsOK
<1>2. Len(rows) \in Nat /\ DOMAIN rows = 1 .. Len(rows)
  BY <1>1, LenProperties
<1>3. \A d \in 1 .. Len(rows) : rows[d] \in GoodRow
  BY <1>1, ElementOfSeq
<1> QED
  BY <1>2, <1>3 DEF GoodRow

-----------------------------------------------------------------------------
(* One lemma per action.                                                   *)

LEMMA NewAttemptOK ==
    ASSUME NEW v \in Event, NEW e \in Endpoint, NEW n \in 1 .. MaxAttempts
    PROVE  /\ NewAttempt(v, e, n) \in Job
           /\ NewAttempt(v, e, n).row = 0 /\ NewAttempt(v, e, n).event = v
BY DEF NewAttempt, Job, NoRow

LEMMA EmitOK ==
    ASSUME IInv, NEW w \in Worker, NEW v \in Event, Emit(w, v)
    PROVE  IInv' /\ RowStep
<1> DEFINE jobs == {NewAttempt(v, e, 1) : e \in Subscribers}
<1>1. /\ rows' = rows /\ emitted' = emitted \cup {v} /\ endpoint' = endpoint
      /\ crashes' = crashes /\ TakeUp(w, jobs, {})
  BY DEF Emit
<1>2. SameRows(rows') /\ RowStep /\ rows \in Seq(GoodRow) /\ Len(rows) \in Nat
  BY <1>1, UnwrittenRows, RowIndex DEF IInv, RowsOK
<1>3. jobs \in SUBSET Job /\ \A j \in jobs : j.row = 0 /\ j.event = v
  <2>1. ASSUME NEW e \in Endpoint
        PROVE  NewAttempt(v, e, 1) \in Job /\ NewAttempt(v, e, 1).row = 0
                 /\ NewAttempt(v, e, 1).event = v
    BY OutboxAssumption DEF NewAttempt, Job, NoRow
  <2>2. Subscribers \subseteq Endpoint
    BY DEF Subscribers
  <2> QED BY <2>1, <2>2
<1> HIDE DEF jobs
<1>4. \A j \in jobs : j.row \in 0 .. Len(rows') /\ j.event \in emitted'
  BY <1>1, <1>2, <1>3
<1>5. WorkersOK'
  BY <1>1, <1>2, <1>3, <1>4, TakeUpOK DEF IInv
<1>6. RowsOK'
  BY <1>1, <1>2, SameRowsOK DEF IInv
<1> QED
  BY <1>1, <1>2, <1>5, <1>6 DEF IInv

LEMMA SendTestOK ==
    ASSUME IInv, NEW w \in Worker, NEW v \in Event, NEW e \in Endpoint, SendTest(w, v, e)
    PROVE  IInv' /\ RowStep
<1> DEFINE jobs == {NewAttempt(v, e, 1)}
<1>1. /\ rows' = rows /\ emitted' = emitted \cup {v} /\ endpoint' = endpoint
      /\ crashes' = crashes /\ TakeUp(w, jobs, {})
  BY DEF SendTest
<1>2. SameRows(rows') /\ RowStep /\ rows \in Seq(GoodRow) /\ Len(rows) \in Nat
  BY <1>1, UnwrittenRows, RowIndex DEF IInv, RowsOK
<1>3. jobs \in SUBSET Job /\ \A j \in jobs : j.row = 0 /\ j.event = v
  BY OutboxAssumption DEF NewAttempt, Job, NoRow
<1> HIDE DEF jobs
<1>4. \A j \in jobs : j.row \in 0 .. Len(rows') /\ j.event \in emitted'
  BY <1>1, <1>2, <1>3
<1>5. WorkersOK'
  BY <1>1, <1>2, <1>3, <1>4, TakeUpOK DEF IInv
<1>6. RowsOK'
  BY <1>1, <1>2, SameRowsOK DEF IInv
<1> QED
  BY <1>1, <1>2, <1>5, <1>6 DEF IInv

LEMMA ProcessDueOK ==
    ASSUME IInv, NEW w \in Worker, ProcessDue(w)
    PROVE  IInv' /\ RowStep
<1> DEFINE AsJob(i) == [row |-> i, retry |-> rows[i].status = "retrying",
                        event |-> rows[i].event, endpoint |-> rows[i].endpoint,
                        attempt |-> rows[i].attempt]
           known == {e \in Endpoint : Usable(e)}
<1>1. /\ rows' = rows /\ emitted' = emitted /\ endpoint' = endpoint /\ crashes' = crashes
      /\ \E batch \in SUBSET DOMAIN rows : TakeUp(w, {AsJob(i) : i \in batch}, known)
  BY DEF ProcessDue
<1>2. /\ SameRows(rows') /\ RowStep /\ rows \in Seq(GoodRow) /\ Len(rows) \in Nat
      /\ DOMAIN rows = 1 .. Len(rows)
      /\ \A d \in 1 .. Len(rows) : rows[d] \in Row /\ rows[d].event \in emitted
  BY <1>1, UnwrittenRows, RowIndex DEF IInv, RowsOK
<1>3. PICK batch \in SUBSET DOMAIN rows : TakeUp(w, {AsJob(i) : i \in batch}, known)
  BY <1>1
<1>4. \A i \in batch : AsJob(i) \in Job /\ AsJob(i).row = i
                       /\ AsJob(i).event \in emitted
  BY <1>2 DEF Job, Row
<1> HIDE DEF AsJob
<1> DEFINE jobs == {AsJob(i) : i \in batch}
<1>5. jobs \in SUBSET Job /\ known \in SUBSET Endpoint
  BY <1>4
<1>6. \A j \in jobs : j.row \in 0 .. Len(rows') /\ j.event \in emitted'
  BY <1>1, <1>2, <1>4
<1> HIDE DEF jobs, known
<1>7. WorkersOK'
  BY <1>1, <1>2, <1>3, <1>5, <1>6, TakeUpOK DEF IInv, jobs
<1>8. RowsOK'
  BY <1>1, <1>2, SameRowsOK DEF IInv
<1> QED
  BY <1>1, <1>2, <1>7, <1>8 DEF IInv

LEMMA FindOK ==
    ASSUME IInv, NEW w \in Worker, Find(w)
    PROVE  IInv' /\ RowStep
<1>1. /\ rows' = rows /\ emitted' = emitted /\ endpoint' = endpoint /\ crashes' = crashes
      /\ NextJob(w) \/ worker' = [worker EXCEPT ![w] = Idle]
  BY DEF Find
<1>2. SameRows(rows') /\ RowStep /\ rows \in Seq(GoodRow) /\ Len(rows) \in Nat
  BY <1>1, UnwrittenRows, RowIndex DEF IInv, RowsOK
<1>3. WorkersOK'
  <2>1. CASE NextJob(w)
    BY <1>1, <1>2, <2>1, NextJobOK
  <2>2. CASE worker' = [worker EXCEPT ![w] = Idle]
    <3>1. WorkersOK /\ emitted \subseteq emitted' /\ Len(rows) <= Len(rows')
      BY <1>1, <1>2 DEF IInv
    <3>2. Idle \in WorkerRecord /\ WorkerOK(Idle, Len(rows'), emitted')
      BY IdleOK
    <3>3. rows' \in Seq(GoodRow)
      BY <1>1, <1>2
    <3> QED BY <1>2, <2>2, <3>1, <3>2, <3>3, MovedWorkerOK
  <2> QED BY <1>1, <2>1, <2>2
<1>4. RowsOK'
  BY <1>1, <1>2, SameRowsOK DEF IInv
<1> QED
  BY <1>1, <1>2, <1>3, <1>4 DEF IInv

LEMMA CrashOK ==
    ASSUME IInv, NEW w \in Worker, Crash(w)
    PROVE  IInv' /\ RowStep
<1>1. /\ rows' = rows /\ emitted' = emitted /\ endpoint' = endpoint
      /\ crashes' = crashes + 1 /\ crashes < MaxCrashes
      /\ worker' = [worker EXCEPT ![w] = Idle]
  BY DEF Crash
<1>2. SameRows(rows') /\ RowStep /\ rows \in Seq(GoodRow) /\ Len(rows) \in Nat
  BY <1>1, UnwrittenRows, RowIndex DEF IInv, RowsOK
<1>3. WorkersOK'
  <2>1. WorkersOK /\ emitted \subseteq emitted' /\ Len(rows) <= Len(rows')
    BY <1>1, <1>2 DEF IInv
  <2>2. Idle \in WorkerRecord /\ WorkerOK(Idle, Len(rows'), emitted')
    BY IdleOK
  <2>3. rows' \in Seq(GoodRow)
    BY <1>1, <1>2
  <2> QED BY <1>1, <1>2, <2>1, <2>2, <2>3, MovedWorkerOK
<1>4. RowsOK'
  BY <1>1, <1>2, SameRowsOK DEF IInv
<1>5. crashes' \in 0 .. MaxCrashes
  BY <1>1, OutboxAssumption DEF IInv
<1> QED
  BY <1>1, <1>2, <1>3, <1>4, <1>5 DEF IInv

(* A worker that stays with its job and goes to another point of it.       *)
LEMMA LoadOK ==
    ASSUME IInv, NEW w \in Worker, Load(w)
    PROVE  IInv' /\ RowStep
<1>1. /\ rows' = rows /\ emitted' = emitted /\ endpoint' = endpoint /\ crashes' = crashes
      /\ worker[w].pc = "load"
  BY DEF Load
<1>2. PICK pc \in {"giveup", "send", "consume"} :
        /\ pc = "consume" => worker[w].job.attempt < MaxAttempts
        /\ worker' = [worker EXCEPT ![w].pc = pc]
  BY DEF Load, GoTo
<1>3. SameRows(rows') /\ RowStep /\ rows \in Seq(GoodRow) /\ Len(rows) \in Nat
  BY <1>1, UnwrittenRows, RowIndex DEF IInv, RowsOK
<1>4. /\ worker \in [Worker -> WorkerRecord] /\ worker[w] \in WorkerRecord
      /\ WorkerOK(worker[w], Len(rows), emitted)
  BY DEF IInv, WorkersOK
<1> DEFINE x == [worker[w] EXCEPT !.pc = pc]
<1>5. x \in WorkerRecord
  BY <1>4 DEF WorkerRecord, PC
<1>6. x.pc = pc /\ x.job = worker[w].job /\ x.jobs = worker[w].jobs
  BY <1>4 DEF WorkerRecord
<1>7. worker' = [worker EXCEPT ![w] = x]
  BY <1>2, <1>4
<1> HIDE DEF x
<1>8. WorkerOK(x, Len(rows'), emitted')
  BY <1>1, <1>2, <1>4, <1>6 DEF WorkerOK
<1>9. WorkersOK'
  <2>1. WorkersOK /\ emitted \subseteq emitted' /\ Len(rows) <= Len(rows')
    BY <1>1, <1>3 DEF IInv
  <2>2. rows' \in Seq(GoodRow)
    BY <1>1, <1>3
  <2> QED BY <1>3, <1>5, <1>7, <1>8, <2>1, <2>2, MovedWorkerOK
<1>10. RowsOK'
  BY <1>1, <1>3, SameRowsOK DEF IInv
<1> QED
  BY <1>1, <1>3, <1>9, <1>10 DEF IInv

LEMMA EndpointsOK ==
    ASSUME IInv, NEW e \in Endpoint,
           CreateEndpoint(e) \/ UpdateEndpoint(e) \/ DeleteEndpoint(e)
    PROVE  IInv' /\ RowStep
<1>1. rows' = rows /\ emitted' = emitted /\ worker' = worker /\ crashes' = crashes
  BY DEF CreateEndpoint, UpdateEndpoint, DeleteEndpoint
<1>2. endpoint' \in [Endpoint -> EndpointRecord]
  <2>1. endpoint \in [Endpoint -> EndpointRecord] /\ endpoint[e] \in EndpointRecord
    BY DEF IInv
  <2>2. \A on, subscribed \in BOOLEAN, state \in {"live", "deleted"} :
           [state |-> state, enabled |-> on, subscribed |-> subscribed] \in EndpointRecord
    BY DEF EndpointRecord
  <2>3. \A on, subscribed \in BOOLEAN :
           [endpoint[e] EXCEPT !.enabled = on, !.subscribed = subscribed] \in EndpointRecord
    BY <2>1 DEF EndpointRecord
  <2>4. CASE CreateEndpoint(e)
    BY <2>1, <2>2, <2>4 DEF CreateEndpoint
  <2>5. CASE UpdateEndpoint(e)
    BY <2>1, <2>3, <2>5 DEF UpdateEndpoint
  <2>6. CASE DeleteEndpoint(e)
    BY <2>1, <2>2, <2>6 DEF DeleteEndpoint
  <2> QED BY <2>4, <2>5, <2>6
<1>3. SameRows(rows') /\ RowStep
  BY <1>1, UnwrittenRows DEF IInv
<1>4. RowsOK'
  BY <1>1, <1>3, SameRowsOK DEF IInv
<1>5. WorkersOK'
  BY <1>1 DEF IInv, WorkersOK
<1> QED
  BY <1>1, <1>2, <1>3, <1>4, <1>5 DEF IInv

(* A worker lets go of its row and goes on to its next job.                *)
LEMMA DoneOK ==
    ASSUME IInv, NEW w \in Worker, worker[w].pc \in {"giveup", "send"},
           NEW status \in {"retrying", "success", "failed"},
           NEW nextRetry \in Nat \cup {NoRetry},
           nextRetry # NoRetry => status = "retrying",
           rows' = Finalize(worker[w].job.row, w, status, nextRetry), NextJob(w),
           UNCHANGED <<endpoint, emitted, crashes>>
    PROVE  IInv' /\ RowStep
<1>1. RowsOK /\ WorkersOK
  BY DEF IInv
<1>2. worker[w].job.row \in 1 .. Len(rows)
  BY DEF IInv, WorkersOK, WorkerOK
<1>3. worker'[w] # worker[w]
  BY <1>1, TakeUpMoves DEF NextJob
<1>4. SameRows(rows') /\ RowStep
  BY <1>1, <1>2, <1>3, FinalizeOK
<1>5. /\ rows \in Seq(GoodRow) /\ rows' \in Seq(GoodRow)
      /\ Len(rows) <= Len(rows') /\ emitted \subseteq emitted'
  BY <1>1, <1>4, RowsKept
<1>6. WorkersOK'
  BY <1>5, NextJobOK
<1>7. RowsOK'
  BY <1>1, <1>4, <1>5, SameRowsOK
<1> QED
  BY <1>4, <1>6, <1>7 DEF IInv

LEMMA GiveUpOK ==
    ASSUME IInv, NEW w \in Worker, GiveUp(w)
    PROVE  IInv' /\ RowStep
<1>1. /\ worker[w].pc = "giveup"
      /\ rows' = Finalize(worker[w].job.row, w, "failed", NoRetry)
      /\ NextJob(w) /\ UNCHANGED <<endpoint, emitted, crashes>>
  BY DEF GiveUp
<1> QED
  BY <1>1, DoneOK

LEMMA SendOK ==
    ASSUME IInv, NEW w \in Worker, Send(w)
    PROVE  IInv' /\ RowStep
<1> DEFINE n == worker[w].job.attempt
           d == worker[w].job.row
<1>1. /\ worker[w].pc = "send" /\ NextJob(w)
      /\ UNCHANGED <<endpoint, emitted, crashes>>
  BY DEF Send
<1>2. n \in 1 .. MaxAttempts
  BY <1>1 DEF IInv, WorkersOK, WorkerOK, Job
<1>3. RetryAfter(n) \in Nat \cup {NoRetry}
  BY <1>2, OutboxAssumption DEF RetryAfter
<1>4. \/ rows' = Finalize(d, w, "success", NoRetry)
      \/ rows' = Finalize(d, w, "failed", NoRetry)
      \/ rows' = Finalize(d, w, IF RetryAfter(n) = NoRetry THEN "failed" ELSE "retrying",
                         RetryAfter(n))
  BY DEF Send
<1>5. CASE rows' = Finalize(d, w, "success", NoRetry)
  BY <1>1, <1>5, DoneOK
<1>6. CASE rows' = Finalize(d, w, "failed", NoRetry)
  BY <1>1, <1>6, DoneOK
<1>7. CASE RetryAfter(n) # NoRetry /\ rows' = Finalize(d, w, "retrying", RetryAfter(n))
  BY <1>1, <1>3, <1>7, DoneOK
<1> QED
  BY <1>4, <1>5, <1>6, <1>7

LEMMA ConsumeOK ==
    ASSUME IInv, NEW w \in Worker, Consume(w)
    PROVE  IInv' /\ RowStep
<1> DEFINE job == NewAttempt(worker[w].job.event, worker[w].job.endpoint,
                             worker[w].job.attempt + 1)
           x == [worker[w] EXCEPT !.pc = "enqueue", !.job = job]
<1>1. /\ worker[w].pc = "consume"
      /\ rows' = Finalize(worker[w].job.row, w, "retrying", NoRetry)
      /\ emitted' = emitted /\ endpoint' = endpoint /\ crashes' = crashes
  BY DEF Consume
<1>2. /\ RowsOK /\ WorkersOK /\ worker \in [Worker -> WorkerRecord]
      /\ worker[w] \in WorkerRecord /\ WorkerOK(worker[w], Len(rows), emitted)
  BY DEF IInv, WorkersOK
<1>3. /\ worker[w].job \in Job /\ worker[w].job.event \in emitted
      /\ worker[w].job.row \in 1 .. Len(rows)
      /\ worker[w].job.attempt < MaxAttempts
  BY <1>1, <1>2 DEF WorkerOK
<1>4. job \in Job /\ job.event = worker[w].job.event
  <2>1. /\ worker[w].job.event \in Event /\ worker[w].job.endpoint \in Endpoint
        /\ worker[w].job.attempt \in 1 .. MaxAttempts
    BY <1>3 DEF Job
  <2>2. worker[w].job.attempt + 1 \in 1 .. MaxAttempts
    <3> DEFINE n == worker[w].job.attempt
    <3>1. n \in 1 .. MaxAttempts /\ n < MaxAttempts /\ MaxAttempts \in Nat
      BY <1>3, <2>1, OutboxAssumption
    <3> HIDE DEF n
    <3>2. n + 1 \in 1 .. MaxAttempts
      BY <3>1
    <3> QED BY <3>2 DEF n
  <2> QED BY <2>1, <2>2, NewAttemptOK
<1>5. worker' = [worker EXCEPT ![w] = x]
  BY <1>2, <1>3 DEF Consume, WorkerRecord, Job
<1> HIDE DEF job
<1>6. /\ x \in WorkerRecord /\ x.pc = "enqueue" /\ x.job = job
      /\ x.jobs = worker[w].jobs
  BY <1>2, <1>4 DEF WorkerRecord, PC
<1> HIDE DEF x
<1>7. worker'[w] # worker[w]
  BY <1>1, <1>2, <1>5, <1>6
<1>8. SameRows(rows') /\ RowStep
  BY <1>1, <1>2, <1>3, <1>7, FinalizeOK
<1>9. /\ rows \in Seq(GoodRow) /\ rows' \in Seq(GoodRow) /\ Len(rows) \in Nat
      /\ Len(rows) <= Len(rows') /\ emitted \subseteq emitted'
  BY <1>1, <1>2, <1>8, RowsKept
<1>10. Len(rows') = Len(rows)
  BY <1>8 DEF SameRows
<1>11. WorkerOK(x, Len(rows'), emitted')
  BY <1>1, <1>2, <1>3, <1>4, <1>6, <1>10 DEF WorkerOK
<1>12. WorkersOK'
  BY <1>2, <1>5, <1>6, <1>9, <1>11, MovedWorkerOK
<1>13. RowsOK'
  BY <1>2, <1>8, <1>9, SameRowsOK
<1> QED
  BY <1>1, <1>8, <1>12, <1>13 DEF IInv

LEMMA ClaimOK ==
    ASSUME IInv, NEW w \in Worker, Claim(w)
    PROVE  IInv' /\ RowStep
<1> DEFINE d == worker[w].job.row
           x == [worker[w] EXCEPT !.pc = "load"]
           r == Claimed(rows[d], w)
<1>1. /\ worker[w].pc = "claim" /\ emitted' = emitted
      /\ endpoint' = endpoint /\ crashes' = crashes
  BY DEF Claim
<1>2. /\ RowsOK /\ WorkersOK /\ worker \in [Worker -> WorkerRecord]
      /\ worker[w] \in WorkerRecord /\ WorkerOK(worker[w], Len(rows), emitted)
  BY DEF IInv, WorkersOK
<1>3. d \in 1 .. Len(rows) /\ rows[d] \in GoodRow /\ rows \in Seq(GoodRow)
  BY <1>1, <1>2, RowIndex DEF WorkerOK, RowsOK
<1>4. CASE ~IsDue(rows[d]) /\ NextJob(w) /\ rows' = rows
  <2>1. SameRows(rows') /\ RowStep
    BY <1>2, <1>4, UnwrittenRows
  <2>2. /\ rows' \in Seq(GoodRow) /\ Len(rows) <= Len(rows')
        /\ emitted \subseteq emitted'
    BY <1>1, <1>2, <2>1, RowsKept
  <2>3. WorkersOK'
    BY <1>4, <2>2, NextJobOK
  <2>4. RowsOK'
    BY <1>2, <2>1, <2>2, SameRowsOK
  <2> QED BY <1>1, <2>1, <2>3, <2>4 DEF IInv
<1>5. CASE /\ IsDue(rows[d]) /\ rows' = [rows EXCEPT ![d] = r]
           /\ worker' = [worker EXCEPT ![w].pc = "load"]
  <2>1. rows[d].status \in {"pending", "retrying"}
    BY <1>5 DEF IsDue
  <2>2. r = [rows[d] EXCEPT !.leaseOwner = w, !.lease = Lease] /\ rows[d] \in Row
    BY <1>3 DEF Claimed, GoodRow
  <2> HIDE DEF r
  <2>3. /\ r.event = rows[d].event /\ r.endpoint = rows[d].endpoint
        /\ r.attempt = rows[d].attempt /\ r.status = rows[d].status
        /\ r.nextRetry = rows[d].nextRetry /\ r.leaseOwner = w
    BY <2>2 DEF Row
  <2>4. r \in Row
    <3>1. r = [event |-> rows[d].event, endpoint |-> rows[d].endpoint,
               attempt |-> rows[d].attempt, status |-> rows[d].status,
               nextRetry |-> rows[d].nextRetry, leaseOwner |-> w, lease |-> Lease,
               age |-> rows[d].age]
      BY <2>2 DEF Row
    <3>2. /\ rows[d].event \in Event /\ rows[d].endpoint \in Endpoint
          /\ rows[d].attempt \in 1 .. MaxAttempts /\ rows[d].age \in 0 .. MaxAge
          /\ rows[d].status \in {"pending", "retrying", "success", "failed", "pruned"}
          /\ rows[d].nextRetry \in Nat \cup {NoRetry}
      BY <2>2 DEF Row
    <3>3. Lease \in 0 .. Lease
      BY OutboxAssumption
    <3> QED BY <3>1, <3>2, <3>3 DEF Row
  <2>5. r \in GoodRow
    BY <1>3, <2>1, <2>3, <2>4, OutboxAssumption DEF GoodRow
  <2>6. SameRows(rows') /\ \A i \in 1 .. Len(rows) : i # d => rows'[i] = rows[i]
    BY <1>3, <1>5, <2>1, <2>3, <2>5, ReplacedRow
  <2>7. RowStep
    BY <1>5, <2>6 DEF RowStep
  <2>8. /\ rows' \in Seq(GoodRow) /\ Len(rows) <= Len(rows')
        /\ emitted \subseteq emitted' /\ Len(rows') = Len(rows)
    BY <1>1, <1>2, <2>6, RowsKept DEF SameRows
  <2>9. /\ x \in WorkerRecord /\ x.pc = "load" /\ x.job = worker[w].job
        /\ x.jobs = worker[w].jobs
    BY <1>2 DEF WorkerRecord, PC
  <2>10. worker' = [worker EXCEPT ![w] = x]
    BY <1>2, <1>5
  <2> HIDE DEF x
  <2>11. WorkerOK(x, Len(rows'), emitted')
    BY <1>1, <1>2, <2>8, <2>9 DEF WorkerOK
  <2>12. WorkersOK'
    BY <1>2, <1>3, <2>8, <2>9, <2>10, <2>11, MovedWorkerOK
  <2>13. RowsOK'
    BY <1>2, <2>6, <2>8, SameRowsOK
  <2> QED BY <1>1, <2>7, <2>12, <2>13 DEF IInv
<1> QED
  BY <1>4, <1>5 DEF Claim, GoTo

LEMMA TickOK ==
    ASSUME IInv, Tick
    PROVE  IInv' /\ RowStep
<1> DEFINE older(i) == [rows[i] EXCEPT
                          !.nextRetry = Less(rows[i].nextRetry),
                          !.lease = Less(rows[i].lease),
                          !.age = IF rows[i].age < MaxAge THEN rows[i].age + 1 ELSE MaxAge]
<1>1. /\ rows' = [i \in DOMAIN rows |-> older(i)]
      /\ emitted' = emitted /\ worker' = worker
      /\ endpoint' = endpoint /\ crashes' = crashes
  BY DEF Tick
<1>2. /\ RowsOK /\ Len(rows) \in Nat /\ DOMAIN rows = 1 .. Len(rows)
      /\ \A i \in 1 .. Len(rows) : rows[i] \in GoodRow /\ rows[i] \in Row
  BY RowIndex DEF IInv
<1>3. ASSUME NEW i \in 1 .. Len(rows)
      PROVE  /\ older(i) \in GoodRow
             /\ older(i).event = rows[i].event /\ older(i).endpoint = rows[i].endpoint
             /\ older(i).attempt = rows[i].attempt /\ older(i).status = rows[i].status
             /\ older(i).leaseOwner = rows[i].leaseOwner
  <2> DEFINE r == rows[i]
             q == older(i)
  <2>1. r \in GoodRow /\ r \in Row
    BY <1>2
  <2> HIDE DEF r
  <2>2. q = [r EXCEPT !.nextRetry = Less(r.nextRetry), !.lease = Less(r.lease),
                     !.age = IF r.age < MaxAge THEN r.age + 1 ELSE MaxAge]
    BY DEF r
  <2> HIDE DEF q
  <2>3. /\ q.event = r.event /\ q.endpoint = r.endpoint /\ q.attempt = r.attempt
        /\ q.status = r.status /\ q.leaseOwner = r.leaseOwner
        /\ q.nextRetry = Less(r.nextRetry) /\ q.lease = Less(r.lease)
    BY <2>1, <2>2 DEF Row
  <2>4. /\ Less(r.nextRetry) \in Nat \cup {NoRetry}
        /\ Less(r.nextRetry) # NoRetry => r.nextRetry # NoRetry
        /\ Less(r.lease) \in 0 .. Lease
        /\ Less(r.lease) > 0 => r.lease > 0
        /\ (IF r.age < MaxAge THEN r.age + 1 ELSE MaxAge) \in 0 .. MaxAge
    <3> DEFINE n == r.nextRetry
               k == r.lease
               a == r.age
    <3>1. /\ n \in Nat \cup {NoRetry} /\ k \in 0 .. Lease /\ a \in 0 .. MaxAge
          /\ Lease \in Nat /\ MaxAge \in Nat
      BY <2>1, OutboxAssumption DEF Row
    <3> HIDE DEF n, k, a
    <3>2. /\ Less(n) \in Nat \cup {NoRetry} /\ (Less(n) # NoRetry => n # NoRetry)
          /\ Less(k) \in 0 .. Lease /\ (Less(k) > 0 => k > 0)
          /\ (IF a < MaxAge THEN a + 1 ELSE MaxAge) \in 0 .. MaxAge
      BY <3>1 DEF Less, NoRetry
    <3> QED BY <3>2 DEF n, k, a
  <2>5. q \in Row
    <3>1. q = [event |-> r.event, endpoint |-> r.endpoint, attempt |-> r.attempt,
               status |-> r.status, nextRetry |-> Less(r.nextRetry),
               leaseOwner |-> r.leaseOwner, lease |-> Less(r.lease),
               age |-> IF r.age < MaxAge THEN r.age + 1 ELSE MaxAge]
      BY <2>1, <2>2 DEF Row
    <3>2. /\ r.event \in Event /\ r.endpoint \in Endpoint
          /\ r.attempt \in 1 .. MaxAttempts
          /\ r.status \in {"pending", "retrying", "success", "failed", "pruned"}
          /\ r.leaseOwner \in Worker \cup {NoWorker}
      BY <2>1 DEF Row
    <3> QED BY <2>4, <3>1, <3>2 DEF Row
  <2>6. q \in GoodRow
    BY <2>1, <2>3, <2>4, <2>5 DEF GoodRow
  <2> QED BY <2>3, <2>6 DEF q, r
<1> HIDE DEF older
<1>4. rows' \in [1 .. Len(rows) -> GoodRow]
  BY <1>1, <1>2, <1>3
<1>5. rows' \in Seq(GoodRow) /\ Len(rows') = Len(rows)
  BY <1>2, <1>4, SeqDef, LenProperties
<1>6. SameRows(rows')
  BY <1>1, <1>2, <1>3, <1>5 DEF SameRows
<1>7. RowStep
  BY <1>1, <1>2, <1>3 DEF RowStep
<1>8. emitted \subseteq emitted' /\ Len(rows') = Len(rows)
  BY <1>1, <1>5
<1>9. RowsOK'
  BY <1>2, <1>6, <1>8, SameRowsOK
<1>10. WorkersOK'
  BY <1>1, <1>8 DEF IInv, WorkersOK
<1> QED
  BY <1>1, <1>7, <1>9, <1>10 DEF IInv

(* Appended rows: each is new to its event, endpoint and attempt.          *)
LEMMA AppendedRowsOK ==
    ASSUME RowsOK, NEW rs \in Seq(GoodRow), Len(rows) <= Len(rs),
           emitted \subseteq emitted',
           \A i \in 1 .. Len(rows) : rs[i] = rows[i],
           \A k \in 1 .. Len(rs) : k > Len(rows) =>
              /\ rs[k].event \in emitted'
              /\ \A i \in 1 .. k - 1 :
                    (rs[i].status # "pruned" /\ rs[i].event = rs[k].event
                       /\ rs[i].endpoint = rs[k].endpoint)
                    => rs[i].attempt # rs[k].attempt
    PROVE  /\ \A d \in 1 .. Len(rs) : rs[d].event \in emitted'
           /\ \A i, k \in 1 .. Len(rs) :
                 /\ rs[i].status # "pruned" /\ rs[k].status # "pruned"
                 /\ rs[i].event = rs[k].event /\ rs[i].endpoint = rs[k].endpoint
                 /\ rs[i].attempt = rs[k].attempt
                 => i = k
<1>1. Len(rows) \in Nat /\ Len(rs) \in Nat
  BY RowIndex, LenProperties
<1>2. ASSUME NEW d \in 1 .. Len(rs) PROVE rs[d].event \in emitted'
  <2>1. CASE d > Len(rows)
    BY <2>1
  <2>2. CASE d <= Len(rows)
    BY <1>1, <2>2 DEF RowsOK
  <2> QED BY <1>1, <2>1, <2>2
<1>3. ASSUME NEW i \in 1 .. Len(rs), NEW k \in 1 .. Len(rs), i < k,
             rs[i].status # "pruned", rs[k].status # "pruned",
             rs[i].event = rs[k].event, rs[i].endpoint = rs[k].endpoint,
             rs[i].attempt = rs[k].attempt
      PROVE  FALSE
  <2>1. CASE k > Len(rows)
    <3>1. i \in 1 .. k - 1
      BY <1>1, <1>3
    <3> QED BY <1>3, <2>1, <3>1
  <2>2. CASE k <= Len(rows)
    <3>1. /\ i \in 1 .. Len(rows) /\ k \in 1 .. Len(rows) /\ i # k
          /\ rs[i] = rows[i] /\ rs[k] = rows[k]
      BY <1>1, <1>3, <2>2
    <3> QED BY <1>3, <3>1 DEF RowsOK
  <2> QED BY <1>1, <2>1, <2>2
<1> QED
  <2>1. \A i, k \in 1 .. Len(rs) : i < k \/ k < i \/ i = k
    BY <1>1
  <2> QED BY <1>2, <1>3, <2>1

LEMMA NewRowGood ==
    ASSUME NEW v \in Event, NEW e \in Endpoint, NEW n \in 1 .. MaxAttempts
    PROVE  /\ NewRow(v, e, n) \in GoodRow
           /\ NewRow(v, e, n).event = v /\ NewRow(v, e, n).endpoint = e
           /\ NewRow(v, e, n).attempt = n
<1>1. 0 \in 0 .. Lease /\ 0 \in 0 .. MaxAge
  BY OutboxAssumption
<1>2. NewRow(v, e, n) \in Row
  BY <1>1 DEF NewRow, Row
<1> QED
  BY <1>2 DEF NewRow, GoodRow

(* pruneDeliveries: only rows of the endpoint go, and nothing comes back.  *)
LEMMA WithoutOK ==
    ASSUME NEW rs \in Seq(GoodRow), NEW gone \in SUBSET DOMAIN rs
    PROVE  LET q == Without(rs, gone) IN
           /\ q \in Seq(GoodRow) /\ Len(q) = Len(rs)
           /\ \A i \in 1 .. Len(rs) :
                 /\ q[i].event = rs[i].event /\ q[i].endpoint = rs[i].endpoint
                 /\ q[i].attempt = rs[i].attempt
                 /\ q[i] = rs[i] \/ q[i].status = "pruned"
<1> DEFINE pruned(i) == Released(rs[i], "pruned", NoRetry)
           q == Without(rs, gone)
<1>1. /\ Len(rs) \in Nat /\ DOMAIN rs = 1 .. Len(rs)
      /\ \A i \in 1 .. Len(rs) : rs[i] \in GoodRow
  BY LenProperties, ElementOfSeq
<1>2. ASSUME NEW i \in 1 .. Len(rs)
      PROVE  /\ pruned(i) \in GoodRow /\ pruned(i).status = "pruned"
             /\ pruned(i).event = rs[i].event /\ pruned(i).endpoint = rs[i].endpoint
             /\ pruned(i).attempt = rs[i].attempt
  <2>1. /\ rs[i] \in GoodRow /\ NoRetry \in Nat \cup {NoRetry}
        /\ "pruned" \in {"retrying", "success", "failed", "pruned"}
    BY <1>1
  <2> DEFINE r == rs[i]
  <2> HIDE DEF r
  <2>2. r \in GoodRow
    BY <2>1 DEF r
  <2>3. /\ Released(r, "pruned", NoRetry) \in GoodRow
        /\ Released(r, "pruned", NoRetry).event = r.event
        /\ Released(r, "pruned", NoRetry).endpoint = r.endpoint
        /\ Released(r, "pruned", NoRetry).attempt = r.attempt
        /\ Released(r, "pruned", NoRetry).status = "pruned"
    BY <2>1, <2>2, ReleasedGood
  <2> QED BY <2>3 DEF r
<1>3. q = [i \in 1 .. Len(rs) |-> IF i \in gone THEN pruned(i) ELSE rs[i]]
  BY <1>1 DEF Without
<1> HIDE DEF pruned, q
<1>4. q \in [1 .. Len(rs) -> GoodRow]
  BY <1>1, <1>2, <1>3
<1>5. q \in Seq(GoodRow) /\ Len(q) = Len(rs)
  BY <1>1, <1>4, SeqDef, LenProperties
<1>6. \A i \in 1 .. Len(rs) :
         /\ q[i].event = rs[i].event /\ q[i].endpoint = rs[i].endpoint
         /\ q[i].attempt = rs[i].attempt
         /\ q[i] = rs[i] \/ q[i].status = "pruned"
  BY <1>2, <1>3
<1> QED
  BY <1>5, <1>6 DEF q

LEMMA EnqueueOK ==
    ASSUME IInv, NEW w \in Worker, Enqueue(w)
    PROVE  IInv' /\ RowStep
<1> DEFINE j == worker[w].job
           new == NewRow(j.event, j.endpoint, j.attempt)
           added == Append(rows, new)
<1>1. /\ worker[w].pc = "enqueue" /\ emitted' = emitted
      /\ endpoint' = endpoint /\ crashes' = crashes
  BY DEF Enqueue
<1>2. /\ RowsOK /\ WorkersOK /\ worker \in [Worker -> WorkerRecord]
      /\ worker[w] \in WorkerRecord /\ WorkerOK(worker[w], Len(rows), emitted)
      /\ rows \in Seq(GoodRow) /\ Len(rows) \in Nat /\ DOMAIN rows = 1 .. Len(rows)
  BY RowIndex DEF IInv, WorkersOK, RowsOK
<1>3. j \in Job /\ j.event \in emitted
  BY <1>1, <1>2 DEF WorkerOK
<1>4. j.event \in Event /\ j.endpoint \in Endpoint /\ j.attempt \in 1 .. MaxAttempts
  BY <1>3 DEF Job
<1>5. CASE GoTo(w, "find") /\ rows' = rows
  <2> DEFINE x == [worker[w] EXCEPT !.pc = "find"]
  <2>1. SameRows(rows') /\ RowStep
    BY <1>2, <1>5, UnwrittenRows
  <2>2. /\ x \in WorkerRecord /\ x.pc = "find" /\ x.job = worker[w].job
        /\ x.jobs = worker[w].jobs
    BY <1>2 DEF WorkerRecord, PC
  <2>3. worker' = [worker EXCEPT ![w] = x]
    BY <1>2, <1>5 DEF GoTo
  <2> HIDE DEF x
  <2>4. /\ WorkerOK(x, Len(rows'), emitted') /\ emitted \subseteq emitted'
        /\ rows' \in Seq(GoodRow) /\ Len(rows) <= Len(rows')
    BY <1>1, <1>2, <1>3, <1>5, <2>2 DEF WorkerOK
  <2>5. WorkersOK'
    BY <1>2, <2>2, <2>3, <2>4, MovedWorkerOK
  <2>6. RowsOK'
    BY <1>2, <2>1, <2>4, SameRowsOK
  <2> QED BY <1>1, <2>1, <2>5, <2>6 DEF IInv
<1>6. ASSUME ~HasDelivery(j.event, j.endpoint, j.attempt),
             NEW gone \in Surplus(added, j.endpoint), rows' = Without(added, gone),
             worker' = [worker EXCEPT ![w].pc = "claim", ![w].job.row = Len(rows) + 1]
      PROVE  IInv' /\ RowStep
  <2> DEFINE job == [j EXCEPT !.row = Len(rows) + 1]
             x == [worker[w] EXCEPT !.pc = "claim", !.job = job]
  <2>1. /\ new \in GoodRow /\ new.event = j.event /\ new.endpoint = j.endpoint
        /\ new.attempt = j.attempt
    BY <1>4, NewRowGood
  <2> HIDE DEF new
  <2>2. /\ added \in Seq(GoodRow) /\ Len(added) = Len(rows) + 1
        /\ \A i \in 1 .. Len(rows) : added[i] = rows[i]
        /\ added[Len(rows) + 1] = new
    BY <1>2, <2>1
  <2> HIDE DEF added
  <2>3. gone \in SUBSET DOMAIN added
    BY <1>6 DEF Surplus
  <2>4. /\ rows' \in Seq(GoodRow) /\ Len(rows') = Len(rows) + 1
        /\ \A i \in 1 .. Len(rows) + 1 :
              /\ rows'[i].event = added[i].event /\ rows'[i].endpoint = added[i].endpoint
              /\ rows'[i].attempt = added[i].attempt
              /\ rows'[i] = added[i] \/ rows'[i].status = "pruned"
    BY <1>6, <2>2, <2>3, WithoutOK
  <2>5. RowStep
    BY <1>2, <2>2, <2>4 DEF RowStep
  <2>6. ASSUME NEW i \in 1 .. Len(rows), rows[i].status # "pruned",
               rows[i].event = j.event, rows[i].endpoint = j.endpoint
        PROVE  rows[i].attempt # j.attempt
    BY <1>2, <1>6, <2>6 DEF HasDelivery
  <2>7. RowsOK'
    <3>1. ASSUME NEW d \in 1 .. Len(rows') PROVE rows'[d].event \in emitted'
      <4>1. CASE d = Len(rows) + 1
        BY <1>1, <1>2, <1>3, <2>1, <2>2, <2>4, <4>1
      <4>2. CASE d # Len(rows) + 1
        BY <1>1, <1>2, <2>2, <2>4, <4>2 DEF RowsOK
      <4> QED BY <4>1, <4>2
    <3>2. ASSUME NEW i \in 1 .. Len(rows), NEW k \in 1 .. Len(rows'),
                 rows'[i].status # "pruned", rows'[k].status # "pruned",
                 rows'[i].event = rows'[k].event, rows'[i].endpoint = rows'[k].endpoint,
                 rows'[i].attempt = rows'[k].attempt
          PROVE  i = k
      <4>1. rows'[i] = rows[i] /\ rows[i].status # "pruned"
        BY <1>2, <2>2, <2>4, <3>2
      <4>2. CASE k = Len(rows) + 1
        BY <1>2, <2>1, <2>2, <2>4, <2>6, <3>2, <4>1, <4>2
      <4>3. CASE k # Len(rows) + 1
        <5>1. k \in 1 .. Len(rows) /\ rows'[k] = rows[k]
          BY <1>2, <2>2, <2>4, <3>2, <4>3
        <5> QED BY <1>2, <3>2, <4>1, <5>1 DEF RowsOK
      <4> QED BY <4>2, <4>3
    <3>3. \A i, k \in 1 .. Len(rows') :
             i \in 1 .. Len(rows) \/ k \in 1 .. Len(rows) \/ i = k
      BY <1>2, <2>4
    <3> QED BY <2>4, <3>1, <3>2, <3>3 DEF RowsOK
  <2>8. job \in Job /\ job.row = Len(rows) + 1 /\ job.event = j.event
    BY <1>2, <1>3 DEF Job
  <2>9. worker' = [worker EXCEPT ![w] = x]
    BY <1>2, <1>3, <1>6 DEF WorkerRecord, Job
  <2> HIDE DEF job
  <2>10. /\ x \in WorkerRecord /\ x.pc = "claim" /\ x.job = job
         /\ x.jobs = worker[w].jobs
    BY <1>2, <2>8 DEF WorkerRecord, PC
  <2> HIDE DEF x
  <2>11. Len(rows) <= Len(rows') /\ emitted \subseteq emitted'
    BY <1>1, <1>2, <2>4
  <2>12. WorkerOK(x, Len(rows'), emitted')
    BY <1>1, <1>2, <1>3, <2>4, <2>8, <2>10 DEF WorkerOK
  <2>13. WorkersOK'
    BY <1>2, <2>4, <2>9, <2>10, <2>11, <2>12, MovedWorkerOK
  <2> QED BY <1>1, <2>5, <2>7, <2>13 DEF IInv
<1> QED
  BY <1>5, <1>6 DEF Enqueue

LEMMA SettleOK ==
    ASSUME IInv, NEW v \in Event, Settle(v)
    PROVE  IInv' /\ RowStep
<1> DEFINE N == Cardinality(Subscribers)
           L == Len(rows)
<1>1. /\ v \notin emitted /\ emitted' = emitted \cup {v} /\ worker' = worker
      /\ endpoint' = endpoint /\ crashes' = crashes
  BY DEF Settle
<1>2. PICK order \in Bijection(1 .. N, Subscribers) :
        rows' = rows \o [i \in 1 .. N |-> NewRow(v, order[i], 1)]
  BY DEF Settle
<1>3. RowsOK /\ WorkersOK /\ rows \in Seq(GoodRow) /\ L \in Nat
  BY RowIndex DEF IInv, RowsOK
<1>4. Subscribers \subseteq Endpoint /\ N \in Nat
  <2>1. IsFiniteSet(Subscribers)
    BY FS_Subset, OutboxAssumption DEF Subscribers
  <2> QED BY <2>1, FS_CardinalityType DEF Subscribers
<1>5. /\ \A i \in 1 .. N : order[i] \in Subscribers
      /\ \A i, k \in 1 .. N : order[i] = order[k] => i = k
  BY DEF Bijection, Injection, IsInjective
<1> HIDE DEF N, L
<1> DEFINE new == [i \in 1 .. N |-> NewRow(v, order[i], 1)]
<1>6. ASSUME NEW i \in 1 .. N
      PROVE  /\ new[i] \in GoodRow /\ new[i].event = v
             /\ new[i].endpoint = order[i] /\ new[i].attempt = 1
  BY <1>4, <1>5, NewRowGood, OutboxAssumption
<1>7. new \in Seq(GoodRow) /\ Len(new) = N
  <2>1. new \in [1 .. N -> GoodRow]
    BY <1>6
  <2> QED BY <1>4, <2>1, SeqDef, LenProperties
<1>8. rows' = rows \o new
  BY <1>2
<1> HIDE DEF new
<1>9. /\ rows' \in Seq(GoodRow) /\ Len(rows') = L + N
      /\ \A i \in 1 .. L + N : rows'[i] = IF i <= L THEN rows[i] ELSE new[i - L]
  BY <1>3, <1>7, <1>8, ConcatProperties DEF L
<1>10. /\ \A i \in 1 .. L : rows'[i] = rows[i] /\ rows[i].event # v
       /\ L <= Len(rows') /\ emitted \subseteq emitted'
  BY <1>1, <1>3, <1>4, <1>9 DEF RowsOK, L
<1>11. ASSUME NEW k \in 1 .. Len(rows'), k > L
       PROVE  /\ k - L \in 1 .. N /\ rows'[k].event = v
              /\ rows'[k].endpoint = order[k - L]
  BY <1>3, <1>4, <1>6, <1>9, <1>11
<1>12. ASSUME NEW k \in 1 .. Len(rows'), k > L
       PROVE  /\ rows'[k].event \in emitted'
              /\ \A i \in 1 .. k - 1 :
                    (rows'[i].status # "pruned" /\ rows'[i].event = rows'[k].event
                       /\ rows'[i].endpoint = rows'[k].endpoint)
                    => rows'[i].attempt # rows'[k].attempt
  <2>1. rows'[k].event = v /\ rows'[k].endpoint = order[k - L] /\ k - L \in 1 .. N
    BY <1>11, <1>12
  <2>2. ASSUME NEW i \in 1 .. k - 1
        PROVE  rows'[i].event # v \/ rows'[i].endpoint # order[k - L]
    <3>1. CASE i <= L
      <4>1. i \in 1 .. L
        BY <1>3, <3>1
      <4> QED BY <1>10, <4>1
    <3>2. CASE i > L
      <4>1. i \in 1 .. Len(rows') /\ i # k
        BY <1>3, <1>4, <1>9
      <4>2. rows'[i].endpoint = order[i - L] /\ i - L \in 1 .. N
        BY <1>11, <3>2, <4>1
      <4>3. i - L # k - L
        BY <1>3, <4>1
      <4> QED BY <1>5, <2>1, <4>2, <4>3
    <3> QED BY <1>3, <3>1, <3>2
  <2> QED BY <1>1, <2>1, <2>2
<1>13. RowsOK'
  <2> DEFINE rs == rows'
  <2>1. /\ rs \in Seq(GoodRow) /\ Len(rows) <= Len(rs)
        /\ \A i \in 1 .. Len(rows) : rs[i] = rows[i]
    BY <1>9, <1>10 DEF L
  <2>2. \A k \in 1 .. Len(rs) : k > Len(rows) =>
              /\ rs[k].event \in emitted'
              /\ \A i \in 1 .. k - 1 :
                    (rs[i].status # "pruned" /\ rs[i].event = rs[k].event
                       /\ rs[i].endpoint = rs[k].endpoint)
                    => rs[i].attempt # rs[k].attempt
    BY <1>12 DEF L
  <2> HIDE DEF rs
  <2>3. /\ \A d \in 1 .. Len(rs) : rs[d].event \in emitted'
        /\ \A i, k \in 1 .. Len(rs) :
              /\ rs[i].status # "pruned" /\ rs[k].status # "pruned"
              /\ rs[i].event = rs[k].event /\ rs[i].endpoint = rs[k].endpoint
              /\ rs[i].attempt = rs[k].attempt
              => i = k
    BY <1>3, <1>10, <2>1, <2>2, AppendedRowsOK
  <2> QED BY <2>1, <2>3 DEF RowsOK, rs
<1>14. WorkersOK'
  BY <1>1, <1>3, <1>9, <1>10, UnmovedWorkersOK DEF L
<1>15. RowStep
  BY <1>10 DEF RowStep, L
<1> QED
  BY <1>1, <1>13, <1>14, <1>15 DEF IInv

-----------------------------------------------------------------------------
(* The invariant, and the theorems.                                        *)

LEMMA InitOK ==
    ASSUME Init
    PROVE  IInv
<1>1. rows \in Seq(GoodRow) /\ Len(rows) = 0
  BY DEF Init
<1>2. RowsOK
  BY <1>1 DEF RowsOK
<1>3. WorkersOK
  BY IdleOK DEF Init, WorkersOK
<1>4. endpoint \in [Endpoint -> EndpointRecord]
  BY DEF Init, EndpointRecord
<1>5. emitted \subseteq Event /\ crashes \in 0 .. MaxCrashes
  BY OutboxAssumption DEF Init
<1> QED
  BY <1>2, <1>3, <1>4, <1>5 DEF IInv

LEMMA StepOK ==
    ASSUME IInv, [Next]_vars
    PROVE  IInv' /\ RowStep
<1>1. ASSUME NEW w \in Worker, Start(w)
      PROVE  IInv' /\ RowStep
  BY <1>1, ProcessDueOK, EmitOK, SendTestOK DEF Start
<1>2. ASSUME NEW w \in Worker, WorkerStep(w)
      PROVE  IInv' /\ RowStep
  BY <1>2, EnqueueOK, FindOK, ClaimOK, LoadOK, GiveUpOK, ConsumeOK, SendOK
     DEF WorkerStep
<1>3. CASE UNCHANGED vars
  <2>1. RowStep
    BY <1>3 DEF vars, RowStep
  <2> QED BY <1>3, <2>1 DEF vars, IInv, RowsOK, WorkersOK
<1> QED
  BY <1>1, <1>2, <1>3, CrashOK, SettleOK, EndpointsOK, TickOK DEF Next

(* What the theorems below rest on: rows that are held may still be sent,  *)
(* each attempt has one row, workers hold rows that were written.          *)
THEOREM OutboxInvariant == Spec => []IInv
<1>1. Init => IInv
  BY InitOK
<1>2. IInv /\ [Next]_vars => IInv'
  BY StepOK
<1> QED
  BY <1>1, <1>2, PTL DEF Spec

LEMMA RowsTyped ==
    ASSUME IInv
    PROVE  TypeOK
<1>1. RowsOK
  BY DEF IInv
<1>2. rows \in Seq(Row)
  BY <1>1, SeqMonotonic DEF RowsOK, GoodRow
<1>3. \A d \in DOMAIN rows :
         /\ rows[d].nextRetry # NoRetry => rows[d].status = "retrying"
         /\ rows[d].lease > 0 => rows[d].leaseOwner # NoWorker
  BY <1>1, RowIndex DEF GoodRow
<1> QED
  BY <1>2, <1>3 DEF IInv, TypeOK, WorkersOK, WorkerRecord

(* Type correctness: rows, workers and endpoints keep their shape, only a  *)
(* row in "retrying" has a retry time, and only a held row a lease.        *)
THEOREM OutboxTypeOK == Spec => []TypeOK
<1>1. IInv => TypeOK
  BY RowsTyped
<1> QED
  BY <1>1, OutboxInvariant, PTL

(* However many passes and emissions run, and whatever they lose, no two   *)
(* rows that are stored are for one event, endpoint and attempt            *)
(* (enqueuePendingDelivery and the rows settleAndEnqueue writes).          *)
THEOREM OutboxOneRowPerAttempt == Spec => []OneRowPerAttempt
<1>1. IInv => OneRowPerAttempt
  BY RowIndex DEF IInv, RowsOK, OneRowPerAttempt
<1> QED
  BY <1>1, OutboxInvariant, PTL

(* While a lease runs its holder alone changes the row's outcome           *)
(* (claimDelivery and finalizeClaimedDelivery), even when workers come     *)
(* back long after they lost it.                                           *)
THEOREM OutboxLeasesHold == Spec => LeasesHold
<1>1. IInv /\ [Next]_vars =>
        [\A d \in DOMAIN rows :
           LET r == rows[d] IN
           /\ LeaseActive(r)
           /\ rows'[d].status # "pruned"
           /\ <<rows'[d].status, rows'[d].leaseOwner>> # <<r.status, r.leaseOwner>>
           => worker'[r.leaseOwner] # worker[r.leaseOwner]]_vars
  <2> SUFFICES ASSUME IInv, [Next]_vars, NEW d \in DOMAIN rows,
                      LeaseActive(rows[d]), rows'[d].status # "pruned",
                      <<rows'[d].status, rows'[d].leaseOwner>>
                        # <<rows[d].status, rows[d].leaseOwner>>
               PROVE  worker'[rows[d].leaseOwner] # worker[rows[d].leaseOwner]
    OBVIOUS
  <2>1. RowStep /\ d \in 1 .. Len(rows)
    BY StepOK, RowIndex DEF IInv
  <2>2. ~IsDue(rows[d])
    BY DEF IsDue
  <2> QED BY <2>1, <2>2 DEF RowStep
<1> QED
  BY <1>1, OutboxInvariant, PTL DEF Spec, LeasesHold

(* An outcome is final: a row that succeeded, or failed for good, is never *)
(* claimed or finalized again, only pruned.                                *)
THEOREM OutboxOutcomesAreFinal == Spec => OutcomesAreFinal
<1>1. IInv /\ [Next]_vars =>
        [\A d \in DOMAIN rows :
           rows[d].status \in {"success", "failed"}
               => rows'[d].status \in {rows[d].status, "pruned"}]_vars
  <2> SUFFICES ASSUME IInv, [Next]_vars, NEW d \in DOMAIN rows,
                      rows[d].status \in {"success", "failed"}
               PROVE  rows'[d].status \in {rows[d].status, "pruned"}
    OBVIOUS
  <2>1. RowStep /\ d \in 1 .. Len(rows) /\ rows[d] \in GoodRow
    BY StepOK, RowIndex DEF IInv
  <2>2. ~IsDue(rows[d])
    BY DEF IsDue
  <2>3. rows[d].leaseOwner \notin Worker
    BY <2>1, OutboxAssumption DEF GoodRow
  <2> QED BY <2>1, <2>2, <2>3 DEF RowStep
<1> QED
  BY <1>1, OutboxInvariant, PTL DEF Spec, OutcomesAreFinal

-----------------------------------------------------------------------------
(* The order of the rows of an event, when a worker that lives finishes    *)
(* before its lease does.                                                  *)

IsFor(j, v, e) == j.event = v /\ j.endpoint = e

(* The jobs before a pass are for the rows it read; what it has to write   *)
(* it has once.                                                            *)
JobsFit(jobs, rs) ==
    \A j \in jobs :
        /\ j.row # NoRow => IsFor(rs[j.row], j.event, j.endpoint)
        /\ \A k \in jobs : k.row = NoRow /\ IsFor(k, j.event, j.endpoint) => k = j

Fits(x, rs) ==
    /\ JobsFit(x.jobs, rs)
    /\ x.pc \in {"claim", "load", "giveup", "consume", "send"} =>
          IsFor(rs[x.job.row], x.job.event, x.job.endpoint)
    /\ x.pc # "idle" =>
          \A k \in x.jobs : k.row = NoRow => ~IsFor(k, x.job.event, x.job.endpoint)

(* A worker that is about to write a row for v and e, and one that has     *)
(* claimed a row and may yet consume it.                                   *)
Writes(x, v, e) ==
    \/ x.pc = "enqueue" /\ IsFor(x.job, v, e)
    \/ \E j \in x.jobs : j.row = NoRow /\ IsFor(j, v, e)

Works(x, v, e) == x.pc \in {"load", "consume"} /\ IsFor(x.job, v, e)

Busy(x, v, e) == Writes(x, v, e) \/ Works(x, v, e)

Over(v, e) ==
    \A i \in RowsOf(v, e) : ~IsOpen(rows[i]) /\ rows[i].status # "success"

Sole(w, v, e) ==
    \A i \in RowsOf(v, e) :
        /\ rows[i].status # "success"
        /\ IsOpen(rows[i]) => /\ i = worker[w].job.row
                              /\ rows[i].leaseOwner = w /\ rows[i].lease > 0

OneOpen(v, e) ==
    \A i \in RowsOf(v, e) : IsOpen(rows[i]) =>
        \A k \in RowsOf(v, e) \ {i} :
            k < i /\ ~IsOpen(rows[k]) /\ rows[k].status # "success"

(* One worker at most carries v on to e, and a row is written when the     *)
(* last one is closed.                                                     *)
Ordered(v, e) ==
    /\ OneOpen(v, e)
    /\ \A w \in Worker :
          /\ Writes(worker[w], v, e) => Over(v, e)
          /\ Works(worker[w], v, e) => Sole(w, v, e)
    /\ \A w, u \in Worker :
          Busy(worker[w], v, e) /\ Busy(worker[u], v, e) => w = u

HeldIsOpen ==
    \A d \in 1 .. Len(rows) : rows[d].leaseOwner # NoWorker => IsOpen(rows[d])

Order ==
    /\ HeldIsOpen
    /\ \A w \in Worker : Fits(worker[w], rows)
    /\ \A v \in Event, e \in Endpoint : Ordered(v, e)

(* A step that opens no row and takes none from a worker at work; a row    *)
(* succeeds only in the hands of w.                                        *)
Closes(w, v, e) ==
    /\ RowsOf(v, e)' = RowsOf(v, e)
    /\ \A i \in RowsOf(v, e) :
          /\ IsOpen(rows'[i]) => IsOpen(rows[i])
          /\ rows'[i].status = "success" =>
                \/ rows[i].status = "success"
                \/ IsOpen(rows[i]) /\ rows[i].leaseOwner = w
          /\ \A u \in Worker \ {w} :
                /\ IsOpen(rows'[i]) /\ rows[i].leaseOwner = u /\ rows[i].lease > 0
                /\ worker[u].pc # "idle" /\ worker[u].job.row = i
                => rows'[i].leaseOwner = u /\ rows'[i].lease > 0

LEMMA OverKept ==
    ASSUME NEW w, NEW v, NEW e, Closes(w, v, e), Over(v, e)
    PROVE  Over(v, e)'
BY DEF Closes, Over

LEMMA OrderedKept ==
    ASSUME NEW w, NEW v, NEW e, Ordered(v, e), Closes(w, v, e),
           \A u \in Worker \ {w} : worker'[u] = worker[u],
           w \in Worker =>
              /\ Busy(worker'[w], v, e) =>
                    \/ Busy(worker[w], v, e)
                    \/ \A u \in Worker : ~Busy(worker[u], v, e)
              /\ Writes(worker'[w], v, e) => Over(v, e) \/ Over(v, e)'
              /\ Works(worker'[w], v, e) => Sole(w, v, e)'
    PROVE  Ordered(v, e)'
<1>1. OneOpen(v, e)'
  BY DEF Ordered, OneOpen, Closes
<1>2. ASSUME NEW u \in Worker
      PROVE  /\ Writes(worker'[u], v, e) => Over(v, e)'
             /\ Works(worker'[u], v, e) => Sole(u, v, e)'
  <2>1. CASE u = w
    BY <2>1, OverKept
  <2>2. CASE u # w
    <3>1. worker'[u] = worker[u]
      BY <2>2
    <3>2. Writes(worker[u], v, e) => Over(v, e)'
      BY OverKept DEF Ordered
    <3>3. ASSUME Works(worker[u], v, e)
          PROVE  Sole(u, v, e)'
      <4>1. Sole(u, v, e)
        BY <3>3 DEF Ordered
      <4>2. worker[u].pc # "idle"
        BY <3>3 DEF Works
      <4> SUFFICES ASSUME NEW i \in RowsOf(v, e)
                   PROVE  /\ rows'[i].status # "success"
                          /\ IsOpen(rows'[i]) =>
                                /\ i = worker'[u].job.row
                                /\ rows'[i].leaseOwner = u /\ rows'[i].lease > 0
        BY DEF Sole, Closes, IsOpen
      <4>3. /\ rows[i].status # "success"
            /\ IsOpen(rows[i]) => /\ i = worker[u].job.row
                                  /\ rows[i].leaseOwner = u /\ rows[i].lease > 0
        BY <4>1 DEF Sole
      <4> QED BY <2>2, <3>1, <4>2, <4>3 DEF Closes
    <3> QED BY <3>1, <3>2, <3>3
  <2> QED BY <2>1, <2>2
<1>3. ASSUME NEW x \in Worker, NEW u \in Worker,
             Busy(worker'[x], v, e), Busy(worker'[u], v, e)
      PROVE  x = u
  <2>1. ASSUME NEW y \in Worker, y # w PROVE worker'[y] = worker[y]
    BY <2>1
  <2> QED BY <1>3, <2>1 DEF Ordered
<1> QED
  BY <1>1, <1>2, <1>3 DEF Ordered

(* A row is written for v and e when none is open and nobody is about to   *)
(* write another.                                                          *)
LEMMA OrderedGrows ==
    ASSUME NEW v, NEW e, Over(v, e), NEW n \in Nat, RowsOf(v, e) \subseteq 1 .. n,
           RowsOf(v, e)' \subseteq RowsOf(v, e) \cup {n + 1},
           \A i \in RowsOf(v, e) :
              /\ IsOpen(rows'[i]) => IsOpen(rows[i])
              /\ rows'[i].status = "success" => rows[i].status = "success",
           \A w \in Worker : ~Busy(worker'[w], v, e)
    PROVE  Ordered(v, e)'
<1>1. ASSUME NEW i \in RowsOf(v, e)', IsOpen(rows'[i]),
             NEW k \in RowsOf(v, e)' \ {i}
      PROVE  k < i /\ ~IsOpen(rows'[k]) /\ rows'[k].status # "success"
  <2>1. i = n + 1
    BY <1>1 DEF Over
  <2>2. k \in RowsOf(v, e)
    BY <1>1, <2>1
  <2> QED BY <2>1, <2>2 DEF Over
<1>2. OneOpen(v, e)'
  BY <1>1 DEF OneOpen, IsOpen
<1> QED
  BY <1>2 DEF Ordered, Busy

(* The rows keep what they are for.                                        *)
LEMMA FitsKept ==
    ASSUME NEW x, NEW n \in Nat, NEW seen, WorkerOK(x, n, seen), NEW rs, NEW qs,
           \A d \in 1 .. n : qs[d].event = rs[d].event /\ qs[d].endpoint = rs[d].endpoint,
           Fits(x, rs)
    PROVE  Fits(x, qs)
BY DEF Fits, JobsFit, IsFor, WorkerOK, NoRow

LEMMA SameRowsOf ==
    ASSUME RowsOK, SameRows(rows'), NEW v, NEW e
    PROVE  RowsOf(v, e)' = RowsOf(v, e)
<1>1. /\ rows \in Seq(GoodRow) /\ rows' \in Seq(GoodRow) /\ Len(rows') = Len(rows)
      /\ \A d \in 1 .. Len(rows) :
            rows'[d].event = rows[d].event /\ rows'[d].endpoint = rows[d].endpoint
  BY DEF RowsOK, SameRows
<1>2. DOMAIN rows = 1 .. Len(rows) /\ DOMAIN rows' = 1 .. Len(rows')
  BY <1>1, LenProperties
<1> QED
  BY <1>1, <1>2 DEF RowsOf

(* One worker moves and no row is added.                                   *)
LEMMA OrderMoved ==
    ASSUME IInv, Order, NEW w \in Worker, NEW x, SameRows(rows'),
           worker' = [worker EXCEPT ![w] = x], HeldIsOpen', Fits(x, rows'),
           \A v \in Event, e \in Endpoint :
              /\ Closes(w, v, e)
              /\ Busy(x, v, e) => \/ Busy(worker[w], v, e)
                                  \/ \A u \in Worker : ~Busy(worker[u], v, e)
              /\ Writes(x, v, e) => Over(v, e) \/ Over(v, e)'
              /\ Works(x, v, e) => Sole(w, v, e)'
    PROVE  Order'
<1>1. /\ RowsOK /\ Len(rows) \in Nat /\ worker \in [Worker -> WorkerRecord]
      /\ \A u \in Worker : WorkerOK(worker[u], Len(rows), emitted)
  BY RowIndex DEF IInv, WorkersOK
<1>2. worker'[w] = x /\ \A u \in Worker \ {w} : worker'[u] = worker[u]
  BY <1>1
<1>3. ASSUME NEW u \in Worker PROVE Fits(worker'[u], rows')
  <2>1. CASE u = w
    BY <1>2, <2>1
  <2>2. CASE u # w
    <3>1. worker'[u] = worker[u] /\ Fits(worker[u], rows)
      BY <1>2, <2>2 DEF Order
    <3>2. \A d \in 1 .. Len(rows) :
             rows'[d].event = rows[d].event /\ rows'[d].endpoint = rows[d].endpoint
      BY DEF SameRows
    <3>3. Fits(worker[u], rows')
      BY <1>1, <3>1, <3>2, FitsKept
    <3> QED BY <3>1, <3>3
  <2> QED BY <2>1, <2>2
<1>4. ASSUME NEW v \in Event, NEW e \in Endpoint PROVE Ordered(v, e)'
  <2>1. /\ Busy(worker'[w], v, e) => \/ Busy(worker[w], v, e)
                                     \/ \A u \in Worker : ~Busy(worker[u], v, e)
        /\ Writes(worker'[w], v, e) => Over(v, e) \/ Over(v, e)'
        /\ Works(worker'[w], v, e) => Sole(w, v, e)'
    BY <1>2
  <2>2. Ordered(v, e) /\ Closes(w, v, e)
    BY DEF Order
  <2> QED BY <1>2, <2>1, <2>2, OrderedKept
<1> QED
  BY <1>3, <1>4 DEF Order

(* A worker that takes up one of its jobs.                                 *)
LEMMA TakeUpFits ==
    ASSUME WorkersOK, NEW w \in Worker, NEW jobs, NEW known, TakeUp(w, jobs, known),
           NEW rs, JobsFit(jobs, rs)
    PROVE  \E x : /\ worker' = [worker EXCEPT ![w] = x]
                  /\ Fits(x, rs)
                  /\ \A v, e : /\ ~Works(x, v, e)
                               /\ Writes(x, v, e) =>
                                     \E j \in jobs : j.row = NoRow /\ IsFor(j, v, e)
<1>1. CASE jobs = {} /\ worker' = [worker EXCEPT ![w] = Idle]
  <2>1. /\ Fits(Idle, rs)
        /\ \A v, e : ~Works(Idle, v, e) /\ ~Writes(Idle, v, e)
    BY DEF Fits, JobsFit, Idle, Works, Writes
  <2> QED BY <1>1, <2>1
<1>2. ASSUME NEW j \in jobs,
             worker' = [worker EXCEPT ![w] =
                [pc |-> IF j.row = NoRow THEN "enqueue" ELSE "claim",
                 job |-> j, jobs |-> jobs \ {j}, known |-> known]]
      PROVE  \E x : /\ worker' = [worker EXCEPT ![w] = x]
                    /\ Fits(x, rs)
                    /\ \A v, e : /\ ~Works(x, v, e)
                                 /\ Writes(x, v, e) =>
                                       \E k \in jobs : k.row = NoRow /\ IsFor(k, v, e)
  <2> DEFINE x == [pc |-> IF j.row = NoRow THEN "enqueue" ELSE "claim",
                   job |-> j, jobs |-> jobs \ {j}, known |-> known]
  <2>1. /\ x.pc = IF j.row = NoRow THEN "enqueue" ELSE "claim"
        /\ x.job = j /\ x.jobs = jobs \ {j}
    OBVIOUS
  <2>2. worker' = [worker EXCEPT ![w] = x]
    BY <1>2
  <2> HIDE DEF x
  <2>3. Fits(x, rs)
    BY <2>1 DEF Fits, JobsFit
  <2>4. \A v, e : /\ ~Works(x, v, e)
                  /\ Writes(x, v, e) => \E k \in jobs : k.row = NoRow /\ IsFor(k, v, e)
    BY <2>1 DEF Works, Writes
  <2> QED BY <2>2, <2>3, <2>4
<1> QED
  BY <1>1, <1>2 DEF TakeUp

(* One lemma per action again.  First those that change no row.            *)

LEMMA StillOrder ==
    ASSUME IInv, Order, NEW w \in Worker, NEW x, rows' = rows,
           worker' = [worker EXCEPT ![w] = x], Fits(x, rows),
           \A v \in Event, e \in Endpoint :
              /\ Busy(x, v, e) => \/ Busy(worker[w], v, e)
                                  \/ \A u \in Worker : ~Busy(worker[u], v, e)
              /\ Writes(x, v, e) => Over(v, e)
              /\ Works(x, v, e) => Works(worker[w], v, e) /\ x.job = worker[w].job
    PROVE  Order'
<1>1. RowsOK /\ worker \in [Worker -> WorkerRecord] /\ SameRows(rows')
  BY UnwrittenRows DEF IInv, WorkersOK
<1>2. HeldIsOpen'
  BY DEF Order, HeldIsOpen, IsOpen
<1>3. ASSUME NEW v \in Event, NEW e \in Endpoint
      PROVE  /\ Closes(w, v, e)
             /\ Works(x, v, e) => Sole(w, v, e)'
  <2>1. RowsOf(v, e)' = RowsOf(v, e)
    BY <1>1, SameRowsOf
  <2>2. Closes(w, v, e)
    BY <2>1 DEF Closes
  <2>3. ASSUME Works(x, v, e) PROVE Sole(w, v, e)'
    <3>1. Sole(w, v, e) /\ worker'[w].job = worker[w].job
      BY <1>1, <2>3 DEF Order, Ordered
    <3> QED BY <2>1, <3>1 DEF Sole, IsOpen
  <2> QED BY <2>2, <2>3
<1>4. Fits(x, rows')
  OBVIOUS
<1> QED
  BY <1>1, <1>2, <1>3, <1>4, OrderMoved

(* A pass that takes up jobs, which are new or were before it.             *)
LEMMA StillTakeUp ==
    ASSUME IInv, Order, NEW w \in Worker, NEW jobs, NEW known, TakeUp(w, jobs, known),
           rows' = rows, JobsFit(jobs, rows),
           \A v \in Event, e \in Endpoint :
              (\E j \in jobs : j.row = NoRow /\ IsFor(j, v, e)) =>
                  \/ Writes(worker[w], v, e)
                  \/ Over(v, e) /\ \A u \in Worker : ~Busy(worker[u], v, e)
    PROVE  Order'
<1>1. PICK x : /\ worker' = [worker EXCEPT ![w] = x]
               /\ Fits(x, rows)
               /\ \A v, e : /\ ~Works(x, v, e)
                            /\ Writes(x, v, e) =>
                                  \E j \in jobs : j.row = NoRow /\ IsFor(j, v, e)
  BY TakeUpFits DEF IInv
<1>2. ASSUME NEW v \in Event, NEW e \in Endpoint, Writes(x, v, e)
      PROVE  /\ Over(v, e)
             /\ \/ Busy(worker[w], v, e)
                \/ \A u \in Worker : ~Busy(worker[u], v, e)
  <2>1. \/ Writes(worker[w], v, e)
        \/ Over(v, e) /\ \A u \in Worker : ~Busy(worker[u], v, e)
    BY <1>1, <1>2
  <2>2. Writes(worker[w], v, e) => Over(v, e)
    BY DEF Order, Ordered
  <2> QED BY <2>1, <2>2 DEF Busy
<1>3. \A v \in Event, e \in Endpoint :
         /\ Busy(x, v, e) => \/ Busy(worker[w], v, e)
                             \/ \A u \in Worker : ~Busy(worker[u], v, e)
         /\ Writes(x, v, e) => Over(v, e)
         /\ Works(x, v, e) => Works(worker[w], v, e) /\ x.job = worker[w].job
  BY <1>1, <1>2 DEF Busy
<1> QED
  BY <1>1, <1>3, StillOrder

LEMMA StillNextJob ==
    ASSUME IInv, Order, NEW w \in Worker, NextJob(w), rows' = rows
    PROVE  Order'
<1>1. /\ TakeUp(w, worker[w].jobs, worker[w].known)
      /\ JobsFit(worker[w].jobs, rows)
  BY DEF NextJob, Order, Fits
<1>2. \A v \in Event, e \in Endpoint :
         (\E j \in worker[w].jobs : j.row = NoRow /\ IsFor(j, v, e)) =>
             Writes(worker[w], v, e)
  BY DEF Writes
<1> QED
  BY <1>1, <1>2, StillTakeUp

LEMMA StillIdle ==
    ASSUME IInv, Order, NEW w \in Worker, worker' = [worker EXCEPT ![w] = Idle],
           rows' = rows
    PROVE  Order'
<1>1. /\ Fits(Idle, rows)
      /\ \A v, e : ~Works(Idle, v, e) /\ ~Writes(Idle, v, e) /\ ~Busy(Idle, v, e)
  BY DEF Fits, JobsFit, Idle, Works, Writes, Busy
<1> QED
  BY <1>1, StillOrder

(* An event that has yet to happen has no row, and nobody is at work on it.*)
LEMMA NewEvent ==
    ASSUME IInv, NEW v \in Event, v \notin emitted, NEW e \in Endpoint
    PROVE  /\ RowsOf(v, e) = {} /\ Over(v, e)
           /\ \A u \in Worker : ~Busy(worker[u], v, e)
<1>1. RowsOf(v, e) = {}
  BY RowIndex DEF IInv, RowsOK, RowsOf
<1>2. ASSUME NEW u \in Worker PROVE ~Busy(worker[u], v, e)
  <2>1. WorkerOK(worker[u], Len(rows), emitted)
    BY DEF IInv, WorkersOK
  <2> QED BY <2>1 DEF WorkerOK, Busy, Works, Writes, IsFor
<1> QED
  BY <1>1, <1>2 DEF Over

LEMMA EmitOrder ==
    ASSUME IInv, Order, NEW w \in Worker, NEW v \in Event, Emit(w, v)
    PROVE  Order'
<1> DEFINE jobs == {NewAttempt(v, e, 1) : e \in Subscribers}
<1>1. rows' = rows /\ v \notin emitted /\ TakeUp(w, jobs, {})
  BY DEF Emit
<1>2. \A j \in jobs : j.row = NoRow /\ j.event = v
                      /\ \A k \in jobs : k.endpoint = j.endpoint => k = j
  <2>1. \A e : /\ NewAttempt(v, e, 1).row = NoRow /\ NewAttempt(v, e, 1).event = v
               /\ NewAttempt(v, e, 1).endpoint = e
    BY DEF NewAttempt
  <2>2. \A j \in jobs : \E e : j = NewAttempt(v, e, 1)
    OBVIOUS
  <2> HIDE DEF jobs
  <2> QED BY <2>1, <2>2
<1> HIDE DEF jobs
<1>3. JobsFit(jobs, rows)
  BY <1>2 DEF JobsFit, IsFor
<1>4. \A f \in Event, e \in Endpoint :
         (\E j \in jobs : j.row = NoRow /\ IsFor(j, f, e)) =>
             Over(f, e) /\ \A u \in Worker : ~Busy(worker[u], f, e)
  BY <1>1, <1>2, NewEvent DEF IsFor
<1> QED
  BY <1>1, <1>3, <1>4, StillTakeUp

LEMMA SendTestOrder ==
    ASSUME IInv, Order, NEW w \in Worker, NEW v \in Event, NEW e \in Endpoint,
           SendTest(w, v, e)
    PROVE  Order'
<1> DEFINE jobs == {NewAttempt(v, e, 1)}
<1>1. rows' = rows /\ v \notin emitted /\ TakeUp(w, jobs, {})
  BY DEF SendTest
<1>2. \A j \in jobs : j.row = NoRow /\ j.event = v /\ \A k \in jobs : k = j
  BY DEF NewAttempt
<1> HIDE DEF jobs
<1>3. JobsFit(jobs, rows)
  BY <1>2 DEF JobsFit
<1>4. \A f \in Event, g \in Endpoint :
         (\E j \in jobs : j.row = NoRow /\ IsFor(j, f, g)) =>
             Over(f, g) /\ \A u \in Worker : ~Busy(worker[u], f, g)
  BY <1>1, <1>2, NewEvent DEF IsFor
<1> QED
  BY <1>1, <1>3, <1>4, StillTakeUp

LEMMA ProcessDueOrder ==
    ASSUME IInv, Order, NEW w \in Worker, ProcessDue(w)
    PROVE  Order'
<1> DEFINE AsJob(i) == [row |-> i, retry |-> rows[i].status = "retrying",
                        event |-> rows[i].event, endpoint |-> rows[i].endpoint,
                        attempt |-> rows[i].attempt]
           known == {e \in Endpoint : Usable(e)}
<1>1. /\ rows' = rows
      /\ \E batch \in SUBSET DOMAIN rows : TakeUp(w, {AsJob(i) : i \in batch}, known)
  BY DEF ProcessDue
<1>2. PICK batch \in SUBSET DOMAIN rows : TakeUp(w, {AsJob(i) : i \in batch}, known)
  BY <1>1
<1>3. DOMAIN rows = 1 .. Len(rows) /\ Len(rows) \in Nat
  BY RowIndex DEF IInv
<1> DEFINE jobs == {AsJob(i) : i \in batch}
<1>4. \A j \in jobs : j.row # NoRow /\ IsFor(rows[j.row], j.event, j.endpoint)
  BY <1>3 DEF IsFor, NoRow
<1>5. TakeUp(w, jobs, known)
  BY <1>2
<1> HIDE DEF jobs, known, AsJob
<1>6. JobsFit(jobs, rows)
  BY <1>4 DEF JobsFit
<1> QED
  BY <1>1, <1>4, <1>5, <1>6, StillTakeUp

LEMMA FindOrder ==
    ASSUME IInv, Order, NEW w \in Worker, Find(w)
    PROVE  Order'
BY StillNextJob, StillIdle DEF Find

LEMMA CrashOrder ==
    ASSUME IInv, Order, NEW w \in Worker, Crash(w)
    PROVE  Order'
BY StillIdle DEF Crash

LEMMA LoadOrder ==
    ASSUME IInv, Order, NEW w \in Worker, Load(w)
    PROVE  Order'
<1>1. rows' = rows /\ worker[w].pc = "load"
  BY DEF Load
<1>2. PICK pc \in {"giveup", "send", "consume"} : worker' = [worker EXCEPT ![w].pc = pc]
  BY DEF Load, GoTo
<1>3. worker \in [Worker -> WorkerRecord] /\ worker[w] \in WorkerRecord
  BY DEF IInv, WorkersOK
<1> DEFINE x == [worker[w] EXCEPT !.pc = pc]
<1>4. x.pc = pc /\ x.job = worker[w].job /\ x.jobs = worker[w].jobs
  BY <1>3 DEF WorkerRecord
<1>5. worker' = [worker EXCEPT ![w] = x]
  BY <1>2, <1>3
<1> HIDE DEF x
<1>6. Fits(x, rows)
  BY <1>1, <1>4 DEF Order, Fits
<1>7. \A v \in Event, e \in Endpoint :
         /\ Busy(x, v, e) => Busy(worker[w], v, e)
         /\ Writes(x, v, e) => Over(v, e)
         /\ Works(x, v, e) => Works(worker[w], v, e) /\ x.job = worker[w].job
  <2> TAKE v \in Event, e \in Endpoint
  <2>1. /\ Works(x, v, e) => Works(worker[w], v, e)
        /\ Writes(x, v, e) => Writes(worker[w], v, e)
    BY <1>1, <1>4 DEF Works, Writes
  <2>2. Writes(worker[w], v, e) => Over(v, e)
    BY DEF Order, Ordered
  <2> QED BY <1>4, <2>1, <2>2 DEF Busy
<1> QED
  BY <1>1, <1>5, <1>6, <1>7, StillOrder

LEMMA EndpointsOrder ==
    ASSUME IInv, Order, NEW e \in Endpoint,
           CreateEndpoint(e) \/ UpdateEndpoint(e) \/ DeleteEndpoint(e)
    PROVE  Order'
<1>1. rows' = rows /\ worker' = worker
  BY DEF CreateEndpoint, UpdateEndpoint, DeleteEndpoint
<1> QED
  BY <1>1 DEF Order, HeldIsOpen, Ordered, OneOpen, Over, Sole, RowsOf, IsOpen

(* Then a worker that lets go of a row.                                    *)

LEMMA FinalizeMoves ==
    ASSUME IInv, Order, NEW w \in Worker, NEW d \in 1 .. Len(rows),
           NEW status \in {"retrying", "success", "failed"},
           NEW nextRetry \in Nat \cup {NoRetry},
           nextRetry # NoRetry => status = "retrying",
           rows' = Finalize(d, w, status, nextRetry), worker'[w] # worker[w]
    PROVE  /\ SameRows(rows') /\ HeldIsOpen'
           /\ \A v \in Event, e \in Endpoint : Closes(w, v, e)
           /\ rows[d].leaseOwner = w =>
                 rows'[d].status = status /\ rows'[d].nextRetry = nextRetry
<1>1. /\ RowsOK /\ rows \in Seq(GoodRow) /\ DOMAIN rows = 1 .. Len(rows)
      /\ \A i \in 1 .. Len(rows) : rows[i] \in GoodRow
  BY RowIndex DEF IInv, RowsOK
<1>2. SameRows(rows')
  BY <1>1, FinalizeOK
<1>3. /\ DOMAIN rows' = 1 .. Len(rows) /\ Len(rows') = Len(rows)
      /\ \A i \in 1 .. Len(rows) : rows'[i] \in GoodRow
  BY <1>1, <1>2, LenProperties, ElementOfSeq DEF SameRows
<1>4. rows[d].leaseOwner = w => rows[d].status # "pruned" /\ IsOpen(rows[d])
  BY <1>1, OutboxAssumption DEF GoodRow, Order, HeldIsOpen
<1>5. rows[d].leaseOwner = w =>
         /\ rows'[d].status = status /\ rows'[d].nextRetry = nextRetry
         /\ rows'[d].leaseOwner = NoWorker
  BY <1>1, <1>4 DEF Finalize, Released, GoodRow, Row
<1>6. \A i \in 1 .. Len(rows) :
         rows'[i] = rows[i] \/ (i = d /\ rows[d].leaseOwner = w)
  BY <1>1 DEF Finalize
<1>7. HeldIsOpen'
  BY <1>3, <1>5, <1>6 DEF Order, HeldIsOpen, IsOpen
<1>8. ASSUME NEW v \in Event, NEW e \in Endpoint PROVE Closes(w, v, e)
  <2>1. RowsOf(v, e)' = RowsOf(v, e) /\ RowsOf(v, e) \subseteq 1 .. Len(rows)
    <3>1. RowsOf(v, e)' = RowsOf(v, e)
      BY <1>1, <1>2, SameRowsOf
    <3>2. RowsOf(v, e) \subseteq 1 .. Len(rows)
      BY <1>1 DEF RowsOf
    <3> QED BY <3>1, <3>2
  <2>2. ASSUME NEW i \in RowsOf(v, e), rows'[i] # rows[i]
        PROVE  IsOpen(rows[i]) /\ rows[i].leaseOwner = w
    BY <1>4, <1>6, <2>1, <2>2
  <2> QED BY <2>1, <2>2 DEF Closes
<1> QED
  BY <1>2, <1>5, <1>7, <1>8

LEMMA DoneOrder ==
    ASSUME IInv, Order, NEW w \in Worker, worker[w].pc \in {"giveup", "send"},
           NEW status \in {"retrying", "success", "failed"},
           NEW nextRetry \in Nat \cup {NoRetry},
           nextRetry # NoRetry => status = "retrying",
           rows' = Finalize(worker[w].job.row, w, status, nextRetry), NextJob(w)
    PROVE  Order'
<1>1. /\ RowsOK /\ WorkersOK /\ Len(rows) \in Nat
      /\ WorkerOK(worker[w], Len(rows), emitted)
  BY RowIndex DEF IInv, WorkersOK
<1>2. worker[w].job.row \in 1 .. Len(rows)
  BY <1>1 DEF WorkerOK
<1>3. worker'[w] # worker[w]
  BY <1>1, TakeUpMoves DEF NextJob
<1>4. /\ SameRows(rows') /\ HeldIsOpen'
      /\ \A v \in Event, e \in Endpoint : Closes(w, v, e)
  BY <1>2, <1>3, FinalizeMoves
<1>5. JobsFit(worker[w].jobs, rows')
  <2>1. Fits(worker[w], rows)
    BY DEF Order
  <2>2. Fits(worker[w], rows')
    BY <1>1, <1>4, <2>1, FitsKept DEF SameRows
  <2> QED BY <2>2 DEF Fits
<1>6. PICK x : /\ worker' = [worker EXCEPT ![w] = x]
               /\ Fits(x, rows')
               /\ \A v, e : /\ ~Works(x, v, e)
                            /\ Writes(x, v, e) =>
                                  \E j \in worker[w].jobs : j.row = NoRow /\ IsFor(j, v, e)
  BY <1>1, <1>5, TakeUpFits DEF NextJob
<1>7. \A v \in Event, e \in Endpoint :
         /\ Busy(x, v, e) => Busy(worker[w], v, e)
         /\ Writes(x, v, e) => Over(v, e)
         /\ ~Works(x, v, e)
  <2> TAKE v \in Event, e \in Endpoint
  <2>1. ~Works(x, v, e) /\ (Writes(x, v, e) => Writes(worker[w], v, e))
    BY <1>6 DEF Writes
  <2>2. Writes(worker[w], v, e) => Over(v, e)
    BY DEF Order, Ordered
  <2> QED BY <2>1, <2>2 DEF Busy
<1> QED
  BY <1>4, <1>6, <1>7, OrderMoved

LEMMA GiveUpOrder ==
    ASSUME IInv, Order, NEW w \in Worker, GiveUp(w)
    PROVE  Order'
<1>1. /\ worker[w].pc = "giveup" /\ NextJob(w)
      /\ rows' = Finalize(worker[w].job.row, w, "failed", NoRetry)
  BY DEF GiveUp
<1> QED
  BY <1>1, DoneOrder

LEMMA SendOrder ==
    ASSUME IInv, Order, NEW w \in Worker, Send(w)
    PROVE  Order'
<1> DEFINE n == worker[w].job.attempt
           d == worker[w].job.row
<1>1. worker[w].pc = "send" /\ NextJob(w)
  BY DEF Send
<1>2. n \in 1 .. MaxAttempts
  BY <1>1 DEF IInv, WorkersOK, WorkerOK, Job
<1>3. RetryAfter(n) \in Nat \cup {NoRetry}
  BY <1>2, OutboxAssumption DEF RetryAfter
<1>4. \/ rows' = Finalize(d, w, "success", NoRetry)
      \/ rows' = Finalize(d, w, "failed", NoRetry)
      \/ rows' = Finalize(d, w, IF RetryAfter(n) = NoRetry THEN "failed" ELSE "retrying",
                         RetryAfter(n))
  BY DEF Send
<1>5. CASE rows' = Finalize(d, w, "success", NoRetry)
  BY <1>1, <1>5, DoneOrder
<1>6. CASE rows' = Finalize(d, w, "failed", NoRetry)
  BY <1>1, <1>6, DoneOrder
<1>7. CASE RetryAfter(n) # NoRetry /\ rows' = Finalize(d, w, "retrying", RetryAfter(n))
  BY <1>1, <1>3, <1>7, DoneOrder
<1> QED
  BY <1>4, <1>5, <1>6, <1>7

LEMMA ConsumeOrder ==
    ASSUME IInv, Order, NEW w \in Worker, Consume(w)
    PROVE  Order'
<1> DEFINE j == worker[w].job
           job == NewAttempt(j.event, j.endpoint, j.attempt + 1)
           x == [worker[w] EXCEPT !.pc = "enqueue", !.job = job]
<1>1. worker[w].pc = "consume" /\ rows' = Finalize(j.row, w, "retrying", NoRetry)
  BY DEF Consume
<1>2. /\ RowsOK /\ worker \in [Worker -> WorkerRecord] /\ Len(rows) \in Nat
      /\ worker[w] \in WorkerRecord /\ WorkerOK(worker[w], Len(rows), emitted)
  BY RowIndex DEF IInv, WorkersOK
<1>3. j \in Job /\ j.row \in 1 .. Len(rows)
  BY <1>1, <1>2 DEF WorkerOK
<1>4. worker' = [worker EXCEPT ![w] = x]
  BY <1>2, <1>3 DEF Consume, WorkerRecord, Job
<1>5. job.event = j.event /\ job.endpoint = j.endpoint
  BY DEF NewAttempt
<1> HIDE DEF job
<1>6. x.pc = "enqueue" /\ x.job = job /\ x.jobs = worker[w].jobs
  BY <1>2 DEF WorkerRecord
<1> HIDE DEF x, j
<1>7. worker'[w] # worker[w]
  BY <1>1, <1>2, <1>4, <1>6
<1>8. /\ SameRows(rows') /\ HeldIsOpen'
      /\ \A v \in Event, e \in Endpoint : Closes(w, v, e)
      /\ rows[j.row].leaseOwner = w =>
            rows'[j.row].status = "retrying" /\ rows'[j.row].nextRetry = NoRetry
  BY <1>1, <1>3, <1>7, FinalizeMoves
<1>9. Fits(x, rows')
  <2>1. Fits(worker[w], rows)
    BY DEF Order
  <2>2. Fits(worker[w], rows')
    BY <1>2, <1>8, <2>1, FitsKept DEF SameRows
  <2>3. worker[w].job = j
    BY DEF j
  <2> QED BY <1>1, <1>5, <1>6, <2>2, <2>3 DEF Fits, IsFor
<1>10. ASSUME NEW v \in Event, NEW e \in Endpoint
       PROVE  /\ ~Works(x, v, e)
              /\ Busy(x, v, e) => Busy(worker[w], v, e)
              /\ Writes(x, v, e) => Over(v, e) \/ Over(v, e)'
  <2>1. /\ ~Works(x, v, e)
        /\ Writes(x, v, e) => Works(worker[w], v, e) \/ Writes(worker[w], v, e)
    BY <1>1, <1>5, <1>6 DEF Works, Writes, IsFor, j
  <2>2. ASSUME Works(worker[w], v, e) PROVE Over(v, e)'
    <3>1. Sole(w, v, e) /\ Closes(w, v, e)
      BY <1>8, <2>2 DEF Order, Ordered
    <3>2. ASSUME NEW i \in RowsOf(v, e)
          PROVE  ~IsOpen(rows'[i]) /\ rows'[i].status # "success"
      <4>1. CASE IsOpen(rows[i])
        <5>1. i = j.row /\ rows[j.row].leaseOwner = w
          BY <3>1, <4>1 DEF Sole, j
        <5> QED BY <1>8, <5>1 DEF IsOpen
      <4>2. CASE ~IsOpen(rows[i])
        BY <3>1, <4>2 DEF Sole, Closes
      <4> QED BY <4>1, <4>2
    <3> QED BY <3>1, <3>2 DEF Over, Closes, IsOpen
  <2>3. Writes(worker[w], v, e) => Over(v, e)
    BY DEF Order, Ordered
  <2> QED BY <2>1, <2>2, <2>3 DEF Busy
<1> QED
  BY <1>4, <1>8, <1>9, <1>10, OrderMoved

LEMMA ClaimOrder ==
    ASSUME IInv, Order, NEW w \in Worker, Claim(w)
    PROVE  Order'
<1> DEFINE j == worker[w].job
           d == worker[w].job.row
           x == [worker[w] EXCEPT !.pc = "load"]
           r == Claimed(rows[d], w)
<1>1. worker[w].pc = "claim"
  BY DEF Claim
<1>2. /\ RowsOK /\ WorkersOK /\ worker \in [Worker -> WorkerRecord]
      /\ worker[w] \in WorkerRecord /\ WorkerOK(worker[w], Len(rows), emitted)
      /\ Fits(worker[w], rows) /\ Len(rows) \in Nat /\ DOMAIN rows = 1 .. Len(rows)
  BY RowIndex DEF IInv, WorkersOK, Order
<1>3. /\ d \in 1 .. Len(rows) /\ rows[d] \in GoodRow /\ rows \in Seq(GoodRow)
      /\ IsFor(rows[d], j.event, j.endpoint)
  BY <1>1, <1>2, RowIndex DEF WorkerOK, RowsOK, Fits
<1>4. CASE NextJob(w) /\ rows' = rows
  BY <1>4, StillNextJob
<1>5. CASE /\ IsDue(rows[d]) /\ rows' = [rows EXCEPT ![d] = r]
           /\ worker' = [worker EXCEPT ![w].pc = "load"]
  <2>1. IsOpen(rows[d]) /\ ~LeaseActive(rows[d])
    BY <1>5 DEF IsDue, IsOpen, NoRetry
  <2>2. r = [rows[d] EXCEPT !.leaseOwner = w, !.lease = Lease] /\ rows[d] \in Row
    BY <1>3 DEF Claimed, GoodRow
  <2> HIDE DEF r
  <2>3. /\ r.event = rows[d].event /\ r.endpoint = rows[d].endpoint
        /\ r.attempt = rows[d].attempt /\ r.status = rows[d].status
        /\ r.nextRetry = rows[d].nextRetry /\ r.leaseOwner = w /\ r.lease = Lease
    BY <2>2 DEF Row
  <2>4. r \in Row
    <3>1. r = [event |-> rows[d].event, endpoint |-> rows[d].endpoint,
               attempt |-> rows[d].attempt, status |-> rows[d].status,
               nextRetry |-> rows[d].nextRetry, leaseOwner |-> w, lease |-> Lease,
               age |-> rows[d].age]
      BY <2>2 DEF Row
    <3>2. /\ rows[d].event \in Event /\ rows[d].endpoint \in Endpoint
          /\ rows[d].attempt \in 1 .. MaxAttempts /\ rows[d].age \in 0 .. MaxAge
          /\ rows[d].status \in {"pending", "retrying", "success", "failed", "pruned"}
          /\ rows[d].nextRetry \in Nat \cup {NoRetry}
      BY <2>2 DEF Row
    <3>3. Lease \in 0 .. Lease
      BY OutboxAssumption
    <3> QED BY <3>1, <3>2, <3>3 DEF Row
  <2>5. r \in GoodRow /\ rows[d].status # "pruned" /\ r.lease > 0 /\ IsOpen(r)
    <3>1. r.lease > 0 /\ w # NoWorker
      BY <2>3, OutboxAssumption
    <3>2. IsOpen(r) /\ rows[d].status \in {"pending", "retrying"}
      BY <2>1, <2>3 DEF IsOpen
    <3>3. r.nextRetry # NoRetry => r.status = "retrying"
      BY <1>3, <2>3 DEF GoodRow
    <3>4. r.status \notin {"success", "failed", "pruned"} /\ r.leaseOwner # NoWorker
      BY <2>3, <3>1, <3>2
    <3>5. r \in GoodRow
      BY <2>4, <3>3, <3>4 DEF GoodRow
    <3> QED BY <3>1, <3>2, <3>5
  <2>6. /\ SameRows(rows') /\ rows'[d] = r
        /\ \A i \in 1 .. Len(rows) : i # d => rows'[i] = rows[i]
    BY <1>3, <1>5, <2>3, <2>5, ReplacedRow
  <2>7. x.pc = "load" /\ x.job = j /\ x.jobs = worker[w].jobs
    BY <1>2 DEF WorkerRecord
  <2>8. worker' = [worker EXCEPT ![w] = x]
    BY <1>2, <1>5
  <2> HIDE DEF x
  <2>9. HeldIsOpen'
    <3>1. Len(rows') = Len(rows)
      BY <2>6 DEF SameRows
    <3> QED BY <2>5, <2>6, <3>1 DEF Order, HeldIsOpen, IsOpen
  <2>10. Fits(x, rows')
    <3>1. Fits(worker[w], rows')
      BY <1>2, <2>6, FitsKept DEF SameRows
    <3> QED BY <1>1, <2>7, <3>1 DEF Fits
  <2>11. ASSUME NEW v \in Event, NEW e \in Endpoint
         PROVE  /\ Closes(w, v, e)
                /\ Busy(x, v, e) => \/ Busy(worker[w], v, e)
                                    \/ \A u \in Worker : ~Busy(worker[u], v, e)
                /\ Writes(x, v, e) => Over(v, e) \/ Over(v, e)'
                /\ Works(x, v, e) => Sole(w, v, e)'
    <3>1. RowsOf(v, e)' = RowsOf(v, e) /\ RowsOf(v, e) \subseteq 1 .. Len(rows)
      <4>1. RowsOf(v, e)' = RowsOf(v, e)
        BY <1>2, <2>6, SameRowsOf
      <4>2. RowsOf(v, e) \subseteq 1 .. Len(rows)
        BY <1>2 DEF RowsOf
      <4> QED BY <4>1, <4>2
    <3>2. Ordered(v, e)
      BY DEF Order
    <3>3. Closes(w, v, e)
      <4>1. ASSUME NEW u \in Worker, rows[d].leaseOwner = u
            PROVE  ~(rows[d].lease > 0)
        BY <2>1, <4>1, OutboxAssumption DEF LeaseActive
      <4> QED BY <2>1, <2>3, <2>6, <3>1, <4>1 DEF Closes
    <3>4. Writes(x, v, e) => Writes(worker[w], v, e) /\ Over(v, e)
      BY <2>7, <3>2 DEF Writes, Ordered
    <3>5. ASSUME Works(x, v, e)
          PROVE  Sole(w, v, e)' /\ \A u \in Worker : ~Busy(worker[u], v, e)
      <4>1. IsFor(j, v, e) /\ d \in RowsOf(v, e)
        BY <1>2, <1>3, <2>7, <3>5 DEF Works, IsFor, RowsOf
      <4>2. ASSUME NEW u \in Worker PROVE ~Busy(worker[u], v, e)
        <5>1. ~Over(v, e)
          BY <2>1, <4>1 DEF Over
        <5>2. ~Sole(u, v, e)
          BY <2>1, <4>1, OutboxAssumption DEF Sole, LeaseActive
        <5> QED BY <3>2, <5>1, <5>2 DEF Ordered, Busy
      <4>3. \A k \in RowsOf(v, e) \ {d} : ~IsOpen(rows[k]) /\ rows[k].status # "success"
        BY <2>1, <3>2, <4>1 DEF Ordered, OneOpen
      <4>4. worker'[w].job.row = d
        BY <1>2, <2>7, <2>8
      <4>5. ASSUME NEW i \in RowsOf(v, e)
            PROVE  /\ rows'[i].status # "success"
                   /\ IsOpen(rows'[i]) => /\ i = d /\ rows'[i].leaseOwner = w
                                          /\ rows'[i].lease > 0
        <5>1. CASE i = d
          BY <2>3, <2>5, <2>6, <5>1 DEF IsOpen
        <5>2. CASE i # d
          BY <2>6, <3>1, <4>3, <5>2
        <5> QED BY <5>1, <5>2
      <4> QED BY <3>1, <4>2, <4>4, <4>5 DEF Sole, IsOpen
    <3> QED BY <3>3, <3>4, <3>5 DEF Busy
  <2> HIDE DEF j, d
  <2> QED BY <2>6, <2>8, <2>9, <2>10, <2>11, OrderMoved
<1> QED
  BY <1>4, <1>5 DEF Claim, GoTo

(* Then the rows that are written.                                         *)

LEMMA EnqueueOrder ==
    ASSUME IInv, Order, NEW w \in Worker, Enqueue(w)
    PROVE  Order'
<1> DEFINE j == worker[w].job
           n == Len(rows)
           new == NewRow(j.event, j.endpoint, j.attempt)
           added == Append(rows, new)
<1>1. worker[w].pc = "enqueue"
  BY DEF Enqueue
<1>2. /\ RowsOK /\ worker \in [Worker -> WorkerRecord]
      /\ worker[w] \in WorkerRecord /\ WorkerOK(worker[w], n, emitted)
      /\ Fits(worker[w], rows)
      /\ rows \in Seq(GoodRow) /\ n \in Nat /\ DOMAIN rows = 1 .. n
  BY RowIndex DEF IInv, WorkersOK, RowsOK, Order
<1>3. /\ j \in Job /\ j.event \in Event /\ j.endpoint \in Endpoint
      /\ j.attempt \in 1 .. MaxAttempts
  BY <1>1, <1>2 DEF WorkerOK, Job
<1>4. CASE GoTo(w, "find") /\ rows' = rows
  <2> DEFINE x == [worker[w] EXCEPT !.pc = "find"]
  <2>1. x.pc = "find" /\ x.job = worker[w].job /\ x.jobs = worker[w].jobs
    BY <1>2 DEF WorkerRecord
  <2>2. worker' = [worker EXCEPT ![w] = x]
    BY <1>2, <1>4 DEF GoTo
  <2> HIDE DEF x
  <2>3. Fits(x, rows)
    BY <1>1, <1>2, <2>1 DEF Fits
  <2>4. \A v \in Event, e \in Endpoint :
           /\ ~Works(x, v, e)
           /\ Busy(x, v, e) => Busy(worker[w], v, e)
           /\ Writes(x, v, e) => Over(v, e)
    <3> TAKE v \in Event, e \in Endpoint
    <3>1. ~Works(x, v, e) /\ (Writes(x, v, e) => Writes(worker[w], v, e))
      BY <2>1 DEF Works, Writes
    <3>2. Writes(worker[w], v, e) => Over(v, e)
      BY DEF Order, Ordered
    <3> QED BY <3>1, <3>2 DEF Busy
  <2> QED BY <1>4, <2>2, <2>3, <2>4, StillOrder
<1>5. ASSUME NEW gone \in Surplus(added, j.endpoint), rows' = Without(added, gone),
             worker' = [worker EXCEPT ![w].pc = "claim", ![w].job.row = n + 1]
      PROVE  Order'
  <2> DEFINE job == [j EXCEPT !.row = n + 1]
             x == [worker[w] EXCEPT !.pc = "claim", !.job = job]
  <2>1. /\ new \in GoodRow /\ new.event = j.event /\ new.endpoint = j.endpoint
        /\ new.leaseOwner = NoWorker /\ new.status = "pending"
    BY <1>3, NewRowGood DEF NewRow
  <2> HIDE DEF new
  <2>2. /\ added \in Seq(GoodRow) /\ Len(added) = n + 1
        /\ \A i \in 1 .. n : added[i] = rows[i]
        /\ added[n + 1] = new
    BY <1>2, <2>1
  <2> HIDE DEF added
  <2>3. gone \in SUBSET DOMAIN added
    BY <1>5 DEF Surplus
  <2>4. /\ rows' \in Seq(GoodRow) /\ Len(rows') = n + 1
        /\ \A i \in 1 .. n + 1 :
              /\ rows'[i].event = added[i].event /\ rows'[i].endpoint = added[i].endpoint
              /\ rows'[i] = added[i] \/ rows'[i].status = "pruned"
    BY <1>5, <2>2, <2>3, WithoutOK
  <2>5. /\ job.row = n + 1 /\ job.event = j.event /\ job.endpoint = j.endpoint
    BY <1>3 DEF Job
  <2>6. worker' = [worker EXCEPT ![w] = x]
    BY <1>2, <1>3, <1>5 DEF WorkerRecord, Job
  <2> HIDE DEF job
  <2>7. x.pc = "claim" /\ x.job = job /\ x.jobs = worker[w].jobs
    BY <1>2 DEF WorkerRecord
  <2> HIDE DEF x
  <2>8. worker'[w] = x /\ \A u \in Worker \ {w} : worker'[u] = worker[u]
    BY <1>2, <2>6
  <2>9. /\ DOMAIN rows' = 1 .. n + 1
        /\ \A i \in 1 .. n + 1 : rows'[i] \in GoodRow
    BY <2>4, LenProperties, ElementOfSeq
  <2>10. /\ \A i \in 1 .. n : /\ rows'[i].event = rows[i].event
                              /\ rows'[i].endpoint = rows[i].endpoint
                              /\ rows'[i] = rows[i] \/ rows'[i].status = "pruned"
         /\ rows'[n + 1].event = j.event /\ rows'[n + 1].endpoint = j.endpoint
         /\ rows'[n + 1] = new \/ rows'[n + 1].status = "pruned"
    BY <1>2, <2>1, <2>2, <2>4
  <2> HIDE DEF n, j
  <2>11. HeldIsOpen'
    <3>1. ASSUME NEW i \in 1 .. n + 1, rows'[i].leaseOwner # NoWorker
          PROVE  IsOpen(rows'[i])
      <4>1. rows'[i].status # "pruned"
        BY <2>9, <3>1 DEF GoodRow
      <4>2. CASE i = n + 1
        BY <2>1, <2>10, <3>1, <4>1, <4>2
      <4>3. CASE i # n + 1
        <5>1. i \in 1 .. n /\ rows'[i] = rows[i]
          BY <1>2, <2>10, <4>1, <4>3
        <5> QED BY <3>1, <5>1 DEF Order, HeldIsOpen, n
      <4> QED BY <4>2, <4>3
    <3> QED BY <2>4, <3>1 DEF HeldIsOpen, IsOpen
  <2>12. ASSUME NEW u \in Worker PROVE Fits(worker'[u], rows')
    <3>1. Fits(worker[u], rows')
      <4>1. WorkerOK(worker[u], n, emitted) /\ Fits(worker[u], rows)
        BY DEF IInv, WorkersOK, Order, n
      <4> QED BY <1>2, <2>10, <4>1, FitsKept
    <3>2. CASE u = w
      BY <1>1, <2>5, <2>7, <2>8, <2>10, <3>1, <3>2 DEF Fits, IsFor, j
    <3>3. CASE u # w
      BY <2>8, <3>1, <3>3
    <3> QED BY <3>2, <3>3
  <2>13. ASSUME NEW v \in Event, NEW e \in Endpoint PROVE Ordered(v, e)'
    <3>1. Ordered(v, e)
      BY DEF Order
    <3>2. /\ RowsOf(v, e) \subseteq 1 .. n
          /\ RowsOf(v, e)' = IF IsFor(j, v, e) THEN RowsOf(v, e) \cup {n + 1}
                             ELSE RowsOf(v, e)
      BY <1>2, <2>9, <2>10 DEF RowsOf, IsFor
    <3>3. /\ ~Works(x, v, e)
          /\ Writes(x, v, e) => Writes(worker[w], v, e)
      BY <2>7 DEF Works, Writes
    <3>4. CASE IsFor(j, v, e)
      <4>1. Writes(worker[w], v, e) /\ ~Writes(x, v, e)
        BY <1>1, <1>2, <2>7, <3>4 DEF Writes, Fits, IsFor, j
      <4>2. Over(v, e) /\ \A u \in Worker : ~Busy(worker'[u], v, e)
        <5>1. ASSUME NEW u \in Worker PROVE ~Busy(worker'[u], v, e)
          <6>1. CASE u = w
            BY <2>8, <3>3, <4>1, <6>1 DEF Busy
          <6>2. CASE u # w
            BY <2>8, <3>1, <4>1, <6>2 DEF Busy, Ordered
          <6> QED BY <6>1, <6>2
        <5> QED BY <3>1, <4>1, <5>1 DEF Ordered
      <4>3. \A i \in RowsOf(v, e) :
               /\ IsOpen(rows'[i]) => IsOpen(rows[i])
               /\ rows'[i].status = "success" => rows[i].status = "success"
        BY <2>10, <3>2 DEF IsOpen
      <4>4. RowsOf(v, e)' \subseteq RowsOf(v, e) \cup {n + 1}
        BY <3>2
      <4> QED BY <1>2, <3>2, <4>2, <4>3, <4>4, OrderedGrows
    <3>5. CASE ~IsFor(j, v, e)
      <4>1. Closes(w, v, e)
        <5>1. \A i \in RowsOf(v, e) : rows'[i] = rows[i] \/ rows'[i].status = "pruned"
          BY <2>10, <3>2
        <5>2. \A i \in RowsOf(v, e) : rows'[i] = rows[i] \/ ~IsOpen(rows'[i])
          BY <5>1 DEF IsOpen
        <5> QED BY <3>2, <3>5, <5>1, <5>2 DEF Closes
      <4>2. /\ Busy(worker'[w], v, e) => Busy(worker[w], v, e)
            /\ Writes(worker'[w], v, e) => Over(v, e)
            /\ ~Works(worker'[w], v, e)
        BY <2>8, <3>1, <3>3 DEF Busy, Ordered
      <4> QED BY <2>8, <3>1, <4>1, <4>2, OrderedKept
    <3> QED BY <3>4, <3>5
  <2> QED BY <2>11, <2>12, <2>13 DEF Order
<1> QED
  BY <1>4, <1>5 DEF Enqueue

LEMMA SettleOrder ==
    ASSUME IInv, Order, NEW v \in Event, Settle(v)
    PROVE  Order'
<1> DEFINE N == Cardinality(Subscribers)
           n == Len(rows)
<1>1. v \notin emitted /\ worker' = worker
  BY DEF Settle
<1>2. PICK order \in Bijection(1 .. N, Subscribers) :
        rows' = rows \o [i \in 1 .. N |-> NewRow(v, order[i], 1)]
  BY DEF Settle
<1>3. /\ RowsOK /\ rows \in Seq(GoodRow) /\ n \in Nat /\ DOMAIN rows = 1 .. n
  BY RowIndex DEF IInv, RowsOK
<1>4. Subscribers \subseteq Endpoint /\ N \in Nat
  <2>1. IsFiniteSet(Subscribers)
    BY FS_Subset, OutboxAssumption DEF Subscribers
  <2> QED BY <2>1, FS_CardinalityType DEF Subscribers
<1>5. /\ \A i \in 1 .. N : order[i] \in Subscribers
      /\ \A i, k \in 1 .. N : order[i] = order[k] => i = k
  BY DEF Bijection, Injection, IsInjective
<1> HIDE DEF N, n
<1> DEFINE new == [i \in 1 .. N |-> NewRow(v, order[i], 1)]
<1>6. ASSUME NEW i \in 1 .. N
      PROVE  /\ new[i] \in GoodRow /\ new[i].event = v /\ new[i].endpoint = order[i]
             /\ new[i].leaseOwner = NoWorker
  <2>1. order[i] \in Endpoint /\ 1 \in 1 .. MaxAttempts
    BY <1>4, <1>5, OutboxAssumption
  <2>2. new[i] = NewRow(v, order[i], 1)
    OBVIOUS
  <2>3. NewRow(v, order[i], 1).leaseOwner = NoWorker
    BY DEF NewRow
  <2> QED BY <2>1, <2>2, <2>3, NewRowGood
<1>7. new \in Seq(GoodRow) /\ Len(new) = N
  <2>1. new \in [1 .. N -> GoodRow]
    BY <1>6
  <2> QED BY <1>4, <2>1, SeqDef, LenProperties
<1>8. rows' = rows \o new
  BY <1>2
<1> HIDE DEF new
<1>9. /\ rows' \in Seq(GoodRow) /\ Len(rows') = n + N
      /\ \A i \in 1 .. n + N : rows'[i] = IF i <= n THEN rows[i] ELSE new[i - n]
  BY <1>3, <1>7, <1>8, ConcatProperties DEF n
<1>10. DOMAIN rows' = 1 .. n + N
  BY <1>9, LenProperties
<1>11. \A i \in 1 .. n : i \in 1 .. n + N /\ rows'[i] = rows[i]
  BY <1>3, <1>4, <1>9
<1>12. ASSUME NEW k \in 1 .. n + N, k > n
       PROVE  /\ k - n \in 1 .. N /\ rows'[k].event = v
              /\ rows'[k].endpoint = order[k - n] /\ rows'[k].leaseOwner = NoWorker
  BY <1>3, <1>4, <1>6, <1>9, <1>12
<1>13. HeldIsOpen'
  <2>1. ASSUME NEW i \in 1 .. n + N, rows'[i].leaseOwner # NoWorker
        PROVE  IsOpen(rows'[i])
    <3>1. i \in 1 .. n
      BY <1>3, <1>4, <1>12, <2>1
    <3> QED BY <1>11, <2>1, <3>1 DEF Order, HeldIsOpen, n
  <2> QED BY <1>9, <2>1 DEF HeldIsOpen, IsOpen
<1>14. ASSUME NEW u \in Worker PROVE Fits(worker'[u], rows')
  <2>1. WorkerOK(worker[u], n, emitted) /\ Fits(worker[u], rows)
    BY DEF IInv, WorkersOK, Order, n
  <2>2. \A d \in 1 .. n :
           rows'[d].event = rows[d].event /\ rows'[d].endpoint = rows[d].endpoint
    BY <1>11
  <2>3. Fits(worker[u], rows')
    BY <1>3, <2>1, <2>2, FitsKept
  <2> QED BY <1>1, <2>3
<1>15. ASSUME NEW f \in Event, NEW e \in Endpoint PROVE Ordered(f, e)'
  <2>1. CASE f = v
    <3>1. RowsOf(v, e) = {} /\ \A u \in Worker : ~Busy(worker[u], v, e)
      BY <1>1, NewEvent
    <3>2. ASSUME NEW i \in RowsOf(v, e)'
          PROVE  i \in 1 .. n + N /\ i > n /\ rows'[i].endpoint = e
      <4>1. i \in 1 .. n + N /\ rows'[i].event = v /\ rows'[i].endpoint = e
        BY <1>10 DEF RowsOf
      <4>2. ~(i \in 1 .. n)
        BY <1>3, <1>11, <3>1, <4>1 DEF RowsOf
      <4> QED BY <1>3, <4>1, <4>2
    <3>3. \A i, k \in RowsOf(v, e)' : i = k
      <4>1. ASSUME NEW i \in RowsOf(v, e)', NEW k \in RowsOf(v, e)' PROVE i = k
        <5>1. /\ i \in 1 .. n + N /\ i > n /\ rows'[i].endpoint = e
              /\ k \in 1 .. n + N /\ k > n /\ rows'[k].endpoint = e
          BY <3>2
        <5>2. /\ i - n \in 1 .. N /\ rows'[i].endpoint = order[i - n]
              /\ k - n \in 1 .. N /\ rows'[k].endpoint = order[k - n]
          BY <1>12, <5>1
        <5>3. i - n = k - n
          BY <1>5, <5>1, <5>2
        <5> QED BY <1>3, <1>4, <5>1, <5>3
      <4> QED BY <4>1
    <3>4. OneOpen(v, e)'
      BY <3>3 DEF OneOpen
    <3> QED BY <1>1, <2>1, <3>1, <3>4 DEF Ordered, Busy
  <2>2. CASE f # v
    <3>1. RowsOf(f, e) \subseteq 1 .. n
      BY <1>3 DEF RowsOf
    <3>2. RowsOf(f, e)' = RowsOf(f, e)
      <4>1. ASSUME NEW i \in 1 .. n + N
            PROVE  /\ i \in 1 .. n \/ rows'[i].event = v
                   /\ i \in 1 .. n => rows'[i] = rows[i]
        BY <1>3, <1>4, <1>11, <1>12, <4>1
      <4>2. \A i : i \in RowsOf(f, e)' <=> i \in RowsOf(f, e)
        BY <1>3, <1>10, <1>11, <2>2, <4>1 DEF RowsOf
      <4> QED BY <4>2
    <3>3. Ordered(f, e) /\ Closes(NoWorker, f, e)
      BY <1>11, <3>1, <3>2 DEF Order, Closes
    <3> QED BY <1>1, <3>3, OrderedKept, OutboxAssumption
  <2> QED BY <2>1, <2>2
<1> QED
  BY <1>13, <1>14, <1>15 DEF Order

(* Time may make a retry due; it ends no lease of a worker that is at work.*)
LEMMA TickOrder ==
    ASSUME IInv, Order, Prompt, Tick
    PROVE  Order'
<1> DEFINE older(i) == [rows[i] EXCEPT
                          !.nextRetry = Less(rows[i].nextRetry),
                          !.lease = Less(rows[i].lease),
                          !.age = IF rows[i].age < MaxAge THEN rows[i].age + 1 ELSE MaxAge]
<1>1. rows' = [i \in DOMAIN rows |-> older(i)] /\ worker' = worker
  BY DEF Tick
<1>2. \A w \in Worker, d \in DOMAIN rows :
         (worker[w].pc # "idle" /\ worker[w].job.row = d)
             => ~(rows[d].leaseOwner = w /\ rows[d].lease = 1)
  BY DEF Tick
<1>3. /\ RowsOK /\ Len(rows) \in Nat /\ DOMAIN rows = 1 .. Len(rows)
      /\ \A i \in 1 .. Len(rows) : rows[i] \in GoodRow /\ rows[i] \in Row
  BY RowIndex DEF IInv
<1>4. RowsOK' /\ DOMAIN rows' = 1 .. Len(rows)
  BY <1>1, <1>3, TickOK DEF IInv
<1>5. Len(rows') = Len(rows)
  <2>1. DOMAIN rows' = 1 .. Len(rows') /\ Len(rows') \in Nat
    BY <1>4, LenProperties DEF RowsOK
  <2> QED BY <1>3, <1>4, <2>1
<1>6. ASSUME NEW i \in 1 .. Len(rows)
      PROVE  /\ rows'[i].event = rows[i].event /\ rows'[i].endpoint = rows[i].endpoint
             /\ rows'[i].status = rows[i].status
             /\ rows'[i].leaseOwner = rows[i].leaseOwner
             /\ IsOpen(rows'[i]) <=> IsOpen(rows[i])
             /\ rows[i].lease > 1 => rows'[i].lease > 0
             /\ rows[i].lease \in Nat
  <2> DEFINE r == rows[i]
             q == older(i)
  <2>1. r \in Row /\ rows'[i] = q
    BY <1>1, <1>3
  <2> HIDE DEF r
  <2>2. q = [r EXCEPT !.nextRetry = Less(r.nextRetry), !.lease = Less(r.lease),
                     !.age = IF r.age < MaxAge THEN r.age + 1 ELSE MaxAge]
    BY DEF r
  <2> HIDE DEF q
  <2>3. /\ q.event = r.event /\ q.endpoint = r.endpoint /\ q.status = r.status
        /\ q.leaseOwner = r.leaseOwner
        /\ q.nextRetry = Less(r.nextRetry) /\ q.lease = Less(r.lease)
    BY <2>1, <2>2 DEF Row
  <2>4. /\ r.nextRetry \in Nat \cup {NoRetry} /\ r.lease \in Nat
    BY <2>1, OutboxAssumption DEF Row
  <2>5. Less(r.nextRetry) # NoRetry <=> r.nextRetry # NoRetry
    BY <2>4 DEF Less, NoRetry
  <2>6. r.lease > 1 => Less(r.lease) > 0
    BY <2>4 DEF Less
  <2>7. IsOpen(q) <=> IsOpen(r)
    BY <2>3, <2>5 DEF IsOpen
  <2> QED BY <2>1, <2>3, <2>4, <2>6, <2>7 DEF r
<1> HIDE DEF older
<1>7. HeldIsOpen'
  BY <1>5, <1>6 DEF Order, HeldIsOpen, IsOpen
<1>8. ASSUME NEW u \in Worker PROVE Fits(worker'[u], rows')
  <2>1. WorkerOK(worker[u], Len(rows), emitted) /\ Fits(worker[u], rows)
    BY DEF IInv, WorkersOK, Order
  <2>2. Fits(worker[u], rows')
    BY <1>3, <1>6, <2>1, FitsKept
  <2> QED BY <1>1, <2>2
<1>9. ASSUME NEW v \in Event, NEW e \in Endpoint PROVE Ordered(v, e)'
  <2>1. RowsOf(v, e) \subseteq 1 .. Len(rows) /\ RowsOf(v, e)' = RowsOf(v, e)
    BY <1>3, <1>4, <1>6 DEF RowsOf
  <2>2. ASSUME NEW i \in RowsOf(v, e), NEW u \in Worker, rows[i].leaseOwner = u,
               rows[i].lease > 0, worker[u].pc # "idle", worker[u].job.row = i
        PROVE  rows'[i].leaseOwner = u /\ rows'[i].lease > 0
    <3>1. i \in 1 .. Len(rows)
      BY <2>1
    <3>2. rows[i].lease # 1
      BY <1>2, <1>3, <2>2, <3>1
    <3> QED BY <1>6, <2>2, <3>1, <3>2
  <2>3. Closes(NoWorker, v, e)
    BY <1>6, <2>1, <2>2 DEF Closes
  <2>4. Ordered(v, e)
    BY DEF Order
  <2> QED BY <1>1, <2>3, <2>4, OrderedKept, OutboxAssumption
<1> QED
  BY <1>7, <1>8, <1>9 DEF Order

LEMMA OrderInit ==
    ASSUME Init
    PROVE  Order
<1>1. /\ Len(rows) = 0 /\ DOMAIN rows = {}
      /\ \A w \in Worker : worker[w] = Idle
  BY DEF Init
<1>2. /\ Fits(Idle, rows)
      /\ \A v, e : ~Works(Idle, v, e) /\ ~Writes(Idle, v, e) /\ ~Busy(Idle, v, e)
  BY DEF Fits, JobsFit, Idle, Works, Writes, Busy
<1>3. HeldIsOpen
  BY <1>1 DEF HeldIsOpen
<1>4. \A v, e : OneOpen(v, e)
  BY <1>1 DEF OneOpen, RowsOf
<1> QED
  BY <1>1, <1>2, <1>3, <1>4 DEF Order, Ordered

LEMMA OrderStep ==
    ASSUME Prompt, IInv, Order, [Next]_vars
    PROVE  Order'
<1>1. ASSUME NEW w \in Worker, Start(w)
      PROVE  Order'
  BY <1>1, ProcessDueOrder, EmitOrder, SendTestOrder DEF Start
<1>2. ASSUME NEW w \in Worker, WorkerStep(w)
      PROVE  Order'
  BY <1>2, EnqueueOrder, FindOrder, ClaimOrder, LoadOrder, GiveUpOrder, ConsumeOrder,
     SendOrder DEF WorkerStep
<1>3. CASE UNCHANGED vars
  BY <1>3 DEF vars, Order, HeldIsOpen, Ordered, OneOpen, Over, Sole, RowsOf, IsOpen
<1> QED
  BY <1>1, <1>2, <1>3, CrashOrder, SettleOrder, EndpointsOrder, TickOrder DEF Next

(* When a worker that lives finishes before its lease does, an event has   *)
(* at most one row that may still be sent to an endpoint, its last, and    *)
(* none once an attempt succeeded, whatever passes overlap, crash, prune   *)
(* or change endpoints (claimDelivery, the retry branch of the processor,  *)
(* enqueuePendingDelivery).                                                *)
THEOREM OutboxOneOpenRow ==
    ASSUME Prompt
    PROVE  Spec => []OneOpenRow
<1>1. Init => Order
  BY OrderInit
<1>2. IInv /\ Order /\ [Next]_vars => Order'
  BY OrderStep
<1>3. Order => OneOpenRow
  BY DEF Order, Ordered, OneOpen, OneOpenRow
<1> QED
  BY <1>1, <1>2, <1>3, OutboxInvariant, PTL DEF Spec

-----------------------------------------------------------------------------
(* What is kept of a delivery that is between two attempts, with or        *)
(* without Prompt.                                                         *)

(* The row was tried, and its retry taken up.                              *)
Consumed(r) == r.status = "retrying" /\ r.nextRetry = NoRetry

RowIs(r, v, e, n) == r.event = v /\ r.endpoint = e /\ r.attempt = n

(* What a worker has in hand is what the rows say.                         *)
JobTrue(j, rs) == RowIs(rs[j.row], j.event, j.endpoint, j.attempt)

JobsTrue(x, rs) ==
    /\ \A j \in x.jobs : j.row # NoRow => JobTrue(j, rs)
    /\ x.pc \in {"claim", "load", "giveup", "consume", "send"} =>
           JobTrue(x.job, rs)

(* The next attempt has its row, or a worker is about to write it: any     *)
(* earlier row stops a first attempt, only its own row a later one.        *)
Writing(x, v, e, n) == n # 1 /\ x.pc = "enqueue" /\ RowIs(x.job, v, e, n)

HasRow(rs, v, e, n) == \E k \in 1 .. Len(rs) : RowIs(rs[k], v, e, n)

Followed(r, rs, ws) ==
    \/ HasRow(rs, r.event, r.endpoint, r.attempt + 1)
    \/ \E w \in Worker : Writing(ws[w], r.event, r.endpoint, r.attempt + 1)

CarriedIn(rs, ws) ==
    \A i \in 1 .. Len(rs) : Consumed(rs[i]) => Followed(rs[i], rs, ws)

AllTrue(rs, ws) == \A w \in Worker : JobsTrue(ws[w], rs)

Carried == AllTrue(rows, worker) /\ (crashes = 0 => CarriedIn(rows, worker))

(* Rows that are there stay what they are the rows of.                     *)
Extends(qs, rs) ==
    /\ Len(rs) \in Nat /\ Len(qs) \in Nat /\ Len(rs) <= Len(qs)
    /\ \A i \in 1 .. Len(rs) :
          RowIs(qs[i], rs[i].event, rs[i].endpoint, rs[i].attempt)

LEMMA SameRowsExtend ==
    ASSUME IInv, SameRows(rows')
    PROVE  Extends(rows', rows) /\ Len(rows') = Len(rows)
  BY RowsKept DEF IInv, SameRows, Extends, RowIs

LEMMA JobsKept ==
    ASSUME NEW x, NEW rs, NEW qs, NEW seen, WorkerOK(x, Len(rs), seen),
           Extends(qs, rs), JobsTrue(x, rs)
    PROVE  JobsTrue(x, qs)
<1>1. ASSUME NEW j \in x.jobs, j.row # NoRow PROVE JobTrue(j, qs)
  <2>1. j.row \in 1 .. Len(rs)
    BY <1>1 DEF WorkerOK, NoRow, Extends
  <2> QED
    BY <1>1, <2>1 DEF JobsTrue, JobTrue, RowIs, Extends
<1>2. ASSUME x.pc \in {"claim", "load", "giveup", "consume", "send"}
      PROVE  JobTrue(x.job, qs)
  <2>1. x.job.row \in 1 .. Len(rs)
    BY <1>2 DEF WorkerOK
  <2> QED
    BY <1>2, <2>1 DEF JobsTrue, JobTrue, RowIs, Extends
<1> QED
  BY <1>1, <1>2 DEF JobsTrue

(* How a step carries on what it consumes.                                 *)
Carries ==
    /\ Extends(rows', rows)
    /\ \A i \in 1 .. Len(rows') : Consumed(rows'[i]) =>
           \/ i <= Len(rows) /\ Consumed(rows[i])
           \/ Followed(rows'[i], rows', worker')
    /\ \A w \in Worker : \A v, e, n : Writing(worker[w], v, e, n) =>
           Writing(worker'[w], v, e, n) \/ HasRow(rows', v, e, n)

LEMMA StillCarried ==
    ASSUME Carries, CarriedIn(rows, worker)
    PROVE  CarriedIn(rows', worker')
<1>1. \A v, e, n : HasRow(rows, v, e, n) => HasRow(rows', v, e, n)
  BY DEF Carries, Extends, HasRow, RowIs
<1>2. ASSUME NEW i \in 1 .. Len(rows'), i <= Len(rows), Consumed(rows[i])
      PROVE  Followed(rows'[i], rows', worker')
  <2>1. i \in 1 .. Len(rows)
    BY <1>2 DEF Carries, Extends
  <2>2. /\ rows'[i].event = rows[i].event /\ rows'[i].endpoint = rows[i].endpoint
        /\ rows'[i].attempt = rows[i].attempt
    BY <2>1 DEF Carries, Extends, RowIs
  <2>3. Followed(rows[i], rows, worker)
    BY <1>2, <2>1 DEF CarriedIn
  <2> DEFINE v == rows[i].event
             e == rows[i].endpoint
             n == rows[i].attempt + 1
  <2>4. HasRow(rows, v, e, n) \/ \E w \in Worker : Writing(worker[w], v, e, n)
    BY <2>3 DEF Followed
  <2> HIDE DEF v, e, n
  <2>5. HasRow(rows', v, e, n) \/ \E w \in Worker : Writing(worker'[w], v, e, n)
    BY <1>1, <2>4 DEF Carries
  <2> QED
    BY <2>2, <2>5 DEF Followed, v, e, n
<1> QED
  BY <1>2 DEF Carries, CarriedIn

(* A worker moves, and writes no row.                                      *)
LEMMA MovedCarried ==
    ASSUME IInv, Carried, NEW w \in Worker, NEW x,
           worker' = [worker EXCEPT ![w] = x], JobsTrue(x, rows'),
           Extends(rows', rows), Len(rows') = Len(rows),
           crashes' = 0 => crashes = 0,
           crashes' = 0 /\ worker[w].pc = "enqueue" /\ worker[w].job.attempt # 1 =>
               HasRow(rows, worker[w].job.event, worker[w].job.endpoint,
                      worker[w].job.attempt),
           \A i \in 1 .. Len(rows) : Consumed(rows'[i]) =>
               \/ Consumed(rows[i])
               \/ Writing(x, rows[i].event, rows[i].endpoint, rows[i].attempt + 1)
    PROVE  Carried'
<1>1. /\ worker'[w] = x /\ \A u \in Worker \ {w} : worker'[u] = worker[u]
      /\ \A u \in Worker : WorkerOK(worker[u], Len(rows), emitted)
  BY DEF IInv, WorkersOK
<1>2. Extends(rows', rows) /\ Len(rows') = Len(rows)
  OBVIOUS
<1>3. AllTrue(rows', worker')
  <2>1. ASSUME NEW u \in Worker PROVE JobsTrue(worker'[u], rows')
    <3>1. CASE u = w
      BY <1>1, <3>1
    <3>2. CASE u # w
      <4>1. worker'[u] = worker[u] /\ JobsTrue(worker[u], rows)
        BY <1>1, <3>2 DEF Carried, AllTrue
      <4>2. JobsTrue(worker[u], rows')
        BY <1>1, <1>2, <4>1, JobsKept
      <4> QED
        BY <4>1, <4>2
    <3> QED
      BY <3>1, <3>2
  <2> QED
    BY <2>1 DEF AllTrue
<1>4. ASSUME crashes' = 0 PROVE CarriedIn(rows', worker')
  <2>1. ASSUME NEW u \in Worker, NEW v, NEW e, NEW n, Writing(worker[u], v, e, n)
        PROVE  Writing(worker'[u], v, e, n) \/ HasRow(rows', v, e, n)
    <3>1. CASE u = w
      <4>1. HasRow(rows, v, e, n)
        BY <1>4, <2>1, <3>1 DEF Writing, RowIs
      <4> QED
        BY <1>2, <4>1 DEF HasRow, Extends, RowIs
    <3>2. CASE u # w
      BY <1>1, <2>1, <3>2
    <3> QED
      BY <3>1, <3>2
  <2>2. ASSUME NEW i \in 1 .. Len(rows'), Consumed(rows'[i])
        PROVE  \/ i <= Len(rows) /\ Consumed(rows[i])
               \/ Followed(rows'[i], rows', worker')
    <3>1. i \in 1 .. Len(rows) /\ i <= Len(rows)
      BY <1>2 DEF Extends
    <3>2. CASE Writing(x, rows[i].event, rows[i].endpoint, rows[i].attempt + 1)
      <4>1. /\ rows'[i].event = rows[i].event
            /\ rows'[i].endpoint = rows[i].endpoint
            /\ rows'[i].attempt = rows[i].attempt
        BY <1>2, <3>1 DEF Extends, RowIs
      <4>2. Writing(worker'[w], rows'[i].event, rows'[i].endpoint,
                    rows'[i].attempt + 1)
        BY <1>1, <3>2, <4>1
      <4> QED
        BY <4>2 DEF Followed
    <3> QED
      BY <2>2, <3>1, <3>2
  <2>3. Carries
    BY <1>2, <2>1, <2>2 DEF Carries
  <2> QED
    BY <1>4, <2>3, StillCarried DEF Carried
<1> QED
  BY <1>3, <1>4 DEF Carried

(* The workers stay where they are, and no row is consumed.                *)
LEMMA UnmovedCarried ==
    ASSUME IInv, Carried, UNCHANGED <<worker, crashes>>, Extends(rows', rows),
           \A i \in 1 .. Len(rows') : Consumed(rows'[i]) =>
               i <= Len(rows) /\ Consumed(rows[i])
    PROVE  Carried'
<1>1. \A u \in Worker : WorkerOK(worker[u], Len(rows), emitted)
  BY DEF IInv, WorkersOK
<1>2. AllTrue(rows', worker')
  BY <1>1, JobsKept DEF Carried, AllTrue
<1>3. Carries
  BY DEF Carries
<1> QED
  BY <1>2, <1>3, StillCarried DEF Carried

LEMMA TakenUpTrue ==
    ASSUME NEW w \in Worker, NEW jobs, NEW known, TakeUp(w, jobs, known), NEW rs,
           \A j \in jobs : j.row # NoRow => JobTrue(j, rs)
    PROVE  \E x : worker' = [worker EXCEPT ![w] = x] /\ JobsTrue(x, rs)
<1>1. CASE jobs = {} /\ worker' = [worker EXCEPT ![w] = Idle]
  <2>1. JobsTrue(Idle, rs)
    BY DEF JobsTrue, Idle
  <2> QED
    BY <1>1, <2>1
<1>2. ASSUME NEW j \in jobs,
             worker' = [worker EXCEPT ![w] =
                [pc |-> IF j.row = NoRow THEN "enqueue" ELSE "claim",
                 job |-> j, jobs |-> jobs \ {j}, known |-> known]]
      PROVE  \E x : worker' = [worker EXCEPT ![w] = x] /\ JobsTrue(x, rs)
  <2> DEFINE x == [pc |-> IF j.row = NoRow THEN "enqueue" ELSE "claim",
                   job |-> j, jobs |-> jobs \ {j}, known |-> known]
  <2>1. /\ x.pc = IF j.row = NoRow THEN "enqueue" ELSE "claim"
        /\ x.job = j /\ x.jobs = jobs \ {j}
    OBVIOUS
  <2>2. worker' = [worker EXCEPT ![w] = x]
    BY <1>2
  <2> HIDE DEF x
  <2>3. JobsTrue(x, rs)
    BY <2>1 DEF JobsTrue
  <2> QED
    BY <2>2, <2>3
<1> QED
  BY <1>1, <1>2 DEF TakeUp

(* One lemma per action.                                                   *)

LEMMA TakeUpCarried ==
    ASSUME IInv, Carried, NEW w \in Worker, NEW jobs, NEW known,
           TakeUp(w, jobs, known), rows' = rows, crashes' = crashes,
           worker[w].pc = "enqueue" =>
               HasRow(rows, worker[w].job.event, worker[w].job.endpoint,
                      worker[w].job.attempt),
           \A j \in jobs : j.row # NoRow => JobTrue(j, rows)
    PROVE  Carried'
<1>1. PICK x : worker' = [worker EXCEPT ![w] = x] /\ JobsTrue(x, rows)
  BY TakenUpTrue
<1>2. Extends(rows', rows) /\ Len(rows') = Len(rows)
  BY UnwrittenRows, SameRowsExtend DEF IInv
<1> QED
  BY <1>1, <1>2, MovedCarried

LEMMA StartCarried ==
    ASSUME IInv, Carried, NEW w \in Worker, Start(w)
    PROVE  Carried'
<1>1. CASE ProcessDue(w)
  <2>1. PICK batch \in SUBSET {i \in DOMAIN rows : IsDue(rows[i])} :
          TakeUp(w, {[row |-> i, retry |-> rows[i].status = "retrying",
                      event |-> rows[i].event, endpoint |-> rows[i].endpoint,
                      attempt |-> rows[i].attempt] : i \in batch},
                 {e \in Endpoint : Usable(e)})
    BY <1>1 DEF ProcessDue
  <2>2. \A j \in {[row |-> i, retry |-> rows[i].status = "retrying",
                   event |-> rows[i].event, endpoint |-> rows[i].endpoint,
                   attempt |-> rows[i].attempt] : i \in batch} : JobTrue(j, rows)
    BY DEF JobTrue, RowIs
  <2>3. worker[w].pc = "idle" /\ rows' = rows /\ crashes' = crashes
    BY <1>1 DEF ProcessDue
  <2> QED
    BY <2>1, <2>2, <2>3, TakeUpCarried
<1>2. ASSUME NEW v \in Event, Emit(w, v) PROVE Carried'
  <2>1. \A j \in {NewAttempt(v, e, 1) : e \in Subscribers} : j.row = NoRow
    BY DEF NewAttempt
  <2>2. /\ TakeUp(w, {NewAttempt(v, e, 1) : e \in Subscribers}, {})
        /\ worker[w].pc = "idle" /\ rows' = rows /\ crashes' = crashes
    BY <1>2 DEF Emit
  <2> QED
    BY <2>1, <2>2, TakeUpCarried
<1>3. ASSUME NEW v \in Event, NEW e \in Endpoint, SendTest(w, v, e) PROVE Carried'
  <2>1. \A j \in {NewAttempt(v, e, 1)} : j.row = NoRow
    BY DEF NewAttempt
  <2>2. /\ TakeUp(w, {NewAttempt(v, e, 1)}, {})
        /\ worker[w].pc = "idle" /\ rows' = rows /\ crashes' = crashes
    BY <1>3 DEF SendTest
  <2> QED
    BY <2>1, <2>2, TakeUpCarried
<1> QED
  BY <1>1, <1>2, <1>3 DEF Start

LEMMA CrashCarried ==
    ASSUME IInv, Carried, NEW w \in Worker, Crash(w)
    PROVE  Carried'
<1>1. JobsTrue(Idle, rows) /\ rows' = rows
  BY DEF JobsTrue, Idle, Crash
<1>3. Extends(rows', rows) /\ Len(rows') = Len(rows)
  BY <1>1, UnwrittenRows, SameRowsExtend DEF IInv
<1>2. crashes' # 0
  BY OutboxAssumption DEF IInv, Crash
<1> QED
  BY <1>1, <1>2, <1>3, MovedCarried DEF Crash

LEMMA FindCarried ==
    ASSUME IInv, Carried, NEW w \in Worker, Find(w)
    PROVE  Carried'
<1>1. worker[w].pc = "find" /\ rows' = rows /\ crashes' = crashes
  BY DEF Find
<1>2. CASE NextJob(w)
  <2>1. \A j \in worker[w].jobs : j.row # NoRow => JobTrue(j, rows)
    BY DEF Carried, AllTrue, JobsTrue
  <2> QED
    BY <1>1, <1>2, <2>1, TakeUpCarried DEF NextJob
<1>3. CASE worker' = [worker EXCEPT ![w] = Idle]
  <2>1. JobsTrue(Idle, rows)
    BY DEF JobsTrue, Idle
  <2>2. Extends(rows', rows) /\ Len(rows') = Len(rows)
    BY <1>1, UnwrittenRows, SameRowsExtend DEF IInv
  <2> QED
    BY <1>1, <1>3, <2>1, <2>2, MovedCarried
<1> QED
  BY <1>2, <1>3 DEF Find

(* A worker that goes to another step with the same job.                   *)
LEMMA MovedPc ==
    ASSUME IInv, Carried, NEW w \in Worker, NEW pc, GoTo(w, pc)
    PROVE  \E x : /\ worker' = [worker EXCEPT ![w] = x]
                  /\ x.pc = pc /\ x.job = worker[w].job /\ x.jobs = worker[w].jobs
<1> DEFINE x == [worker[w] EXCEPT !.pc = pc]
<1>1. worker \in [Worker -> WorkerRecord] /\ worker[w] \in WorkerRecord
  BY DEF IInv, WorkersOK
<1>2. x.pc = pc /\ x.job = worker[w].job /\ x.jobs = worker[w].jobs
  BY <1>1 DEF WorkerRecord
<1>3. worker' = [worker EXCEPT ![w] = x]
  BY <1>1 DEF GoTo
<1> HIDE DEF x
<1> QED
  BY <1>2, <1>3

LEMMA LoadCarried ==
    ASSUME IInv, Carried, NEW w \in Worker, Load(w)
    PROVE  Carried'
<1>1. /\ worker[w].pc = "load" /\ rows' = rows /\ crashes' = crashes
      /\ \E pc \in {"giveup", "send", "consume"} : GoTo(w, pc)
  BY DEF Load
<1>2. PICK pc \in {"giveup", "send", "consume"} : GoTo(w, pc)
  BY <1>1
<1>3. PICK x : /\ worker' = [worker EXCEPT ![w] = x]
               /\ x.pc = pc /\ x.job = worker[w].job /\ x.jobs = worker[w].jobs
  BY <1>2, MovedPc
<1>4. JobsTrue(x, rows)
  BY <1>1, <1>3 DEF Carried, AllTrue, JobsTrue
<1>5. Extends(rows', rows) /\ Len(rows') = Len(rows)
  BY <1>1, UnwrittenRows, SameRowsExtend DEF IInv
<1> QED
  BY <1>1, <1>3, <1>4, <1>5, MovedCarried

(* What a worker makes of its row is no consumed one, but at "consume".    *)
LEMMA FinalizeConsumes ==
    ASSUME IInv, NEW d \in 1 .. Len(rows), NEW w \in Worker,
           NEW status \in {"retrying", "success", "failed"},
           NEW nextRetry \in Nat \cup {NoRetry},
           nextRetry # NoRetry => status = "retrying",
           rows' = Finalize(d, w, status, nextRetry)
    PROVE  /\ Extends(rows', rows) /\ Len(rows') = Len(rows)
           /\ \A i \in 1 .. Len(rows) : Consumed(rows'[i]) =>
                  \/ Consumed(rows[i])
                  \/ i = d /\ status = "retrying" /\ nextRetry = NoRetry
<1> DEFINE r == Released(rows[d], status, nextRetry)
<1>0. rows \in Seq(GoodRow) /\ rows[d] \in GoodRow /\ RowsOK
  BY ElementOfSeq DEF RowsOK, IInv
<1>1. CASE rows[d].status # "pruned" /\ rows[d].leaseOwner = w
  <2>1. r \in GoodRow
    BY <1>0, ReleasedGood
  <2>2. /\ r.event = rows[d].event /\ r.endpoint = rows[d].endpoint
        /\ r.attempt = rows[d].attempt
        /\ r.status = status /\ r.nextRetry = nextRetry
    BY <1>0 DEF Released, GoodRow, Row
  <2>3. rows' = [rows EXCEPT ![d] = r]
    BY <1>1 DEF Finalize
  <2> HIDE DEF r
  <2>4. /\ SameRows(rows') /\ rows'[d] = r
        /\ \A i \in 1 .. Len(rows) : i # d => rows'[i] = rows[i]
    BY <1>0, <1>1, <2>1, <2>2, <2>3, ReplacedRow
  <2> QED
    BY <2>2, <2>4, SameRowsExtend DEF Consumed
<1>2. CASE ~(rows[d].status # "pruned" /\ rows[d].leaseOwner = w)
  <2>1. rows' = rows
    BY <1>2 DEF Finalize
  <2> QED
    BY <1>0, <2>1, UnwrittenRows, SameRowsExtend
<1> QED
  BY <1>1, <1>2

(* The row is finalized without being consumed, and the next job taken.    *)
LEMMA DoneCarried ==
    ASSUME IInv, Carried, NEW w \in Worker, worker[w].pc \in {"giveup", "send"},
           NextJob(w), crashes' = crashes,
           NEW status \in {"retrying", "success", "failed"},
           NEW nextRetry \in Nat \cup {NoRetry},
           nextRetry # NoRetry <=> status = "retrying",
           rows' = Finalize(worker[w].job.row, w, status, nextRetry)
    PROVE  Carried'
<1>1. /\ worker[w].job.row \in 1 .. Len(rows)
      /\ WorkerOK(worker[w], Len(rows), emitted)
  BY DEF IInv, WorkersOK, WorkerOK
<1>2. /\ Extends(rows', rows) /\ Len(rows') = Len(rows)
      /\ \A i \in 1 .. Len(rows) : Consumed(rows'[i]) => Consumed(rows[i])
  BY <1>1, FinalizeConsumes
<1>3. JobsTrue(worker[w], rows')
  BY <1>1, <1>2, JobsKept DEF Carried, AllTrue
<1>4. \A j \in worker[w].jobs : j.row # NoRow => JobTrue(j, rows')
  BY <1>3 DEF JobsTrue
<1>5. PICK x : worker' = [worker EXCEPT ![w] = x] /\ JobsTrue(x, rows')
  BY <1>4, TakenUpTrue DEF NextJob
<1> QED
  BY <1>2, <1>5, MovedCarried

LEMMA GiveUpCarried ==
    ASSUME IInv, Carried, NEW w \in Worker, GiveUp(w)
    PROVE  Carried'
  BY DoneCarried DEF GiveUp, NoRetry

LEMMA SendCarried ==
    ASSUME IInv, Carried, NEW w \in Worker, Send(w)
    PROVE  Carried'
<1> DEFINE j == worker[w].job
           after == RetryAfter(j.attempt)
<1>1. worker[w].pc = "send" /\ NextJob(w) /\ crashes' = crashes
  BY DEF Send
<1>2. j \in Job
  BY <1>1 DEF IInv, WorkersOK, WorkerOK
<1>3. after \in Nat \cup {NoRetry}
  BY <1>2, OutboxAssumption DEF RetryAfter, Job, NoRetry
<1>4. CASE rows' = Finalize(j.row, w, "success", NoRetry)
  BY <1>1, <1>4, DoneCarried
<1>5. CASE rows' = Finalize(j.row, w, "failed", NoRetry)
  BY <1>1, <1>5, DoneCarried
<1>6. CASE rows' = Finalize(j.row, w, IF after = NoRetry THEN "failed" ELSE "retrying",
                            after)
  <2> DEFINE status == IF after = NoRetry THEN "failed" ELSE "retrying"
  <2>1. status \in {"retrying", "success", "failed"}
        /\ (after # NoRetry <=> status = "retrying")
    OBVIOUS
  <2>2. rows' = Finalize(j.row, w, status, after)
    BY <1>6
  <2> HIDE DEF after, status
  <2> QED
    BY <1>1, <1>3, <2>1, <2>2, DoneCarried
<1> QED
  BY <1>4, <1>5, <1>6 DEF Send

LEMMA ConsumeCarried ==
    ASSUME IInv, Carried, NEW w \in Worker, Consume(w)
    PROVE  Carried'
<1> DEFINE j == worker[w].job
           next == NewAttempt(j.event, j.endpoint, j.attempt + 1)
           x == [worker[w] EXCEPT !.pc = "enqueue", !.job = next]
<1>1. /\ worker[w].pc = "consume" /\ crashes' = crashes
      /\ rows' = Finalize(j.row, w, "retrying", NoRetry)
      /\ worker \in [Worker -> WorkerRecord] /\ worker[w] \in WorkerRecord
      /\ WorkerOK(worker[w], Len(rows), emitted)
  BY DEF Consume, IInv, WorkersOK
<1>2. j.row \in 1 .. Len(rows)
  BY <1>1 DEF WorkerOK
<1>3. /\ Extends(rows', rows) /\ Len(rows') = Len(rows)
      /\ \A i \in 1 .. Len(rows) :
            Consumed(rows'[i]) => Consumed(rows[i]) \/ i = j.row
  BY <1>1, <1>2, FinalizeConsumes
<1>4. /\ x.pc = "enqueue" /\ x.job = next /\ x.jobs = worker[w].jobs
  BY <1>1 DEF WorkerRecord
<1>5. worker' = [worker EXCEPT ![w] = x]
  BY <1>1 DEF Consume
<1>6. RowIs(rows[j.row], j.event, j.endpoint, j.attempt)
  BY <1>1 DEF Carried, AllTrue, JobsTrue, JobTrue
<1>7. next.event = j.event /\ next.endpoint = j.endpoint /\ next.attempt = j.attempt + 1
  BY DEF NewAttempt
<1> HIDE DEF x, next
<1>8. j.attempt + 1 # 1
  BY <1>1, OutboxAssumption DEF WorkerOK, Job
<1>9. JobsTrue(worker[w], rows')
  BY <1>1, <1>3, JobsKept DEF Carried, AllTrue
<1>10. JobsTrue(x, rows')
  BY <1>4, <1>9 DEF JobsTrue
<1>11. Writing(x, rows[j.row].event, rows[j.row].endpoint, rows[j.row].attempt + 1)
  BY <1>4, <1>6, <1>7, <1>8 DEF Writing, RowIs
<1> QED
  BY <1>1, <1>3, <1>5, <1>10, <1>11, MovedCarried

LEMMA SameLength ==
    ASSUME NEW S, NEW s \in Seq(S), NEW t \in Seq(S), DOMAIN s = DOMAIN t
    PROVE  Len(s) = Len(t) /\ Len(s) \in Nat
<1> DEFINE m == Len(s)
           n == Len(t)
<1>1. m \in Nat /\ n \in Nat /\ 1 .. m = 1 .. n
  BY LenProperties
<1> HIDE DEF m, n
<1>2. m = n
  <2>1. m \in 1 .. n \/ m = 0
    BY <1>1
  <2>2. n \in 1 .. m \/ n = 0
    BY <1>1
  <2> QED
    BY <1>1, <2>1, <2>2
<1> QED
  BY <1>1, <1>2 DEF m, n

LEMMA ClaimCarried ==
    ASSUME IInv, Carried, NEW w \in Worker, Claim(w)
    PROVE  Carried'
<1> DEFINE d == worker[w].job.row
           r == Claimed(rows[d], w)
<1>1. /\ worker[w].pc = "claim" /\ crashes' = crashes
      /\ RowsOK /\ rows \in Seq(GoodRow) /\ WorkerOK(worker[w], Len(rows), emitted)
  BY DEF Claim, IInv, WorkersOK, RowsOK
<1>2. rows' \in Seq(GoodRow)
  BY ClaimOK DEF IInv, RowsOK
<1>3. CASE rows' = [rows EXCEPT ![d] = r] /\ GoTo(w, "load")
  <2>1. DOMAIN rows = 1 .. Len(rows) /\ Len(rows') = Len(rows) /\ Len(rows) \in Nat
    <3>1. DOMAIN rows' = DOMAIN rows
      BY <1>3
    <3> QED
      BY <1>1, <1>2, <3>1, SameLength, LenProperties
  <2>2. ASSUME NEW i \in 1 .. Len(rows)
        PROVE  /\ RowIs(rows'[i], rows[i].event, rows[i].endpoint, rows[i].attempt)
               /\ Consumed(rows'[i]) => Consumed(rows[i])
    <3>1. rows'[i] = IF i = d THEN r ELSE rows[i]
      BY <1>3, <2>1
    <3>2. rows[i] \in Row
      BY <1>1, RowIndex
    <3> QED
      BY <3>1, <3>2 DEF Claimed, Row, RowIs, Consumed
  <2>3. Extends(rows', rows)
    BY <2>1, <2>2 DEF Extends
  <2>4. PICK x : /\ worker' = [worker EXCEPT ![w] = x]
                 /\ x.pc = "load" /\ x.job = worker[w].job /\ x.jobs = worker[w].jobs
    BY <1>3, MovedPc
  <2>5. JobsTrue(worker[w], rows')
    BY <1>1, <2>3, JobsKept DEF Carried, AllTrue
  <2>6. JobsTrue(x, rows')
    BY <1>1, <2>4, <2>5 DEF JobsTrue
  <2> QED
    BY <1>1, <2>1, <2>2, <2>3, <2>4, <2>6, MovedCarried
<1>4. CASE NextJob(w) /\ rows' = rows
  <2>1. \A j \in worker[w].jobs : j.row # NoRow => JobTrue(j, rows)
    BY DEF Carried, AllTrue, JobsTrue
  <2> QED
    BY <1>1, <1>4, <2>1, TakeUpCarried DEF NextJob
<1> QED
  BY <1>3, <1>4 DEF Claim

LEMMA TickCarried ==
    ASSUME IInv, Carried, Tick
    PROVE  Carried'
<1>1. RowsOK /\ rows \in Seq(GoodRow) /\ rows' \in Seq(GoodRow)
  BY TickOK DEF IInv, RowsOK
<1>2. DOMAIN rows' = DOMAIN rows
  BY DEF Tick
<1>3. DOMAIN rows = 1 .. Len(rows) /\ Len(rows') = Len(rows) /\ Len(rows) \in Nat
  BY <1>1, <1>2, SameLength, LenProperties
<1>4. ASSUME NEW i \in 1 .. Len(rows)
      PROVE  /\ RowIs(rows'[i], rows[i].event, rows[i].endpoint, rows[i].attempt)
             /\ Consumed(rows'[i]) => Consumed(rows[i])
  <2> DEFINE r == rows[i]
  <2>1. rows'[i] = [r EXCEPT !.nextRetry = Less(r.nextRetry), !.lease = Less(r.lease),
                             !.age = IF r.age < MaxAge THEN r.age + 1 ELSE MaxAge]
    BY <1>3 DEF Tick
  <2>2. r \in Row
    BY <1>1, RowIndex
  <2> HIDE DEF r
  <2>3. /\ rows'[i].event = r.event /\ rows'[i].endpoint = r.endpoint
        /\ rows'[i].attempt = r.attempt /\ rows'[i].status = r.status
        /\ rows'[i].nextRetry = Less(r.nextRetry)
    BY <2>1, <2>2 DEF Row
  <2>4. Less(r.nextRetry) = NoRetry => r.nextRetry = NoRetry
    BY <2>2 DEF Row, Less, NoRetry
  <2> QED
    BY <2>3, <2>4 DEF RowIs, Consumed, r
<1>5. Extends(rows', rows)
  BY <1>3, <1>4 DEF Extends
<1>6. \A i \in 1 .. Len(rows') : Consumed(rows'[i]) => i <= Len(rows) /\ Consumed(rows[i])
  BY <1>3, <1>4
<1> QED
  BY <1>5, <1>6, UnmovedCarried DEF Tick

LEMMA EndpointsCarried ==
    ASSUME IInv, Carried, UNCHANGED <<rows, worker, crashes>>
    PROVE  Carried'
  BY DEF Carried

(* The rows of a settlement are pending.                                   *)
LEMMA SettleCarried ==
    ASSUME IInv, Carried, NEW v \in Event, Settle(v)
    PROVE  Carried'
<1> DEFINE N == Cardinality(Subscribers)
<1>1. PICK order \in Bijection(1 .. N, Subscribers) :
        rows' = rows \o [i \in 1 .. N |-> NewRow(v, order[i], 1)]
  BY DEF Settle
<1>2. N \in Nat
  <2>1. IsFiniteSet(Subscribers)
    BY FS_Subset, OutboxAssumption DEF Subscribers
  <2> QED
    BY <2>1, FS_CardinalityType DEF Subscribers
<1> HIDE DEF N
<1> DEFINE new == [i \in 1 .. N |-> NewRow(v, order[i], 1)]
           News == {NewRow(v, order[i], 1) : i \in 1 .. N}
<1>3. new \in Seq(GoodRow \cup News) /\ Len(new) = N
  <2>1. new \in [1 .. N -> GoodRow \cup News]
    OBVIOUS
  <2> HIDE DEF new, News
  <2> QED
    BY <1>2, <2>1, SeqDef, LenProperties
<1>4. \A i \in 1 .. N : ~Consumed(new[i])
  BY DEF Consumed, NewRow
<1>5. rows' = rows \o new
  BY <1>1
<1> HIDE DEF new
<1>6. rows \in Seq(GoodRow \cup News) /\ Len(rows) \in Nat
  <2> HIDE DEF News
  <2> QED
    BY SeqMonotonic, RowIndex DEF IInv, RowsOK
<1> HIDE DEF News
<1>7. /\ Len(rows') = Len(rows) + N
      /\ \A i \in 1 .. Len(rows) + N :
             rows'[i] = IF i <= Len(rows) THEN rows[i] ELSE new[i - Len(rows)]
  BY <1>3, <1>5, <1>6, ConcatProperties
<1>8. Extends(rows', rows)
  BY <1>2, <1>6, <1>7 DEF Extends, RowIs
<1>9. ASSUME NEW i \in 1 .. Len(rows'), Consumed(rows'[i])
      PROVE  i <= Len(rows) /\ Consumed(rows[i])
  <2>1. CASE i > Len(rows)
    <3>1. i - Len(rows) \in 1 .. N /\ rows'[i] = new[i - Len(rows)]
      BY <1>2, <1>6, <1>7, <2>1
    <3> QED
      BY <1>4, <1>9, <3>1
  <2> QED
    BY <1>2, <1>6, <1>7, <1>9, <2>1
<1> QED
  BY <1>8, <1>9, UnmovedCarried DEF Settle

(* What a worker writes follows what it consumed.                          *)
LEMMA EnqueueCarried ==
    ASSUME IInv, Carried, NEW w \in Worker, Enqueue(w)
    PROVE  Carried'
<1> DEFINE j == worker[w].job
           new == NewRow(j.event, j.endpoint, j.attempt)
           added == Append(rows, new)
<1>1. worker[w].pc = "enqueue" /\ crashes' = crashes
  BY DEF Enqueue
<1>2. /\ RowsOK /\ worker \in [Worker -> WorkerRecord] /\ worker[w] \in WorkerRecord
      /\ \A u \in Worker : WorkerOK(worker[u], Len(rows), emitted)
      /\ rows \in Seq(GoodRow) /\ Len(rows) \in Nat /\ DOMAIN rows = 1 .. Len(rows)
  BY RowIndex DEF IInv, WorkersOK, RowsOK
<1>3. /\ j \in Job /\ j.event \in Event /\ j.endpoint \in Endpoint
      /\ j.attempt \in 1 .. MaxAttempts
  BY <1>1, <1>2 DEF WorkerOK, Job
<1>4. CASE HasDelivery(j.event, j.endpoint, j.attempt) /\ GoTo(w, "find") /\ rows' = rows
  <2>1. PICK x : /\ worker' = [worker EXCEPT ![w] = x]
                 /\ x.pc = "find" /\ x.job = worker[w].job /\ x.jobs = worker[w].jobs
    BY <1>4, MovedPc
  <2>2. JobsTrue(x, rows)
    BY <1>1, <2>1 DEF Carried, AllTrue, JobsTrue
  <2>3. Extends(rows', rows) /\ Len(rows') = Len(rows)
    BY <1>2, <1>4, UnwrittenRows, SameRowsExtend
  <2>4. j.attempt # 1 => HasRow(rows, j.event, j.endpoint, j.attempt)
    BY <1>2, <1>4 DEF HasDelivery, HasRow, RowIs
  <2> QED
    BY <1>1, <1>4, <2>1, <2>2, <2>3, <2>4, MovedCarried
<1>5. ASSUME NEW gone \in Surplus(added, j.endpoint), rows' = Without(added, gone),
             worker' = [worker EXCEPT ![w].pc = "claim", ![w].job.row = Len(rows) + 1]
      PROVE  Carried'
  <2> DEFINE job == [j EXCEPT !.row = Len(rows) + 1]
             x == [worker[w] EXCEPT !.pc = "claim", !.job = job]
             n == Len(rows) + 1
  <2>1. /\ new \in GoodRow /\ ~Consumed(new)
        /\ RowIs(new, j.event, j.endpoint, j.attempt)
    BY <1>3, NewRowGood DEF RowIs, Consumed, NewRow
  <2> HIDE DEF new
  <2>2. /\ added \in Seq(GoodRow) /\ Len(added) = n /\ added[n] = new
        /\ \A i \in 1 .. Len(rows) : added[i] = rows[i]
    BY <1>2, <2>1
  <2> HIDE DEF added
  <2>3. gone \in SUBSET DOMAIN added
    BY <1>5 DEF Surplus
  <2>4. /\ rows' \in Seq(GoodRow) /\ Len(rows') = n
        /\ \A i \in 1 .. n :
              /\ rows'[i].event = added[i].event /\ rows'[i].endpoint = added[i].endpoint
              /\ rows'[i].attempt = added[i].attempt
              /\ rows'[i] = added[i] \/ rows'[i].status = "pruned"
    BY <1>5, <2>2, <2>3, WithoutOK
  <2>5. Extends(rows', rows)
    BY <1>2, <2>2, <2>4 DEF Extends, RowIs
  <2>6. n \in 1 .. n /\ RowIs(rows'[n], j.event, j.endpoint, j.attempt)
    BY <1>2, <2>1, <2>2, <2>4 DEF RowIs
  <2>7. HasRow(rows', j.event, j.endpoint, j.attempt)
    BY <2>4, <2>6 DEF HasRow
  <2>8. /\ job.row = n /\ job.event = j.event /\ job.endpoint = j.endpoint
        /\ job.attempt = j.attempt
    BY <1>3 DEF Job
  <2>9. worker' = [worker EXCEPT ![w] = x]
    BY <1>2, <1>3, <1>5 DEF WorkerRecord, Job
  <2> HIDE DEF job
  <2>10. x.pc = "claim" /\ x.job = job /\ x.jobs = worker[w].jobs
    BY <1>2 DEF WorkerRecord
  <2> HIDE DEF x, n
  <2>11. JobsTrue(x, rows')
    <3>1. JobsTrue(worker[w], rows')
      BY <1>2, <2>5, JobsKept DEF Carried, AllTrue
    <3>2. JobTrue(x.job, rows')
      BY <2>6, <2>8, <2>10 DEF JobTrue
    <3> QED
      BY <2>10, <3>1, <3>2 DEF JobsTrue
  <2>12. worker'[w] = x /\ \A u \in Worker \ {w} : worker'[u] = worker[u]
    BY <1>2, <2>9
  <2>13. AllTrue(rows', worker')
    <3>1. ASSUME NEW u \in Worker, u # w PROVE JobsTrue(worker'[u], rows')
      <4>1. worker'[u] = worker[u] /\ JobsTrue(worker[u], rows)
        BY <2>12, <3>1 DEF Carried, AllTrue
      <4>2. JobsTrue(worker[u], rows')
        BY <1>2, <2>5, <4>1, JobsKept
      <4> QED
        BY <4>1, <4>2
    <3> QED
      BY <2>11, <2>12, <3>1 DEF AllTrue
  <2>14. ASSUME NEW i \in 1 .. Len(rows'), Consumed(rows'[i])
         PROVE  i <= Len(rows) /\ Consumed(rows[i])
    <3>1. rows'[i] = added[i]
      BY <2>4, <2>14 DEF Consumed
    <3>2. i # n
      BY <2>1, <2>2, <2>14, <3>1
    <3>3. i \in 1 .. Len(rows)
      BY <1>2, <2>4, <3>2 DEF n
    <3> QED
      BY <1>2, <2>2, <2>14, <3>1, <3>3
  <2>15. ASSUME NEW u \in Worker, NEW v, NEW e, NEW m, Writing(worker[u], v, e, m)
         PROVE  Writing(worker'[u], v, e, m) \/ HasRow(rows', v, e, m)
    <3>1. CASE u = w
      <4>1. v = j.event /\ e = j.endpoint /\ m = j.attempt
        BY <2>15, <3>1 DEF Writing, RowIs
      <4> QED
        BY <2>7, <4>1
    <3>2. CASE u # w
      BY <2>12, <2>15, <3>2
    <3> QED
      BY <3>1, <3>2
  <2>16. Carries
    BY <2>5, <2>14, <2>15 DEF Carries
  <2> QED
    BY <1>1, <2>13, <2>16, StillCarried DEF Carried
<1> QED
  BY <1>4, <1>5 DEF Enqueue

LEMMA CarriedStep ==
    ASSUME IInv, Carried, [Next]_vars
    PROVE  Carried'
<1>1. ASSUME NEW w \in Worker, WorkerStep(w)
      PROVE  Carried'
  BY <1>1, EnqueueCarried, FindCarried, ClaimCarried, LoadCarried, GiveUpCarried,
     ConsumeCarried, SendCarried DEF WorkerStep
<1>2. ASSUME NEW e \in Endpoint,
             CreateEndpoint(e) \/ UpdateEndpoint(e) \/ DeleteEndpoint(e)
      PROVE  Carried'
  BY <1>2, EndpointsCarried DEF CreateEndpoint, UpdateEndpoint, DeleteEndpoint
<1>3. CASE UNCHANGED vars
  BY <1>3, EndpointsCarried DEF vars
<1> QED
  BY <1>1, <1>2, <1>3, StartCarried, CrashCarried, SettleCarried, TickCarried DEF Next

(* As long as no pass is cut short, no delivery is left with a consumed    *)
(* retry that nobody carries on (the retry branch of                       *)
(* processDueWebhookDeliveries, which consumes a slot and then enqueues),  *)
(* whatever workers race for it, lose their leases or prune: whatever is   *)
(* in the outbox is open, in hand, or at its end.  It is the safety part   *)
(* of EveryDeliverySettles.                                                *)
THEOREM OutboxNoneStranded ==
    Spec => [](crashes = 0 => \A v \in Event, e \in Endpoint : ~Stranded(v, e))
<1>1. Init => Carried
  <2> SUFFICES ASSUME Init PROVE Carried
    OBVIOUS
  <2>1. Len(rows) = 0 /\ \A w \in Worker : worker[w] = Idle
    BY DEF Init
  <2>2. JobsTrue(Idle, rows)
    BY DEF JobsTrue, Idle
  <2> QED
    BY <2>1, <2>2 DEF Carried, AllTrue, CarriedIn
<1>2. IInv /\ Carried /\ [Next]_vars => Carried'
  BY CarriedStep
<1>3. IInv /\ Carried => (crashes = 0 => \A v \in Event, e \in Endpoint : ~Stranded(v, e))
  <2> SUFFICES ASSUME IInv, Carried, crashes = 0, NEW v \in Event, NEW e \in Endpoint,
                      Stranded(v, e)
               PROVE  FALSE
    OBVIOUS
  <2>1. PICK i \in RowsOf(v, e) :
          /\ Consumed(rows[i])
          /\ \A k \in RowsOf(v, e) : rows[k].attempt <= rows[i].attempt
          /\ \A w \in Worker : worker[w].job # NoJob =>
                 <<worker[w].job.event, worker[w].job.endpoint, worker[w].pc>>
                   # <<v, e, "enqueue">>
    BY DEF Stranded, Consumed
  <2>2. /\ DOMAIN rows = 1 .. Len(rows) /\ i \in 1 .. Len(rows)
        /\ rows[i].event = v /\ rows[i].endpoint = e
        /\ rows[i].attempt \in Nat
        /\ \A k \in 1 .. Len(rows) : rows[k].attempt \in Nat
    BY RowIndex, OutboxAssumption DEF IInv, RowsOf, Row
  <2>3. Followed(rows[i], rows, worker)
    BY <2>1, <2>2 DEF Carried, CarriedIn
  <2>4. CASE HasRow(rows, v, e, rows[i].attempt + 1)
    <3>1. PICK k \in 1 .. Len(rows) : RowIs(rows[k], v, e, rows[i].attempt + 1)
      BY <2>4 DEF HasRow
    <3>2. k \in RowsOf(v, e) /\ rows[k].attempt = rows[i].attempt + 1
      BY <2>2, <3>1 DEF RowIs, RowsOf
    <3> QED
      BY <2>1, <2>2, <3>2
  <2>5. ASSUME NEW w \in Worker, Writing(worker[w], v, e, rows[i].attempt + 1)
        PROVE  FALSE
    <3>1. worker[w].pc = "enqueue" /\ worker[w].job \in Job
      BY <2>5 DEF Writing, IInv, WorkersOK, WorkerOK
    <3>2. worker[w].job # NoJob
      BY <3>1, OutboxAssumption
    <3> QED
      BY <2>1, <2>5, <3>1, <3>2 DEF Writing, RowIs
  <2> QED
    BY <2>2, <2>3, <2>4, <2>5 DEF Followed
<1> QED
  BY <1>1, <1>2, <1>3, OutboxInvariant, PTL DEF Spec

=============================================================================
