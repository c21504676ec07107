---------------------------- MODULE RequestLimits ----------------------------
(***************************************************************************)
(* The rate limits of the public routes: the limiter in the memory of each *)
(* server process (src/src/lib/publicRateLimit.ts), and behind it the      *)
(* counters that the processes share in Redis                              *)
(* (src/src/lib/distributedRateLimit.ts).                                  *)
(*                                                                         *)
(* One route class is modelled, and clients are the identities it counts.  *)
(* Redis may answer late, lose its answer, be out of reach, or carry a     *)
(* command out after its caller gave up; processes restart with empty      *)
(* memories.                                                               *)
(***************************************************************************)
EXTENDS FixedWindow, FiniteSets, Totals

CONSTANTS
    Server,      \* processes that serve the route
    Client,      \* identities: an address, a merchant
    Request,     \* requests served at the same time
    None,        \* no counter in Redis
    PerKey,      \* rule.perKey
    Global,      \* rule.global
    SweepEvery,  \* calls between two sweeps: 256
    Grace,       \* RATE_LIMIT_TTL_GRACE_SECONDS
    MaxDelay,    \* RATE_LIMIT_REDIS_TIMEOUT_MS in ticks, rounded up
    MaxTime      \* bound: last tick of the clock

LimitsAssumption ==
    /\ {PerKey, Global, SweepEvery} \subseteq Nat \ {0}
    /\ {Grace, MaxDelay, MaxTime} \subseteq Nat
    /\ IsFiniteSet(Client)
    /\ None \notin [count : Nat, until : Nat]

VARIABLES
    now,
    byKey,    \* buckets of a process, per client
    global,   \* bucket of a process for the whole route class
    calls,    \* calls of allow since the last sweep
    counter,  \* the keys of Redis, by client and window index
    request,  \* what each request is doing
    local,    \* history: passes of a process's limiter, by client and time
    shared    \* history: passes of the shared one, by client and index

limiter == <<byKey, global, calls>>
vars == <<now, limiter, counter, request, local, shared>>

Time == 0 .. MaxTime
Index == 0 .. MaxTime \div Window

Idle == [pc |-> "idle"]

Local ==
    {Idle} \cup [pc : {"send"}, client : Client]
    \cup [pc : {"wire"}, client : Client, index : Index, at : Time]
    \cup [pc : {"late"}, client : Client, index : Index]

Counters == [count : 1 .. PerKey + 1, until : Nat]

Put(r, l) == request' = [request EXCEPT ![r] = l]

-----------------------------------------------------------------------------
(* FixedWindowLimiter.allow, which runs without an await.                  *)

(* live deletes the bucket it looks at when that is over.                  *)
LiveBucket(bucket) == IF InBucket(bucket, now) THEN bucket ELSE NoBucket

(* sweep, on every SweepEvery-th call.                                     *)
Swept(s) ==
    IF calls[s] + 1 = SweepEvery
    THEN [c \in Client |-> LiveBucket(byKey[s][c])] ELSE byKey[s]

Called(s) ==
    calls' = [calls EXCEPT ![s] = (calls[s] + 1) % SweepEvery]

LocalAllow(r, s, c) ==
    /\ request[r].pc = "idle"
    /\ Called(s)
    /\ Admits(byKey[s][c], now, PerKey)
    /\ Admits(global[s], now, Global)
    /\ byKey' = [byKey EXCEPT ![s] = [Swept(s) EXCEPT ![c] =
                     Counted(byKey[s][c], now)]]
    /\ global' = [global EXCEPT ![s] = Counted(@, now)]
    /\ local' = [local EXCEPT ![s][c][now] = @ + 1]
    /\ Put(r, [pc |-> "send", client |-> c])
    /\ UNCHANGED <<now, counter, shared>>

(* A denied request is not counted, and never reaches Redis.               *)
LocalDeny(s, c) ==
    /\ ~(Admits(byKey[s][c], now, PerKey) /\ Admits(global[s], now, Global))
    /\ Called(s)
    /\ byKey' = [byKey EXCEPT ![s] = [Swept(s) EXCEPT ![c] = LiveBucket(@)]]
    /\ global' = [global EXCEPT ![s] = LiveBucket(@)]
    /\ UNCHANGED <<now, counter, request, local, shared>>

-----------------------------------------------------------------------------
(* hit: the shared counter of the client's window.                         *)

(* rateLimitKey: the window is that of the clock when the command is built.*)
Send(r) ==
    /\ request[r].pc = "send"
    /\ Put(r, [pc |-> "wire", client |-> request[r].client,
               index |-> now \div Window, at |-> now])
    /\ UNCHANGED <<now, limiter, counter, local, shared>>

Lifetime == Window + Grace

Existing(c, i) ==
    IF counter[c][i] # None /\ now < counter[c][i].until THEN counter[c][i]
    ELSE [count |-> 0, until |-> now + Lifetime]

(* RATE_LIMIT_INCR_SCRIPT: INCR, and EXPIRE when the key is new.  Counts    *)
(* over the quota are all alike, and are kept as one.                      *)
Incremented(c, i) ==
    [Existing(c, i) EXCEPT !.count = IF @ > PerKey THEN @ ELSE @ + 1]

(* The script runs and its answer arrives.                                 *)
Incr(r) ==
    /\ request[r].pc = "wire"
    /\ LET c == request[r].client
           i == request[r].index
       IN /\ counter' = [counter EXCEPT ![c][i] = Incremented(c, i)]
          /\ shared' = IF Incremented(c, i).count > PerKey THEN shared
                       ELSE [shared EXCEPT ![c][i] = @ + 1]
    /\ Put(r, Idle)
    /\ UNCHANGED <<now, limiter, local>>

(* The answer is lost, or comes after the timeout: the request goes by the *)
(* local decision.  Its command may still be carried out, whenever.        *)
Unavailable(r) ==
    /\ request[r].pc = "wire"
    /\ Put(r, [pc |-> "late", client |-> request[r].client,
               index |-> request[r].index])
    /\ UNCHANGED <<now, limiter, counter, local, shared>>

LateIncr(r) ==
    /\ request[r].pc = "late"
    /\ LET c == request[r].client
           i == request[r].index
       IN counter' = [counter EXCEPT ![c][i] = Incremented(c, i)]
    /\ Put(r, Idle)
    /\ UNCHANGED <<now, limiter, local, shared>>

Lost(r) ==
    /\ request[r].pc \in {"send", "late"}
    /\ Put(r, Idle)
    /\ UNCHANGED <<now, limiter, counter, local, shared>>

-----------------------------------------------------------------------------

(* A process starts again: its counters are gone, and so is the history    *)
(* they were to bound.                                                     *)
Restart(s) ==
    /\ byKey' = [byKey EXCEPT ![s] = [c \in Client |-> NoBucket]]
    /\ global' = [global EXCEPT ![s] = NoBucket]
    /\ calls' = [calls EXCEPT ![s] = 0]
    /\ local' = [local EXCEPT ![s] = [c \in Client |-> [t \in Time |-> 0]]]
    /\ UNCHANGED <<now, counter, request, shared>>

(* A command waits for its answer no longer than the timeout.              *)
Tick ==
    /\ now < MaxTime
    /\ \A r \in Request :
         request[r].pc = "wire" => now < request[r].at + MaxDelay
    /\ now' = now + 1
    /\ UNCHANGED <<limiter, counter, request, local, shared>>

Init ==
    /\ now = 0
    /\ byKey = [s \in Server |-> [c \in Client |-> NoBucket]]
    /\ global = [s \in Server |-> NoBucket]
    /\ calls = [s \in Server |-> 0]
    /\ counter = [c \in Client |-> [i \in Index |-> None]]
    /\ request = [r \in Request |-> Idle]
    /\ local = [s \in Server |-> [c \in Client |-> [t \in Time |-> 0]]]
    /\ shared = [c \in Client |-> [i \in Index |-> 0]]

Next ==
    \/ \E s \in Server, c \in Client :
         \/ \E r \in Request : LocalAllow(r, s, c)
         \/ LocalDeny(s, c)
    \/ \E r \in Request :
         Send(r) \/ Incr(r) \/ Unavailable(r) \/ LateIncr(r) \/ Lost(r)
    \/ \E s \in Server : Restart(s)
    \/ Tick

Spec == Init /\ [][Next]_vars

-----------------------------------------------------------------------------
(* Properties.                                                             *)

(* Types of the state.                                                     *)
TypeOK ==
    /\ now \in Time
    /\ byKey \in [Server -> [Client -> Bucket(Time, 1 .. PerKey)]]
    /\ global \in [Server -> Bucket(Time, 1 .. Global)]
    /\ calls \in [Server -> 0 .. SweepEvery - 1]
    /\ counter \in [Client -> [Index -> Counters \cup {None}]]
    /\ request \in [Request -> Local]
    /\ local \in [Server -> [Client -> [Time -> Nat]]]
    /\ shared \in [Client -> [Index -> Nat]]

(* "Multiple instances share one per-key quota": whatever processes serve  *)
(* a client, restart or give up on Redis, those of its requests of one     *)
(* window that Redis answered for are no more than the quota.  The counter *)
(* has to outlive the window by what a command may take.                   *)
SharedQuotaHolds ==
    MaxDelay <= Grace =>
        \A c \in Client, i \in Index : shared[c][i] <= PerKey

(* Without Redis a process still bounds each client: twice the quota in    *)
(* any window, as a fixed window does, whatever is swept meanwhile.        *)
Passed(s, c, t) ==
    Total(local[s][c], Time \cap (t .. t + Window - 1))

LocalQuotaHolds ==
    \A s \in Server, c \in Client, t \in Time : Passed(s, c, t) <= 2 * PerKey

(* "The number of tracked keys per window is bounded by the global limit": *)
(* since the global window opened, no more buckets of clients were opened  *)
(* than requests were admitted by it.                                      *)
TrackedKeysAreBounded ==
    \A s \in Server :
        global[s] # NoBucket =>
            Cardinality({c \in Client : /\ byKey[s][c] # NoBucket
                                       /\ byKey[s][c].start >= global[s].start})
                <= global[s].count

=============================================================================
