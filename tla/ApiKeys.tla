------------------------------- MODULE ApiKeys -------------------------------
(***************************************************************************)
(* API keys (src/src/lib/apiKeys.ts): their creation, update, rotation and *)
(* revocation by the merchant, and the authentication of requests that     *)
(* carry one.                                                              *)
(*                                                                         *)
(* The keys are those of one merchant, whose wallet signature or session   *)
(* every management request carries.  A secret is its number; the store    *)
(* keeps only its keyed hash, which tells secrets apart, and its prefix,   *)
(* which does too.  Some keys were made and revoked before: they count,    *)
(* and 0 stands for their secrets.  A handler lists the keys, decides, and *)
(* writes one row; only the creation and lastUsedAt look at the store      *)
(* again in their mutation.  Handlers interleave at every await.           *)
(***************************************************************************)
EXTENDS FixedWindow, FiniteSets, Totals

CONSTANTS
    Key,           \* ids of keys, which are random: by the order they are made in
    RouteClass,    \* route classes of the rate limit, one per kind of scope
    Handler,       \* requests served at the same time
    None,          \* no row, no expiry
    MaxActive,     \* MAX_ACTIVE_API_KEYS_PER_MERCHANT
    MaxStored,     \* MAX_STORED_API_KEYS_PER_MERCHANT
    PreAuthLimit,  \* PRE_AUTH_RATE_LIMIT_PER_MINUTE
    KeyLimit,      \* rateLimitPerMinute
    TouchInterval, \* API_KEY_LAST_USED_MIN_INTERVAL_SECONDS
    MaxDuration,   \* seconds a request may take
    MaxSecrets,    \* bound: secrets generated
    MaxTime        \* bound: the clock stops here

Time == 0 .. MaxTime
Secret == 0 .. MaxSecrets

Row == [secret : Secret, enabled : BOOLEAN, revoked : BOOLEAN,
        expiresAt : Time \cup {None}, lastUsedAt : Time \cup {None}]

KeysAssumption ==
    /\ IsFiniteSet(Key) /\ Key \subseteq Nat
    /\ {MaxActive, MaxStored, PreAuthLimit, KeyLimit} \subseteq Nat \ {0}
    /\ {TouchInterval, MaxDuration, MaxSecrets, MaxTime} \subseteq Nat
    /\ None \notin Nat \cup Row
    /\ MaxDuration <= Window

VARIABLES
    now,       \* the clock, in seconds
    keys,      \* store.apiKeys.keys
    issued,    \* secrets generated so far
    handler,   \* what each request is doing
    preAuth,   \* preAuthBuckets, by prefix
    rate,      \* rateBuckets, by key and route class
    touched,   \* lastUsedWriteAt
    passed,    \* history: passes of the key limit, by time of arrival
    undone     \* history: keys whose revocation some write took back

limits == <<preAuth, rate, touched>>
history == <<passed, undone>>
vars == <<now, keys, issued, handler, limits, history>>

Idle == [pc |-> "idle"]

Local ==
    {Idle}
    \cup [pc : {"create", "write"}, key : Key, row : Row]
    \cup [pc : {"list"}, at : Time, secret : Secret, class : RouteClass]
    \cup [pc : {"note", "touch"}, at : Time, secret : Secret, key : Key]

Stored == {k \in Key : keys[k] # None}
Active == {k \in Stored : ~keys[k].revoked}
Put(h, local) == handler' = [handler EXCEPT ![h] = local]

-----------------------------------------------------------------------------
(* The merchant's requests.  Each is two steps: list the keys, write one.  *)

Unmade(k) ==
    /\ keys[k] = None
    /\ \A h \in Handler : handler[h].pc = "create" => handler[h].key # k

(* handleCreateApiKey: the id and the secret are made before the mutation, *)
(* so that a retry of it stores the same row.                              *)
CreateApiKey(h, k, expiresAt) ==
    /\ handler[h].pc = "idle"
    /\ Unmade(k)
    /\ \A j \in Key : j < k => ~Unmade(j)
    /\ issued < MaxSecrets
    /\ expiresAt # None => expiresAt > now
    /\ issued' = issued + 1
    /\ Put(h, [pc |-> "create", key |-> k,
               row |-> [secret |-> issued', enabled |-> TRUE,
                        revoked |-> FALSE, expiresAt |-> expiresAt,
                        lastUsedAt |-> None]])
    /\ UNCHANGED <<now, keys, limits, history>>

(* handleUpdateApiKey up to its write: a revoked key is refused.           *)
UpdateApiKey(h, k, enabled) ==
    /\ handler[h].pc = "idle"
    /\ k \in Active
    /\ Put(h, [pc |-> "write", key |-> k,
               row |-> [keys[k] EXCEPT !.enabled = enabled]])
    /\ UNCHANGED <<now, keys, issued, limits, history>>

(* A key that is revoked is disabled as well.                              *)
Revoked(row) ==
    [secret |-> row.secret, enabled |-> FALSE, revoked |-> TRUE,
     expiresAt |-> row.expiresAt, lastUsedAt |-> row.lastUsedAt]

DeleteApiKey(h, k) ==
    /\ handler[h].pc = "idle"
    /\ k \in Stored
    /\ Put(h, [pc |-> "write", key |-> k, row |-> Revoked(keys[k])])
    /\ UNCHANGED <<now, keys, issued, limits, history>>

RotateApiKey(h, k) ==
    /\ handler[h].pc = "idle"
    /\ k \in Active
    /\ issued < MaxSecrets
    /\ issued' = issued + 1
    /\ Put(h, [pc |-> "write", key |-> k,
               row |-> [keys[k] EXCEPT !.secret = issued']])
    /\ UNCHANGED <<now, keys, limits, history>>

(* createKey: both caps are counted in the mutation.                       *)
CreateKey(h) ==
    /\ handler[h].pc = "create"
    /\ Cardinality(Active) < MaxActive
    /\ Cardinality(Stored) < MaxStored
    /\ keys' = [keys EXCEPT ![handler[h].key] = handler[h].row]
    /\ Put(h, Idle)
    /\ UNCHANGED <<now, issued, limits, history>>

(* upsertKey: the row is written whatever the store holds by then.         *)
UpsertKey(h) ==
    /\ handler[h].pc = "write"
    /\ LET k == handler[h].key
           row == handler[h].row
       IN /\ keys' = [keys EXCEPT ![k] = row]
          /\ undone' = IF keys[k].revoked /\ ~row.revoked THEN undone \cup {k}
                       ELSE undone
    /\ Put(h, Idle)
    /\ UNCHANGED <<now, issued, limits, passed>>

-----------------------------------------------------------------------------
(* authenticateAuthorization.                                              *)

(* Up to the listing: the clock is read and the prefix is counted.  Every  *)
(* presented secret is one made here; another one matches no row, or one   *)
(* that was revoked before.                                                *)
Present(h, secret, class) ==
    /\ handler[h].pc = "idle"
    /\ secret \in 1 .. issued
    /\ Admits(preAuth[secret], now, PreAuthLimit)
    /\ preAuth' = [preAuth EXCEPT ![secret] = Counted(@, now)]
    /\ Put(h, [pc |-> "list", at |-> now, secret |-> secret,
               class |-> class])
    /\ UNCHANGED <<now, keys, issued, rate, touched, history>>

Expired(row, time) == row.expiresAt # None /\ time >= row.expiresAt

Matches(row, secret, time) ==
    /\ row.secret = secret
    /\ row.enabled
    /\ ~row.revoked
    /\ ~Expired(row, time)

(* Mutant: only the presented prefix is limited.                           *)
Check_Unlimited(h) ==
    /\ handler[h].pc = "list"
    /\ LET me == handler[h]
       IN \E k \in Stored :
            /\ Matches(keys[k], me.secret, me.at)
            /\ passed' = [passed EXCEPT ![k][me.class][me.at] = @ + 1]
            /\ Put(h, [pc |-> "note", at |-> me.at, secret |-> me.secret,
                       key |-> k])
    /\ UNCHANGED <<now, keys, issued, limits, undone>>

(* The keys are listed; the one with the secret's hash must be usable at   *)
(* the time of arrival, and is counted in its bucket.                      *)
Check(h) ==
    /\ handler[h].pc = "list"
    /\ LET me == handler[h]
       IN \E k \in Stored :
            /\ Matches(keys[k], me.secret, me.at)
            /\ LET bucket == rate[k][me.class]
               IN /\ Admits(bucket, me.at, KeyLimit)
                  /\ rate' = [rate EXCEPT ![k][me.class] =
                                Counted(bucket, me.at)]
            /\ passed' = [passed EXCEPT ![k][me.class][me.at] = @ + 1]
            /\ Put(h, [pc |-> "note", at |-> me.at, secret |-> me.secret,
                       key |-> k])
    /\ UNCHANGED <<now, keys, issued, preAuth, touched, undone>>

(* noteLastUsed skips the write while the last one is recent.             *)
Recent(k, time) == touched[k] # None /\ time < touched[k] + TouchInterval

NoteLastUsed(h) ==
    /\ handler[h].pc = "note"
    /\ LET me == handler[h]
       IN Put(h, IF Recent(me.key, me.at) THEN Idle ELSE [me EXCEPT !.pc = "touch"])
    /\ UNCHANGED <<now, keys, issued, limits, history>>

TouchLastUsed_Listed(h) ==
    /\ handler[h].pc = "touch"
    /\ LET me == handler[h]
       IN /\ keys' = [keys EXCEPT ![me.key] =
                        [@ EXCEPT !.secret = me.secret, !.enabled = TRUE,
                                  !.revoked = FALSE, !.lastUsedAt = me.at]]
          /\ touched' = [touched EXCEPT ![me.key] = me.at]
          /\ Put(h, Idle)
    /\ UNCHANGED <<now, issued, preAuth, rate, history>>

(* touchLastUsed: the mutation changes a row only if it is still usable,  *)
(* and the answer follows: the request acts for the merchant, or is        *)
(* refused for want of a scope, by the row that was listed.                *)
TouchLastUsed(h) ==
    /\ handler[h].pc = "touch"
    /\ LET me == handler[h]
           row == keys[me.key]
       IN /\ keys' = IF row.revoked \/ ~row.enabled THEN keys
                     ELSE [keys EXCEPT ![me.key].lastUsedAt = me.at]
          /\ touched' = [touched EXCEPT ![me.key] = me.at]
          /\ Put(h, Idle)
    /\ UNCHANGED <<now, issued, preAuth, rate, history>>

(* A request ends without effect: refused at one of the checks, or by the  *)
(* shared limit, or the store fails, or the process does not finish it.    *)
Refuse(h) ==
    /\ handler[h].pc # "idle"
    /\ Put(h, Idle)
    /\ UNCHANGED <<now, keys, issued, limits, history>>

Tick ==
    /\ now < MaxTime
    /\ \A h \in Handler :
         handler[h].pc \in {"list", "note", "touch"} => now < handler[h].at + MaxDuration
    /\ now' = now + 1
    /\ UNCHANGED <<keys, issued, handler, limits, history>>

-----------------------------------------------------------------------------

RevokedBefore == [secret |-> 0, enabled |-> FALSE, revoked |-> TRUE,
                  expiresAt |-> None, lastUsedAt |-> None]

Init ==
    /\ now = 0
    /\ \E old \in SUBSET Key :
          /\ Cardinality(old) <= MaxStored
          /\ \A k \in old, j \in Key : j < k => j \in old
          /\ keys = [k \in Key |-> IF k \in old THEN RevokedBefore ELSE None]
    /\ issued = 0
    /\ handler = [h \in Handler |-> Idle]
    /\ preAuth = [s \in Secret |-> NoBucket]
    /\ rate = [k \in Key |-> [c \in RouteClass |-> NoBucket]]
    /\ touched = [k \in Key |-> None]
    /\ passed = [k \in Key |-> [c \in RouteClass |-> [t \in Time |-> 0]]]
    /\ undone = {}

Manage(h) ==
    \/ \E k \in Key, t \in Time \cup {None} : CreateApiKey(h, k, t)
    \/ \E k \in Key, enabled \in BOOLEAN : UpdateApiKey(h, k, enabled)
    \/ \E k \in Key : DeleteApiKey(h, k)
    \/ \E k \in Key : RotateApiKey(h, k)
    \/ CreateKey(h)
    \/ UpsertKey(h)

Authenticate(h) ==
    \/ \E secret \in Secret, c \in RouteClass : Present(h, secret, c)
    \/ Check(h)
    \/ NoteLastUsed(h)
    \/ TouchLastUsed(h)

Next ==
    \/ Tick
    \/ \E h \in Handler : Manage(h) \/ Authenticate(h) \/ Refuse(h)

Spec == Init /\ [][Next]_vars

-----------------------------------------------------------------------------

(* The shape of the state.                                                 *)
TypeOK ==
    /\ now \in Time
    /\ keys \in [Key -> Row \cup {None}]
    /\ issued \in 0 .. MaxSecrets
    /\ handler \in [Handler -> Local]
    /\ preAuth \in [Secret -> Bucket(Time, Nat)]
    /\ rate \in [Key -> [RouteClass -> Bucket(Time, Nat)]]
    /\ touched \in [Key -> Time \cup {None}]
    /\ passed \in [Key -> [RouteClass -> [Time -> Nat]]]
    /\ undone \subseteq Key

(* Every key with the secret is revoked, and no request in flight is about *)
(* to write one that is not.                                               *)
Dead(s) ==
    /\ s <= issued
    /\ \A k \in Stored : keys[k].secret = s => keys[k].revoked
    /\ \A h \in Handler :
         (handler[h].pc \in {"create", "write"} /\ handler[h].row.secret = s)
           => handler[h].row.revoked

(* A secret that was revoked, or replaced by a rotation, matches no usable *)
(* key again once the requests that listed the keys before have written:   *)
(* updates, rotations and revocations write back what they listed, and     *)
(* authentications that were under way still write lastUsedAt ("Never      *)
(* resurrect a revoked or disabled key via lastUsedAt").                   *)
SecretStaysDead == \A s \in Secret : Dead(s) => Dead(s)'

DeadSecretStaysDead == [][SecretStaysDead]_vars

(* Concurrent creations do not exceed the merchant's ceilings.  A stale    *)
(* row can make a revoked key active again (RevokedStaysRevoked fails),    *)
(* and these may be over the ceiling on active keys; the other ones are    *)
(* not, however many were brought back.                                    *)
KeysAreCapped ==
    /\ Cardinality(Stored) <= MaxStored
    /\ Cardinality(Active \ undone) <= MaxActive

(* Of the requests of a key that arrive within one window's length, at     *)
(* most twice the limit pass ("60 requests per minute per key per route    *)
(* class"), since they can straddle two windows of the limiter; three      *)
(* times when a request takes longer, as it is counted by the time it      *)
(* arrived but after the store was read, when a later window may be open.  *)
KeyRateIsBounded ==
    \A k \in Key, c \in RouteClass, t \in Time :
      Total(passed[k][c], Time \cap (t .. t + Window - 1))
        <= KeyLimit * (IF MaxDuration <= 1 THEN 2 ELSE 3)

(* What an overview shows of the keys (apiKeyAnalytics in analytics.ts):    *)
(* each is in one of four classes.                                         *)
apiKeyAnalytics(time) ==
    LET revoked == {k \in Stored : keys[k].revoked}
        expired == {k \in Active : Expired(keys[k], time)}
        disabled == {k \in Active \ expired : ~keys[k].enabled}
    IN  [total |-> Cardinality(Stored), revoked |-> Cardinality(revoked),
         expired |-> Cardinality(expired), disabled |-> Cardinality(disabled),
         active |-> Cardinality({k \in Active \ expired : keys[k].enabled})]

(* The keys shown as active are those that open anything now; with the     *)
(* expired and disabled ones they are what the ceiling counts, so that a   *)
(* merchant who sees fewer than the ceiling can create another.            *)
KeyReportIsTrue ==
    LET shown == apiKeyAnalytics(now) IN
    /\ shown.active = Cardinality({k \in Stored :
                                     \E s \in Secret : Matches(keys[k], s, now)})
    /\ shown.active + shown.expired + shown.disabled = Cardinality(Active)
    /\ shown.revoked + Cardinality(Active) = shown.total

(* What the code says of a revocation: "Revoked keys cannot be changed."   *)
RevokedStaysRevoked ==
    [][\A k \in Stored : keys[k].revoked => keys'[k].revoked]_vars
==============================================================================
