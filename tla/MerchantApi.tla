----------------------------- MODULE MerchantApi -----------------------------
(***************************************************************************)
(* Four components behind a merchant's API that share no state: policies,  *)
(* keys, rate limits and reports.  The initial state chooses the one that  *)
(* runs; the others stay as they are.                                      *)
(***************************************************************************)
EXTENDS Policies

CONSTANTS
    Key, Handler,         \* of ApiKeys; RequestLimits has as many handlers
    RouteClass, NoBucket, MaxActive, MaxStored, PreAuthLimit, KeyLimit,
    TouchInterval, MaxDuration, MaxSecrets,
    KeyWindow, KeyTime,   \* Window and MaxTime of ApiKeys
    Server, Client, Window, PerKey, Global, SweepEvery, MaxDelay,
    Grace,                \* of the shared counters, and of the reservations
    RequestId, Legacy, Agent, Expiry, Amount, Policy,   \* of Reports
    Code, Refusal, MaxDenials, Day, MaxDenied

VARIABLES
    part,
    keyNow, keys, issued, handler, preAuth, rate, touched, passed, undone,
    limitNow, byKey, global, limitCalls, counter, request, local, shared,
    reportNow, rows, intents, denials, ledger

Keys == INSTANCE ApiKeys WITH
    now <- keyNow, MaxTime <- KeyTime, Window <- KeyWindow

Limits == INSTANCE RequestLimits WITH
    now <- limitNow, calls <- limitCalls, Request <- Handler

Reports == INSTANCE Reports WITH now <- reportNow, records <- rows, Id <- RequestId

keysVars == <<keyNow, keys, issued, handler, preAuth, rate, touched, passed, undone>>
limitsVars == <<limitNow, byKey, global, limitCalls, counter, request, local, shared>>
reportsVars == <<reportNow, rows, intents, denials, ledger>>

ASSUME ApiAssumption ==
    /\ Keys!WindowAssumption /\ Keys!KeysAssumption
    /\ Limits!WindowAssumption /\ Limits!LimitsAssumption
    /\ Reports!ReportsAssumption

Part == {"policies", "keys", "limits", "reports"}

ApiInit ==
    /\ part \in Part
    /\ Init /\ Keys!Init /\ Limits!Init /\ Reports!Init
    /\ part # "keys" => Keys!Stored = {}

ApiNext ==
    /\ part' = part
    /\ \/ part = "policies" /\ Next
       \/ part # "policies" /\ UNCHANGED vars
    /\ \/ part = "keys" /\ Keys!Next
       \/ part # "keys" /\ UNCHANGED keysVars
    /\ \/ part = "limits" /\ Limits!Next
       \/ part # "limits" /\ UNCHANGED limitsVars
    /\ \/ part = "reports" /\ Reports!Next
       \/ part # "reports" /\ UNCHANGED reportsVars

ApiVars == <<part, vars, keysVars, limitsVars, reportsVars>>

ApiSpec == ApiInit /\ [][ApiNext]_ApiVars

-----------------------------------------------------------------------------
(* Properties of the parts that are instances: each is that of its module. *)

(* ApiKeys: a secret that was revoked or replaced matches no key again.    *)
DeadSecretStaysDead ==
    [][part = "keys" => Keys!SecretStaysDead]_<<part, keysVars>>

(* What is counted against a limit stays within it, however requests race  *)
(* and windows change: the keys and the requests of a key (ApiKeys); the   *)
(* requests of a client in all processes, or in one that Redis does not    *)
(* answer, and the clients that one keeps track of (RequestLimits).        *)
QuotasHold ==
    /\ part = "keys" => Keys!KeysAreCapped /\ Keys!KeyRateIsBounded
    /\ part = "limits" => /\ Limits!SharedQuotaHolds
                          /\ Limits!LocalQuotaHolds
                          /\ Limits!TrackedKeysAreBounded

(* What one report counts another one counts, and none shows less of a cap *)
(* as used than is enforced (Reports); and what an overview shows of the   *)
(* keys is what opens something and what the ceiling counts (ApiKeys).     *)
ReportsAgree ==
    /\ part = "reports" => Reports!ReportsAgree
    /\ part = "keys" => Keys!KeyReportIsTrue

=============================================================================
