------------------------------- MODULE Reports -------------------------------
(***************************************************************************)
(* What a merchant reads of its store: the dashboard (src/src/lib/merchant *)
(* Dashboard.ts) and the analytics API (analytics.ts), each a projection   *)
(* of the blob and of the policy ledger as one request finds them.         *)
(*                                                                         *)
(* The store changes under the reports as the other modules let it: a      *)
(* request is paid, cancelled, or paid after it was cancelled (PayRecords),*)
(* an intent goes its way (AgentIntents), the ledger follows the intents   *)
(* (PolicyLedger).  A row is written some time after its time stamp was    *)
(* taken.  An intent has the id of its request.  What is reported of keys  *)
(* and of escrows is with ApiKeys and EscrowService; reports of webhooks,  *)
(* and the order of rows, are left out.                                    *)
(***************************************************************************)
EXTENDS PolicyLedger

CONSTANTS
    Legacy,      \* stored requests whose createdAt does not parse
    Agent,       \* requests that machines make
    Amount,      \* amountBaseUnits of each request
    Code,        \* denial codes
    PolicyId,    \* ids of policies
    None,        \* no policyId: the reason is that some stored row is corrupt
    Refusal,     \* what denials may carry: sets of reasons
    MaxDenials,  \* MAX_POLICY_DENIALS_PER_MERCHANT
    Day,         \* hours of a day
    MaxTime,     \* bound: the clock stops here
    MaxDenied    \* bound: denials stored

Reason == Code \X (PolicyId \cup {None})

ReportsAssumption ==
    /\ PolicyAssumption
    /\ IsFiniteSet(Code) /\ IsFiniteSet(PolicyId)
    /\ None \notin PolicyId
    /\ Refusal \subseteq (SUBSET Reason) \ {{}}
    /\ Legacy \subseteq Id /\ Agent \subseteq Id
    /\ Amount \in [Id -> Nat]
    /\ {Day, MaxDenials} \subseteq Nat \ {0}
    /\ {MaxTime, MaxDenied} \subseteq Nat

VARIABLES
    now,      \* hours
    records,  \* store.records
    intents,  \* store.agents.intents
    denials,  \* store.policies.denials: when, and the reasons
    ledger    \* the policy ledger

vars == <<now, records, intents, denials, ledger>>

NoRecord == [stored |-> FALSE, createdAt |-> Never, paid |-> FALSE, cancelled |-> FALSE]

NewRecord(at) == [stored |-> TRUE, createdAt |-> at, paid |-> FALSE, cancelled |-> FALSE]

NoIntent == [status |-> "NONE", createdAt |-> Never, verifiedAt |-> Never]

NewIntent(at) == [status |-> "AWAITING_PAYMENT", createdAt |-> at, verifiedAt |-> Never]

Init ==
    /\ now = 0
    /\ records = [i \in Id |-> [NoRecord EXCEPT !.stored = i \in Legacy]]
    /\ intents = [i \in Id |-> NoIntent]
    /\ denials = {}
    /\ ledger = [i \in Id |-> NoReservation]

-----------------------------------------------------------------------------
(* merchantDashboard.ts.                                                   *)

Rows == {i \in Id : records[i].stored}

paymentLinkPhase(i) ==
    CASE records[i].paid -> "PAID"
      [] ~records[i].paid /\ records[i].cancelled -> "CANCELLED"
      [] ~records[i].paid /\ ~records[i].cancelled ->
            IF now >= Expiry[i] THEN "EXPIRED" ELSE "OPEN"

Of(phase, rows) == {i \in rows : paymentLinkPhase(i) = phase}

(* buildMerchantDashboard.                                                 *)
Dashboard ==
    [paid |-> Cardinality(Of("PAID", Rows)),
     pending |-> Cardinality(Of("OPEN", Rows)),
     expired |-> Cardinality(Of("EXPIRED", Rows)),
     cancelled |-> Cardinality(Of("CANCELLED", Rows)),
     received |-> Total(Amount, Of("PAID", Rows))]

(* What the workspace makes of the dashboard.                              *)
workspaceMetrics ==
    [total |-> Cardinality(Rows),
     open |-> Dashboard.pending, paid |-> Dashboard.paid,
     expired |-> Dashboard.expired, cancelled |-> Dashboard.cancelled,
     received |-> Dashboard.received,
     outstanding |-> Total(Amount, Of("OPEN", Rows))]

Undated == {i \in Rows : records[i].createdAt = Never}

(* buildAnalytics: requests by the day of their createdAt.                 *)
CreatedByDay ==
    [d \in {records[i].createdAt \div Day : i \in Rows \ Undated} |->
        Cardinality({i \in Rows \ Undated : records[i].createdAt \div Day = d})]

(* buildActivity: the entries of a row.                                    *)
Activity(i) ==
    {"created"} \cup
        CASE paymentLinkPhase(i) = "CANCELLED" -> {"cancelled"}
          [] paymentLinkPhase(i) = "EXPIRED" -> {"expired"}
          [] paymentLinkPhase(i) = "PAID" -> {"paid", "transaction", "receipt"}
          [] paymentLinkPhase(i) = "OPEN" -> {}

(* shareTargets.                                                           *)
ShareTargets(i) ==
    {"requestId"} \cup
        CASE paymentLinkPhase(i) = "OPEN" -> {"payment"}
          [] paymentLinkPhase(i) = "PAID" -> {"receipt", "transaction"}
          [] OTHER -> {}

-----------------------------------------------------------------------------
(* analytics.ts.  Ranges are half-open.                                    *)

InRange(at, range) == at # Never /\ range[1] <= at /\ at < range[2]

paymentAnalytics(range) ==
    LET rows == {i \in Rows : InRange(records[i].createdAt, range)} IN
    [total |-> Cardinality(rows),
     open |-> Cardinality(Of("OPEN", rows)),
     recordedPaid |-> Cardinality(Of("PAID", rows)),
     expired |-> Cardinality(Of("EXPIRED", rows)),
     cancelled |-> Cardinality(Of("CANCELLED", rows)),
     requested |-> Total(Amount, rows),
     recordedPaidUnits |-> Total(Amount, Of("PAID", rows)),
     outstanding |-> Total(Amount, Of("OPEN", rows)),
     missingCreatedAt |-> Cardinality(Undated)]

(* A stored intent that awaits payment past the expiry of its request.     *)
merchantIntents ==
    [i \in Id |->
        IF intents[i].status = "AWAITING_PAYMENT" /\ i \in Rows /\ now >= Expiry[i]
        THEN "EXPIRED" ELSE intents[i].status]

VerifiedIntents == {i \in Id : merchantIntents[i] = "VERIFIED"}

agentAnalytics(range) ==
    LET created == {i \in Id : InRange(intents[i].createdAt, range)}
        verified == {i \in VerifiedIntents : InRange(intents[i].verifiedAt, range)}
    IN  [created |-> Cardinality(created),
         status |-> [s \in {"AWAITING_PAYMENT", "SUBMITTED", "VERIFIED", "FAILED",
                            "EXPIRED"} |->
                        Cardinality({i \in created : merchantIntents[i] = s})],
         verified |-> Cardinality(verified),
         verifiedUnits |-> Total(Amount, verified),
         policyDenied |-> Cardinality({d \in denials : InRange(d.at, range)})]

(* The reasons of a denial that give a code, or name a policy.             *)
Giving(d, c) == {r \in d.reasons : r[1] = c}
Naming(d, p) == {r \in d.reasons : r[2] = p}

(* Mutant: a denial is counted once for each of its reasons.               *)
policyAnalytics_EachReason(range) ==
    LET denied == {d \in denials : InRange(d.at, range)}
        Sum(S(_)) == Total([d \in denied |-> Cardinality(S(d))], denied)
    IN  [total |-> Cardinality(denied),
         byCode |-> [c \in Code |-> Sum(LAMBDA d : Giving(d, c))],
         byPolicy |-> [p \in PolicyId |-> Sum(LAMBDA d : Naming(d, p))],
         unattributedReasons |-> Sum(LAMBDA d : Naming(d, None))]

(* A denial counts once under each code and policy that its reasons name,  *)
(* and each of its reasons that names no policy counts.                    *)
policyAnalytics(range) ==
    LET denied == {d \in denials : InRange(d.at, range)} IN
    [total |-> Cardinality(denied),
     byCode |-> [c \in Code |-> Cardinality({d \in denied : Giving(d, c) # {}})],
     byPolicy |-> [p \in PolicyId |-> Cardinality({d \in denied : Naming(d, p) # {}})],
     unattributedReasons |->
        Total([d \in denied |-> Cardinality(Naming(d, None))], denied)]

(* reservationAnalytics: the ledger as it is stored.                       *)
reservationAnalytics ==
    [s \in {"RESERVED", "CONSUMED", "RELEASED"} |->
        Total(Reserved(ledger), {i \in Id : ledger[i].status = s})]

(* utilizationAnalytics, with the rule that enforcement uses.              *)
utilization(policy) ==
    CommittedForCap(ledger, intents, Amount, now, policy.window)

(* One answer, from one copy of the store.                                 *)
buildOverview(range) ==
    [payments |-> paymentAnalytics(range), agents |-> agentAnalytics(range),
     policies |-> policyAnalytics(range)]

buildPolicyDetail(range) ==
    [policies |-> policyAnalytics(range), reservations |-> reservationAnalytics,
     utilization |-> [p \in Policy |-> utilization(p)]]

(* buildTimeseries: a bucket for each step of the range, and what falls in *)
(* it.  The first bucket may begin before the range.                       *)
BucketStart(at, step) == (at \div step) * step

timeseries(things, at, worth, range, step) ==
    LET starts == {s \in BucketStart(range[1], step) .. range[2] - 1 : s % step = 0}
        In(s) == {x \in things : /\ InRange(at[x], range)
                                 /\ BucketStart(at[x], step) = s}
    IN  [s \in starts |-> Total(worth, In(s))]

SeriesTotal(series) == Total(series, DOMAIN series)

-----------------------------------------------------------------------------
(* The store under the reports.                                            *)

Stamps == {t \in {now - 1, now} : t >= 0}

Register(i) ==
    /\ ~records[i].stored
    /\ \E at \in Stamps : records' = [records EXCEPT ![i] = NewRecord(at)]
    /\ UNCHANGED <<now, intents, denials, ledger>>

Settle(i) ==
    /\ i \in Rows /\ ~records[i].paid
    /\ records' = [records EXCEPT ![i].paid = TRUE]
    /\ UNCHANGED <<now, intents, denials, ledger>>

Cancel(i) ==
    /\ i \in Rows /\ ~records[i].paid /\ ~records[i].cancelled
    /\ records' = [records EXCEPT ![i].cancelled = TRUE]
    /\ UNCHANGED <<now, intents, denials, ledger>>

(* A machine payment is created: reserved, then its intent is stored.      *)
Reserve(i) ==
    /\ ~IsLive(ledger[i]) /\ intents[i].status = "NONE"
    /\ ~LedgerDenies(RecoverReservations(ledger, intents, now), intents, Amount,
                     now, Amount[i])
    /\ ledger' = [RecoverReservations(ledger, intents, now) EXCEPT
                     ![i] = NewReservation(Amount[i])]
    /\ UNCHANGED <<now, records, intents, denials>>

StoreIntent(i) ==
    /\ intents[i].status = "NONE" /\ i \in Rows /\ ledger[i].status = "RESERVED"
    /\ \E at \in Stamps : intents' = [intents EXCEPT ![i] = NewIntent(at)]
    /\ UNCHANGED <<now, records, denials, ledger>>

Submit(i) ==
    /\ intents[i].status \in {"AWAITING_PAYMENT", "SUBMITTED"}
    /\ \E s \in {"SUBMITTED", "VERIFIED", "FAILED"}, at \in Stamps :
          intents' = [intents EXCEPT ![i] =
                         [status |-> s, createdAt |-> intents[i].createdAt,
                          verifiedAt |-> IF s = "VERIFIED" THEN at ELSE Never]]
    /\ UNCHANGED <<now, records, denials, ledger>>

(* The ledger is told, or recovers.                                        *)
Recover ==
    /\ ledger' = RecoverReservations(ledger, intents, now)
    /\ ledger' # ledger
    /\ UNCHANGED <<now, records, intents, denials>>

(* putDenial and pruneMerchantDenials: is the row left in the copy that    *)
(* its caller read?                                                        *)
SurvivesPruning(row) ==
    Cardinality({d \in denials : d.at > row.at}) < MaxDenials

(* persistTouched adds that row to the store, which itself is not pruned.  *)
Deny(reasons) ==
    LET row(at) == [at |-> at, reasons |-> reasons, n |-> Cardinality(denials)]
    IN  /\ Cardinality(denials) < MaxDenied
        /\ \E at \in Stamps :
              denials' = IF SurvivesPruning(row(at)) THEN denials \cup {row(at)}
                         ELSE denials
        /\ UNCHANGED <<now, records, intents, ledger>>

Tick ==
    /\ now < MaxTime
    /\ now' = now + 1
    /\ UNCHANGED <<records, intents, denials, ledger>>

Next ==
    \/ \E i \in Id :
          \/ Register(i) \/ Settle(i) \/ Cancel(i)
    \/ \E i \in Agent : Reserve(i) \/ StoreIntent(i) \/ Submit(i)
    \/ Recover
    \/ \E reasons \in Refusal : Deny(reasons)
    \/ Tick

Spec == Init /\ [][Next]_vars

-----------------------------------------------------------------------------
(* Properties.                                                             *)

Ranges == {r \in (0 .. MaxTime) \X (1 .. MaxTime + 1) : r[1] < r[2]}

AllTime == <<0, MaxTime + 1>>

TypeOK ==
    /\ now \in 0 .. MaxTime
    /\ records \in [Id -> [stored : BOOLEAN, createdAt : Time, paid : BOOLEAN,
                           cancelled : BOOLEAN]]
    /\ intents \in [Id -> [status : {"NONE", "AWAITING_PAYMENT", "SUBMITTED",
                                     "VERIFIED", "FAILED"},
                           createdAt : Time, verifiedAt : Time]]
    /\ ledger \in [Id -> Reservation]

(* A merchant who adds up one report finds what another one says: the      *)
(* totals of a series are those of the overview, whatever the range and    *)
(* the buckets; the phases of the rows are counted once, with nothing left *)
(* over, by the dashboard and the overview.                                *)
PaymentsAgree ==
    LET one == [i \in Id |-> 1]
        at == [i \in Id |-> records[i].createdAt]
        overview == paymentAnalytics(AllTime)
        metrics == workspaceMetrics
    IN  /\ \A range \in Ranges, step \in {1, Day} :
              /\ SeriesTotal(timeseries(Rows, at, one, range, step))
                    = paymentAnalytics(range).total
              /\ SeriesTotal(timeseries(Rows, at, Amount, range, step))
                    = paymentAnalytics(range).requested
        /\ metrics.paid + metrics.open + metrics.expired + metrics.cancelled
              = metrics.total
        /\ metrics.total = overview.total + overview.missingCreatedAt
        /\ SeriesTotal(CreatedByDay) = overview.total
        /\ metrics.received = overview.recordedPaidUnits + Total(Amount, Of("PAID", Undated))
        /\ metrics.outstanding = overview.outstanding + Total(Amount, Of("OPEN", Undated))
        /\ \A i \in Rows : ("paid" \in Activity(i)) <=> ("receipt" \in ShareTargets(i))

IntentsAgree ==
    LET one == [i \in Id |-> 1]
        at == [i \in Id |-> intents[i].verifiedAt]
    IN  \A range \in Ranges, step \in {1, Day} :
            /\ SeriesTotal(timeseries(VerifiedIntents, at, one, range, step))
                  = agentAnalytics(range).verified
            /\ SeriesTotal(timeseries(VerifiedIntents, at, Amount, range, step))
                  = agentAnalytics(range).verifiedUnits
            /\ SeriesTotal(agentAnalytics(range).status)
                  = agentAnalytics(range).created

(* The overview, the policy detail and the series tell one number of       *)
(* denials.  The counts by code, and those by policy, are of the same      *)
(* denials: each is at most that number, and together they miss none.      *)
DenialsAgree ==
    LET one == [d \in denials |-> 1]
        at == [d \in denials |-> d.at]
    IN  \A range \in Ranges :
            LET total == buildOverview(range).agents.policyDenied
                shown == buildPolicyDetail(range).policies
            IN  /\ shown.total = total
                /\ \A step \in {1, Day} :
                      SeriesTotal(timeseries(denials, at, one, range, step)) = total
                /\ \A c \in Code : shown.byCode[c] <= total
                /\ total <= SeriesTotal(shown.byCode)
                /\ \A p \in PolicyId : shown.byPolicy[p] <= total
                /\ total <= SeriesTotal(shown.byPolicy) + shown.unattributedReasons

(* The utilization that is shown never understates a cap: a create that    *)
(* reads the same ledger, and brings it up to date first, counts no more.  *)
UtilizationIsHonest ==
    LET detail == buildPolicyDetail(AllTime)
        recovered == RecoverReservations(ledger, intents, now)
    IN  \A p \in Policy :
            detail.utilization[p]
                >= CommittedForCap(recovered, intents, Amount, now, p.window)

ReportsAgree ==
    PaymentsAgree /\ IntentsAgree /\ DenialsAgree /\ UtilizationIsHonest

=============================================================================
