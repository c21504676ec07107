---------------------------- MODULE PolicyLedger ----------------------------
(***************************************************************************)
(* The spend-cap ledger of one merchant (src/src/lib/policyLedger.ts) and  *)
(* the spend rule of its policies (paymentPolicy.ts, paymentPolicies.ts):  *)
(* what a ledger value commits of a cap, and how it is brought up to date  *)
(* with the intents that its reader saw.                                   *)
(*                                                                         *)
(* A ledger has at most one reservation for each intent.  Amounts are the  *)
(* terms of the payment requests; facts are the intents as a caller read   *)
(* them, which may be out of date when it uses them.                       *)
(***************************************************************************)
EXTENDS Totals

CONSTANTS
    Id,      \* request ids, which are the ids of intents and reservations
    Policy,  \* enabled policies that cap spending: [cap, window]
    Expiry,  \* expiresAt of the request with each id
    Grace    \* RESERVATION_RELEASE_GRACE_SECONDS

PolicyAssumption ==
    /\ IsFiniteSet(Id)
    /\ Policy \subseteq [cap : Nat, window : Nat \ {0}]
    /\ Expiry \in [Id -> Nat]
    /\ Grace \in Nat

Never == -1  \* a time that is null

Time == Nat \cup {Never}

Reservation ==
    [status : {"NONE", "RESERVED", "CONSUMED", "RELEASED"}, amount : Nat,
     consumedAt : Time]

NoReservation == [status |-> "NONE", amount |-> 0, consumedAt |-> Never]

NewReservation(a) == [status |-> "RESERVED", amount |-> a, consumedAt |-> Never]

IsLive(row) == row.status \in {"RESERVED", "CONSUMED"}

-----------------------------------------------------------------------------
(* Transitions, which only a reserved row takes.                           *)

Consume(row, t) ==
    IF row.status = "RESERVED"
    THEN [status |-> "CONSUMED", amount |-> row.amount, consumedAt |-> t]
    ELSE row

Release(row) ==
    IF row.status = "RESERVED"
    THEN [status |-> "RELEASED", amount |-> row.amount, consumedAt |-> Never]
    ELSE row

(* An unpaid intent, or none, gives its reservation up after the grace.  A *)
(* stored intent that awaits payment never has a submitted hash.           *)
PastGrace(i, t) == t >= Expiry[i] + Grace

(* Mutant: a submitted transaction counts as a payment.                    *)
RecoverReservations_Submitted(doc, facts, t) ==
    [i \in Id |->
        CASE facts[i].status \in {"VERIFIED", "SUBMITTED"} -> Consume(doc[i], t)
          [] facts[i].status = "FAILED" -> Release(doc[i])
          [] OTHER -> IF PastGrace(i, t) THEN Release(doc[i]) ELSE doc[i]]

RecoverReservations(doc, facts, t) ==
    [i \in Id |->
        CASE facts[i].status = "VERIFIED"  -> Consume(doc[i], facts[i].verifiedAt)
          [] facts[i].status = "FAILED"    -> Release(doc[i])
          [] facts[i].status = "SUBMITTED" -> doc[i]
          [] OTHER -> IF PastGrace(i, t) THEN Release(doc[i]) ELSE doc[i]]

-----------------------------------------------------------------------------
(* What counts against a cap.                                              *)

InWindow(at, t, window) == t - window < at /\ at <= t

(* The amount of each id's reservation.                                    *)
Reserved(doc) == [i \in Id |-> doc[i].amount]

(* The intents that a caller saw verified (verifiedSpendFacts).            *)
VerifiedSpend(facts) == {i \in Id : facts[i].status = "VERIFIED"}

SpendInWindow(facts, terms, t, window) ==
    Total(terms, {i \in VerifiedSpend(facts) : InWindow(facts[i].verifiedAt, t, window)})

(* Mutant: what is only reserved is not counted.                           *)
CommittedForCap_SpentOnly(doc, facts, terms, t, window) ==
    LET Held == {i \in Id : /\ facts[i].status # "VERIFIED"
                            /\ doc[i].status = "CONSUMED"
                            /\ InWindow(doc[i].consumedAt, t, window)}
    IN  SpendInWindow(facts, terms, t, window)
        + Total(Reserved(doc), Held)

(* Each id counts once: as verified spend if the caller saw it verified,   *)
(* else as its reservation says.                                           *)
CommittedForCap(doc, facts, terms, t, window) ==
    LET Other == Id \ VerifiedSpend(facts)
        Held == {i \in Other :
                    \/ doc[i].status = "RESERVED"
                    \/ /\ doc[i].status = "CONSUMED"
                       /\ InWindow(doc[i].consumedAt, t, window)}
    IN  SpendInWindow(facts, terms, t, window)
        + Total(Reserved(doc), Held)

(* The two checks of a create: against the intents it read, then against   *)
(* the ledger.                                                             *)
PolicyDenies(facts, terms, t, amount) ==
    \E p \in Policy : SpendInWindow(facts, terms, t, p.window) + amount > p.cap

LedgerDenies(doc, facts, terms, t, amount) ==
    \E p \in Policy :
        CommittedForCap(doc, facts, terms, t, p.window) + amount > p.cap

=============================================================================
