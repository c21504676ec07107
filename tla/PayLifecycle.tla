---------------------------- MODULE PayLifecycle ----------------------------
(***************************************************************************)
(* What the store promises a reader of payment rows: how the phase of a    *)
(* row may move, and that a transaction settles one row and for good       *)
(* ("Settlement model" in src/README.md).  How requests interleave, what   *)
(* is on the chain and what a cancellation compares are left to            *)
(* PaySettlement, which implements this.                                   *)
(***************************************************************************)
CONSTANTS Token, Tx, NoTx, RequestId, Version, IdOf

VARIABLES
    phase,      \* the phase a reader sees, "NONE" before the row exists
    settledBy   \* the transaction a row was settled by

Phase == {"NONE", "OPEN", "VIEWED", "EXPIRED", "CANCELLED", "PAID"}

Init ==
    /\ phase = [t \in Token |-> "NONE"]
    /\ settledBy = [t \in Token |-> NoTx]

(* A link may be registered after it expired.                              *)
Create(t) ==
    /\ phase[t] = "NONE"
    /\ \E p \in {"OPEN", "EXPIRED"} : phase' = [phase EXCEPT ![t] = p]
    /\ UNCHANGED settledBy

View(t) ==
    /\ phase[t] = "OPEN"
    /\ phase' = [phase EXCEPT ![t] = "VIEWED"]
    /\ UNCHANGED settledBy

(* The passing of time expires every unfinished row that is due.           *)
Expire ==
    /\ \E S \in SUBSET {t \in Token : phase[t] \in {"OPEN", "VIEWED"}} :
          phase' = [t \in Token |-> IF t \in S THEN "EXPIRED" ELSE phase[t]]
    /\ UNCHANGED settledBy

Cancel(t) ==
    /\ phase[t] \in {"OPEN", "VIEWED", "EXPIRED"}
    /\ phase' = [phase EXCEPT ![t] = "CANCELLED"]
    /\ UNCHANGED settledBy

(* Only a V2 row can be paid after it was cancelled; a hash settles one    *)
(* row; of the V2 rows that share a request id one can be paid.            *)
Pay(t, x) ==
    /\ phase[t] \in {"OPEN", "VIEWED", "EXPIRED", "CANCELLED"}
    /\ phase[t] = "CANCELLED" => Version[t] = 2
    /\ \A u \in Token : settledBy[u] # x
    /\ \A u \in Token :
          Version[t] = 2 /\ Version[u] = 2 /\ IdOf[u] = IdOf[t]
             => phase[u] # "PAID"
    /\ phase' = [phase EXCEPT ![t] = "PAID"]
    /\ settledBy' = [settledBy EXCEPT ![t] = x]

Next ==
    \/ \E t \in Token :
          \/ Create(t) \/ View(t) \/ Cancel(t)
          \/ \E x \in Tx : Pay(t, x)
    \/ Expire

Spec == Init /\ [][Next]_<<phase, settledBy>>

=============================================================================
