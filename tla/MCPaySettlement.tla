-------------------------- MODULE MCPaySettlement --------------------------
(***************************************************************************)
(* Instances of PaySettlement for TLC: which links exist and which of them *)
(* each transaction matches.                                               *)
(***************************************************************************)
EXTENDS PaySettlementProperties

CONSTANTS t1, t2, x1, x2, m1, m2, r1, r2, e1, e2, h1, h2

(* Two legacy links with the same terms: x1 matches both, x2 only t1.     *)
LegacyVersion == [t \in {t1, t2} |-> 1]
LegacyIdOf    == [t \in {t1, t2} |-> IF t = t1 THEN r1 ELSE r2]
LegacySettles == [x \in {x1, x2} |-> IF x = x1 THEN {t1, t2} ELSE {t1}]

(* One signed request.  Both transactions match it, or only x1 does.     *)
SignedVersion == [t \in {t1} |-> 2]
SignedIdOf    == [t \in {t1} |-> r1]
BothSettle    == [x \in {x1, x2} |-> {t1}]
OneSettles    == [x \in {x1, x2} |-> IF x = x1 THEN {t1} ELSE {}]

(* Two signed requests with one id, recipient and amount: they differ in   *)
(* expiry or memo only, so a receipt that matches one matches the other.   *)
SameIdVersion == [t \in {t1, t2} |-> 2]
SameIdIdOf    == [t \in {t1, t2} |-> r1]
SameIdSettles == [x \in {x1, x2} |-> {t1, t2}]

OnePayee    == [t \in Token |-> m1]
EarlyExpiry == [t \in Token |-> 1]
LateExpiry  == [t \in Token |-> 2]
SplitExpiry == [t \in Token |-> IF t = t1 THEN 1 ELSE 2]

(* Which requests each of the two handlers is used for.                    *)
EveryoneAndReconciler ==
    [h \in Handler |-> IF h = h1 THEN {"register", "view", "submit", "cancel"}
                       ELSE {"reconcile"}]
EveryoneAndMerchant ==
    [h \in Handler |-> IF h = h1 THEN {"register", "submit", "cancel"}
                       ELSE {"cancel", "reconcile"}]
PayerAndMerchant ==
    [h \in Handler |-> IF h = h1 THEN {"register", "submit"}
                       ELSE {"cancel", "reconcile"}]
TwoPayers ==
    [h \in Handler |-> IF h = h1 THEN {"register", "submit", "reconcile"}
                       ELSE {"register", "submit", "cancel"}]
TwoCancellers ==
    [h \in Handler |-> {"register", "cancel"}]

(* One endpoint of the payee, one of another merchant.                     *)
Owners == [e \in Endpoint |-> IF e = e1 THEN m1 ELSE m2]

=============================================================================
