-------------------------- MODULE MerchantApiProofs --------------------------
(***************************************************************************)
(* Theorems about MerchantApi: about Policies, for any policies, patches   *)
(* and bodies; about ApiKeys and RequestLimits, for any numbers of keys,   *)
(* requests and processes and any limits, windows and delays; about        *)
(* Reports, for any rows, amounts, ranges and widths of buckets.           *)
(***************************************************************************)
EXTENDS MerchantApi, TotalsProofs

(* A body that no parser of the request accepts, now or later.             *)
NeverAccepted(body) ==
    ~PolicyReads(body) \/ body.id = Bad \/ ~PolicyExpiry(body)

Local == [pc : {"denied", "create", "refused", "stored"}, body : Body,
          plan : {"skip", "defer", "deny", "allow"}]

(* A create that goes on after it was deferred has such a body.            *)
DeferredIsRefused ==
    \A c \in Call :
        /\ calls[c] # Idle => calls[c] \in Local
        /\ calls[c].pc = "create" =>
               \/ calls[c].plan \in {"skip", "allow"}
               \/ calls[c].plan = "defer" /\ NeverAccepted(calls[c].body)
        /\ calls[c].pc = "stored" => calls[c].plan \in {"skip", "allow"}

Shapes ==
    /\ now \in 0 .. MaxTime
    /\ DOMAIN records = PolicyId
    /\ DOMAIN calls = Call
    /\ IsFiniteSet(Stored)

IInv == TypeOK /\ Shapes /\ DeferredIsRefused

-----------------------------------------------------------------------------
(* The rules.                                                              *)

(* A merge keeps the rules that the patch does not name, and the window of *)
(* a spend cap with it.                                                    *)
LEMMA MergeKeeps ==
    ASSUME NEW current, NEW patch, NEW k \in RuleKey \ Names(patch)
    PROVE  /\ MergePolicyRules(current, patch.rules)[k] = current[k]
           /\ k = "maxSpend" =>
                  MergePolicyRules(current, patch.rules)["window"] = current["window"]
<1>1. k \notin DOMAIN patch.rules
  BY DEF Names
<1>2. k \in {"maxSpend", "window"} =>
          "maxSpend" \notin DOMAIN patch.rules /\ "window" \notin DOMAIN patch.rules
  BY DEF Names
<1> QED
  BY <1>1, <1>2 DEF MergePolicyRules, RuleKey

LEMMA UnnamedStillDeny ==
    ASSUME NEW current, NEW patch, NEW body
    PROVE  Denying(current, body) \ Names(patch)
           = Denying(MergePolicyRules(current, patch.rules), body) \ Names(patch)
<1> DEFINE merged == MergePolicyRules(current, patch.rules)
<1>1. \A k \in RuleKey \ Names(patch) :
          /\ merged[k] = current[k]
          /\ k = "maxSpend" => merged["window"] = current["window"]
  BY MergeKeeps
<1> HIDE DEF merged
<1>2. \A k \in RuleKey \ Names(patch) :
          k \in Denying(current, body) <=> k \in Denying(merged, body)
  BY <1>1 DEF Denying
<1>3. Denying(current, body) \subseteq RuleKey /\ Denying(merged, body) \subseteq RuleKey
  BY DEF Denying
<1>4. Denying(current, body) \ Names(patch) = Denying(merged, body) \ Names(patch)
  BY <1>2, <1>3
<1> QED
  BY <1>4 DEF merged

LEMMA RefusedForGood ==
    ASSUME NEW body \in Body, NeverAccepted(body), now \in Nat
    PROVE  ~Accepts(body)
<1>1. body.expiry.at \in Int /\ Merchant # Bad
  BY PoliciesAssumption DEF PoliciesAssumption
<1>2. CASE ~PolicyReads(body)
  BY <1>1, <1>2 DEF PolicyReads, Accepts, DraftReads, IsFinalRequest
<1>3. CASE body.id = Bad
  BY <1>3 DEF Accepts, IsFinalRequest
<1>4. CASE ~PolicyExpiry(body)
  BY <1>1, <1>4 DEF PolicyExpiry, Accepts, DraftReads, IsActive
<1> QED
  BY <1>2, <1>3, <1>4 DEF NeverAccepted

-----------------------------------------------------------------------------
(* The steps.                                                              *)

LEMMA InitIInv == Init => IInv
<1> SUFFICES ASSUME Init PROVE IInv
  OBVIOUS
<1>1. Stored = {}
  BY DEF Init, Stored
<1>2. IsFiniteSet(Stored) /\ Cardinality(Stored) = 0
  BY <1>1, FS_EmptySet
<1>3. MaxTime \in Nat /\ MaxPolicies \in Nat
  BY PoliciesAssumption DEF PoliciesAssumption
<1>4. TypeOK
  BY <1>1, <1>2, <1>3 DEF Init, TypeOK, Idle
<1>5. Shapes
  BY <1>2, <1>3 DEF Init, Shapes
<1>6. DeferredIsRefused
  BY DEF Init, DeferredIsRefused, Idle
<1> QED
  BY <1>4, <1>5, <1>6 DEF IInv

(* A change of the policies keeps what the creates are about to do.        *)
LEMMA RecordsStep ==
    ASSUME IInv, UNCHANGED <<now, calls>>, NEW p \in PolicyId, NEW row,
           records' = [records EXCEPT ![p] = row],
           row # None => IsPolicyRules(row.rules),
           records[p] # None \/ Cardinality(Stored) < MaxPolicies \/ row = None
    PROVE  IInv'
<1> USE DEF IInv
<1>1. \A q \in PolicyId : records'[q] = IF q = p THEN row ELSE records[q]
  BY DEF Shapes
<1>2. Stored' \subseteq Stored \cup {p}
  BY <1>1 DEF Stored
<1>3. IsFiniteSet(Stored) /\ Cardinality(Stored) \in Nat /\ MaxPolicies \in Nat
      /\ Cardinality(Stored) <= MaxPolicies
  BY FS_CardinalityType, PoliciesAssumption DEF Shapes, TypeOK, PoliciesAssumption
<1>4. /\ IsFiniteSet(Stored \cup {p})
      /\ p \in Stored => Cardinality(Stored \cup {p}) = Cardinality(Stored)
      /\ Cardinality(Stored \cup {p}) \in {Cardinality(Stored), Cardinality(Stored) + 1}
  BY <1>3, FS_AddElement
<1>5. IsFiniteSet(Stored') /\ Cardinality(Stored') <= MaxPolicies
  <2>1. CASE row = None
    <3>1. Stored' \subseteq Stored
      BY <2>1, <1>1 DEF Stored
    <3> QED
      BY <3>1, <1>3, FS_Subset, FS_CardinalityType
  <2>2. CASE records[p] # None
    <3>1. Stored' \subseteq Stored
      BY <2>2, <1>2 DEF Stored
    <3> QED
      BY <3>1, <1>3, FS_Subset, FS_CardinalityType
  <2>3. CASE Cardinality(Stored) < MaxPolicies
    <3>1. IsFiniteSet(Stored') /\ Cardinality(Stored') <= Cardinality(Stored \cup {p})
      BY <1>2, <1>4, FS_Subset
    <3>2. Cardinality(Stored') \in Nat
      BY <3>1, FS_CardinalityType
    <3> QED
      BY <3>1, <3>2, <2>3, <1>3, <1>4
  <2> QED
    BY <2>1, <2>2, <2>3
<1>6. TypeOK'
  BY <1>1, <1>5 DEF TypeOK, Stored
<1>7. Shapes'
  BY <1>5 DEF Shapes
<1>8. DeferredIsRefused'
  BY DEF DeferredIsRefused, NeverAccepted, PolicyReads, PolicyExpiry
<1> QED
  BY <1>6, <1>7, <1>8

LEMMA PolicyStepKeeps ==
    ASSUME IInv, NEW p \in PolicyId,
           \/ \E post \in Post : CreatePolicy(p, post)
           \/ \E patch \in Patch : UpdatePolicy(p, patch)
           \/ DeletePolicy(p)
    PROVE  IInv'
<1>1. ASSUME NEW post \in Post, CreatePolicy(p, post) PROVE IInv'
  BY <1>1, RecordsStep DEF CreatePolicy
<1>2. ASSUME NEW patch \in Patch, UpdatePolicy(p, patch) PROVE IInv'
  <2> DEFINE merged == MergePolicyRules(records[p].rules, patch.rules)
             row == [enabled |-> IF patch.enabled = None THEN records[p].enabled
                                 ELSE patch.enabled,
                     rules |-> merged]
  <2>1. /\ records' = [records EXCEPT ![p] = row] /\ records[p] # None
        /\ IsPolicyRules(merged) /\ row.rules = merged
        /\ UNCHANGED <<now, calls>>
    BY <1>2 DEF UpdatePolicy
  <2> HIDE DEF row, merged
  <2> QED
    BY <2>1, RecordsStep
<1>3. CASE DeletePolicy(p)
  BY <1>3, RecordsStep DEF DeletePolicy
<1> QED
  BY <1>1, <1>2, <1>3

LEMMA CallStep ==
    ASSUME IInv, UNCHANGED <<now, records>>, NEW c \in Call, NEW l \in Local,
           calls' = [calls EXCEPT ![c] = l],
           l.pc = "create" => \/ l.plan \in {"skip", "allow"}
                              \/ l.plan = "defer" /\ NeverAccepted(l.body),
           l.pc = "stored" => l.plan \in {"skip", "allow"}
    PROVE  IInv'
<1> USE DEF IInv
<1>1. \A d \in Call : calls'[d] = IF d = c THEN l ELSE calls[d]
  BY DEF Shapes
<1>2. Stored' = Stored
  BY DEF Stored
<1>3. TypeOK'
  BY <1>1, <1>2 DEF TypeOK, Local
<1>4. Shapes'
  BY <1>2 DEF Shapes
<1>5. DeferredIsRefused'
  BY <1>1 DEF DeferredIsRefused, NeverAccepted, PolicyReads, PolicyExpiry
<1> QED
  BY <1>3, <1>4, <1>5

(* A payment is deferred only for what the parsers refuse.                 *)
LEMMA DecideKeeps ==
    ASSUME IInv, NEW c \in Call, NEW body \in Body, Decide(c, body)
    PROVE  IInv'
<1> DEFINE l == [pc |-> IF Plan(body) = "deny" THEN "denied" ELSE "create",
                 body |-> body, plan |-> Plan(body)]
<1>1. /\ Plan(body) \in {"skip", "defer", "deny", "allow"}
      /\ Plan(body) = "defer" => NeverAccepted(body)
  BY DEF Plan, NeverAccepted
<1>2. /\ l \in Local /\ l.plan = Plan(body) /\ l.body = body
      /\ l.pc # "stored" /\ (l.pc = "create" => Plan(body) # "deny")
  BY <1>1 DEF Local
<1>3. calls' = [calls EXCEPT ![c] = l] /\ UNCHANGED <<now, records>>
  BY DEF Decide
<1> HIDE DEF l
<1> QED
  BY <1>1, <1>2, <1>3, CallStep

LEMMA CreateRequestKeeps ==
    ASSUME IInv, NEW c \in Call, CreateRequest(c)
    PROVE  IInv'
<1> DEFINE k == calls[c]
           pc == IF Accepts(k.body) /\ k.body.signed THEN "stored" ELSE "refused"
           l == [k EXCEPT !.pc = pc]
<1>1. /\ k \in Local
      /\ \/ k.plan \in {"skip", "allow"}
         \/ k.plan = "defer" /\ NeverAccepted(k.body)
  BY DEF CreateRequest, IInv, DeferredIsRefused, Idle
<1>2. /\ pc \in {"stored", "refused"}
      /\ pc = "stored" => k.plan \in {"skip", "allow"}
  <2>1. now \in Nat /\ k.body \in Body
    BY <1>1 DEF IInv, Shapes, Local
  <2>2. NeverAccepted(k.body) => ~Accepts(k.body)
    BY <2>1, RefusedForGood
  <2> QED
    BY <1>1, <2>2
<1>3. calls' = [calls EXCEPT ![c] = l] /\ UNCHANGED <<now, records>>
  BY DEF CreateRequest
<1> HIDE DEF pc, k
<1>4. l \in Local /\ l.pc = pc /\ l.plan = k.plan
  BY <1>1, <1>2 DEF Local
<1> HIDE DEF l
<1> QED
  BY <1>2, <1>3, <1>4, CallStep

LEMMA TickKeeps ==
    ASSUME IInv, Tick \/ UNCHANGED vars
    PROVE  IInv'
<1> USE DEF IInv
<1>1. now' \in 0 .. MaxTime /\ UNCHANGED <<records, calls>>
  BY PoliciesAssumption DEF Tick, vars, Shapes, PoliciesAssumption
<1>2. Stored' = Stored
  BY <1>1 DEF Stored
<1>3. TypeOK' /\ Shapes'
  BY <1>1, <1>2 DEF TypeOK, Shapes
<1>4. DeferredIsRefused'
  BY <1>1 DEF DeferredIsRefused, NeverAccepted, PolicyReads, PolicyExpiry
<1> QED
  BY <1>3, <1>4

LEMMA StepKeeps == IInv /\ [Next]_vars => IInv'
<1> SUFFICES ASSUME IInv, [Next]_vars PROVE IInv'
  OBVIOUS
<1>1. ASSUME NEW p \in PolicyId,
             \/ \E post \in Post : CreatePolicy(p, post)
             \/ \E patch \in Patch : UpdatePolicy(p, patch)
             \/ DeletePolicy(p)
      PROVE  IInv'
  BY <1>1, PolicyStepKeeps
<1>2. ASSUME NEW c \in Call, NEW body \in Body, Decide(c, body) PROVE IInv'
  BY <1>2, DecideKeeps
<1>3. ASSUME NEW c \in Call, CreateRequest(c) PROVE IInv'
  BY <1>3, CreateRequestKeeps
<1>4. CASE Tick \/ UNCHANGED vars
  BY <1>4, TickKeeps
<1> QED
  BY <1>1, <1>2, <1>3, <1>4 DEF Next

-----------------------------------------------------------------------------
(* Theorems.                                                               *)

(* Every stored policy constrains something, has a whole spend window, and *)
(* a merchant has no more of them than the limit.                          *)
THEOREM PoliciesTypeOK == Spec => []TypeOK
<1>1. IInv => TypeOK
  BY DEF IInv
<1> QED
  BY <1>1, InitIInv, StepKeeps, PTL DEF Spec

(* No machine payment is stored that the policies only deferred, whatever  *)
(* its body says and its policies become meanwhile.                        *)
THEOREM PoliciesStoredWasJudged == Spec => []StoredWasJudged
<1>1. IInv => StoredWasJudged
  BY DEF IInv, DeferredIsRefused, StoredWasJudged
<1> QED
  BY <1>1, InitIInv, StepKeeps, PTL DEF Spec

(* A patch loosens no rule that it does not name (mergePolicyRules).       *)
THEOREM PoliciesOmittedRulesStillDeny == Spec => OmittedRulesStillDeny
<1> DEFINE Kept(p) ==
        p \in Stored' /\ records'[p].rules # records[p].rules =>
            \E patch \in Patch :
                /\ records'[p].rules = MergePolicyRules(records[p].rules, patch.rules)
                /\ \A body \in Body : PolicyReads(body) =>
                      Denying(records[p].rules, body) \ Names(patch)
                          = Denying(records'[p].rules, body) \ Names(patch)
<1>1. IInv /\ [Next]_vars => [\A p \in Stored : Kept(p)]_vars
  <2> SUFFICES ASSUME IInv, Next, NEW p \in Stored, p \in Stored',
                      records'[p].rules # records[p].rules
               PROVE  \E patch \in Patch :
                /\ records'[p].rules = MergePolicyRules(records[p].rules, patch.rules)
                /\ \A body \in Body : PolicyReads(body) =>
                      Denying(records[p].rules, body) \ Names(patch)
                          = Denying(records'[p].rules, body) \ Names(patch)
    OBVIOUS
  <2>1. DOMAIN records = PolicyId /\ p \in PolicyId /\ records[p] # None
    BY DEF IInv, Shapes, Stored
  <2>2. records' # records
    OBVIOUS
  <2>3. PICK q \in PolicyId : \/ \E post \in Post : CreatePolicy(q, post)
                              \/ \E patch \in Patch : UpdatePolicy(q, patch)
                              \/ DeletePolicy(q)
    BY <2>2 DEF Next, Decide, CreateRequest, Tick
  <2>4. q = p
    BY <2>1, <2>3 DEF CreatePolicy, UpdatePolicy, DeletePolicy
  <2>5. \E patch \in Patch : UpdatePolicy(p, patch)
    BY <2>1, <2>3, <2>4 DEF CreatePolicy, DeletePolicy, Stored
  <2>6. PICK patch \in Patch : UpdatePolicy(p, patch)
    BY <2>5
  <2>7. records'[p].rules = MergePolicyRules(records[p].rules, patch.rules)
    BY <2>1, <2>6 DEF UpdatePolicy
  <2> QED
    BY <2>7, UnnamedStillDeny
<1> QED
  BY <1>1, InitIInv, StepKeeps, PTL DEF Spec, OmittedRulesStillDeny

-----------------------------------------------------------------------------
(* Fixed windows.  A history f counts, for each time of the clock, the     *)
(* requests that passed; From is the number of those since a time.         *)

From(f, M, x) == Total(f, {a \in 0 .. M : a >= x})
OneMore(f, a) == [f EXCEPT ![a] = @ + 1]

LEMMA TimesAreFinite ==
    ASSUME NEW M \in Nat, NEW S \in SUBSET (0 .. M) PROVE IsFiniteSet(S)
<1>1. IsFiniteSet(0 .. M)
  BY FS_Interval
<1> QED BY <1>1, FS_Subset

LEMMA TotalCounts ==
    ASSUME NEW M \in Nat, NEW f \in [0 .. M -> Nat], NEW a \in 0 .. M,
           NEW S \in SUBSET (0 .. M)
    PROVE  /\ OneMore(f, a) \in [0 .. M -> Nat]
           /\ Total(f, S) \in Nat
           /\ a \notin S => Total(OneMore(f, a), S) = Total(f, S)
           /\ a \in S => Total(OneMore(f, a), S) = Total(f, S) + 1
<1> DEFINE g == OneMore(f, a)
<1>1. g \in [0 .. M -> Nat] /\ g[a] = f[a] + 1 /\ \A b \in 0 .. M : b # a => g[b] = f[b]
  BY DEF OneMore
<1>2. IsFiniteSet(S) /\ IsFiniteSet(S \ {a})
  <2>1. S \ {a} \in SUBSET (0 .. M)
    OBVIOUS
  <2> QED BY <2>1, TimesAreFinite
<1> HIDE DEF g
<1>3. \A b \in S : f[b] \in Nat /\ g[b] \in Nat
  BY <1>1
<1>4. Total(f, S) \in Nat
  BY <1>2, <1>3, TotalNat
<1>5. ASSUME a \notin S PROVE Total(g, S) = Total(f, S)
  <2>1. \A b \in S : g[b] \in Nat /\ g[b] = f[b]
    BY <1>1, <1>5
  <2> QED BY <2>1, <1>2, TotalSame
<1>6. ASSUME a \in S PROVE Total(g, S) = Total(f, S) + 1
  <2>1. Total(g, S) = g[a] + Total(g, S \ {a})
    BY <1>2, <1>3, <1>6, TotalTakesOut
  <2>2. Total(f, S) = f[a] + Total(f, S \ {a})
    BY <1>2, <1>3, <1>6, TotalTakesOut
  <2>3. \A b \in S \ {a} : g[b] \in Nat /\ g[b] = f[b]
    BY <1>1
  <2>4. Total(g, S \ {a}) = Total(f, S \ {a})
    BY <2>3, <1>2, TotalSame
  <2>5. \A b \in S \ {a} : f[b] \in Nat
    BY <1>1
  <2>6. Total(f, S \ {a}) \in Nat
    BY <2>5, <1>2, TotalNat
  <2> QED BY <2>1, <2>2, <2>4, <2>6, <1>1
<1> QED BY <1>1, <1>4, <1>5, <1>6 DEF g

LEMMA SmallerSet ==
    ASSUME NEW M \in Nat, NEW f \in [0 .. M -> Nat],
           NEW S \in SUBSET (0 .. M), NEW R \in SUBSET S
    PROVE  Total(f, R) <= Total(f, S) /\ Total(f, R) \in Nat /\ Total(f, S) \in Nat
<1>1. IsFiniteSet(S) /\ IsFiniteSet(R)
  <2>1. R \in SUBSET (0 .. M)
    OBVIOUS
  <2> QED BY <2>1, TimesAreFinite
<1>2. \A b \in S : f[b] \in Nat /\ f[b] <= f[b]
  OBVIOUS
<1>3. \A b \in R : f[b] \in Nat /\ f[b] <= f[b]
  OBVIOUS
<1>4. Total(f, R) <= Total(f, S)
  BY <1>1, <1>2, <1>3, TotalGrows
<1>5. Total(f, R) \in Nat
  BY <1>1, <1>3, TotalNat
<1>6. Total(f, S) \in Nat
  BY <1>1, <1>2, TotalNat
<1> QED BY <1>4, <1>5, <1>6

(* What the limiter ensures with a window that opened at s and counted n   *)
(* requests: none passed after it, n in it, and at most the limit in each  *)
(* of the two window lengths before it.                                    *)
Paced(f, M, W, L, s, n) ==
    /\ \A a \in 0 .. M : a >= s + W => f[a] = 0
    /\ From(f, M, s) <= n
    /\ From(f, M, s - W) <= n + L
    /\ From(f, M, s - 2 * W) <= n + 2 * L

LEMMA FromCounts ==
    ASSUME NEW M \in Nat, NEW f \in [0 .. M -> Nat], NEW a \in 0 .. M, NEW x \in Int
    PROVE  /\ From(f, M, x) \in Nat
           /\ From(OneMore(f, a), M, x) \in Nat
           /\ From(OneMore(f, a), M, x) <= From(f, M, x) + 1
<1> DEFINE S == {b \in 0 .. M : b >= x}
<1>1. From(f, M, x) = Total(f, S) /\ From(OneMore(f, a), M, x) = Total(OneMore(f, a), S)
  BY DEF From
<1>2. S \in SUBSET (0 .. M)
  OBVIOUS
<1> HIDE DEF S
<1>3. /\ Total(f, S) \in Nat
      /\ a \notin S => Total(OneMore(f, a), S) = Total(f, S)
      /\ a \in S => Total(OneMore(f, a), S) = Total(f, S) + 1
  BY <1>2, TotalCounts
<1> QED BY <1>1, <1>3

LEMMA NextFrom ==
    ASSUME NEW M \in Nat, NEW f \in [0 .. M -> Nat], NEW x \in Int, NEW y \in Int
    PROVE  From(f, M, x) \in Nat /\ (y >= x => From(f, M, y) <= From(f, M, x))
<1> DEFINE S(z) == {b \in 0 .. M : b >= z}
<1>1. Total(f, S(x)) \in Nat
  BY SmallerSet
<1>2. ASSUME y >= x PROVE Total(f, S(y)) <= Total(f, S(x))
  <2>1. S(y) \in SUBSET S(x)
    BY <1>2
  <2> QED BY <2>1, SmallerSet
<1> QED BY <1>1, <1>2 DEF From

LEMMA PacedCounts ==
    ASSUME NEW M \in Nat, NEW f \in [0 .. M -> Nat], NEW W \in Nat \ {0}, NEW L \in Nat,
           NEW s \in Int, NEW n \in Nat, Paced(f, M, W, L, s, n),
           NEW a \in 0 .. M, a < s + W
    PROVE  Paced(OneMore(f, a), M, W, L, s, n + 1)
<1>1. \A b \in 0 .. M : b >= s + W => OneMore(f, a)[b] = 0
  BY DEF Paced, OneMore
<1> DEFINE x == s - W  y == s - 2 * W
<1>2. x \in Int /\ y \in Int
  OBVIOUS
<1> HIDE DEF x, y
<1>a. /\ From(f, M, s) \in Nat /\ From(OneMore(f, a), M, s) \in Nat
      /\ From(OneMore(f, a), M, s) <= From(f, M, s) + 1
  BY FromCounts
<1>b. /\ From(f, M, x) \in Nat /\ From(OneMore(f, a), M, x) \in Nat
      /\ From(OneMore(f, a), M, x) <= From(f, M, x) + 1
  BY <1>2, FromCounts
<1>c. /\ From(f, M, y) \in Nat /\ From(OneMore(f, a), M, y) \in Nat
      /\ From(OneMore(f, a), M, y) <= From(f, M, y) + 1
  BY <1>2, FromCounts
<1>3. /\ From(f, M, s) <= n
      /\ From(f, M, x) <= n + L
      /\ From(f, M, y) <= n + 2 * L
  BY DEF Paced, x, y
<1>4. From(OneMore(f, a), M, s) <= n + 1
  BY <1>a, <1>3
<1>5. From(OneMore(f, a), M, x) <= n + 1 + L
  BY <1>b, <1>3
<1>6. From(OneMore(f, a), M, y) <= n + 1 + 2 * L
  BY <1>c, <1>3
<1> QED BY <1>1, <1>4, <1>5, <1>6 DEF Paced, x, y

LEMMA NoneFrom ==
    ASSUME NEW M \in Nat, NEW f, NEW x \in Int,
           \A b \in 0 .. M : b >= x => f[b] = 0
    PROVE  From(f, M, x) = 0
<1> DEFINE S == {b \in 0 .. M : b >= x}
<1>1. S \in SUBSET (0 .. M) /\ \A b \in S : f[b] = 0
  OBVIOUS
<1> HIDE DEF S
<1>2. IsFiniteSet(S)
  BY <1>1, TimesAreFinite
<1>3. Total(f, S) = 0
  BY <1>1, <1>2, TotalOfZeros
<1> QED BY <1>3 DEF From, S

(* The window is over, and a request at a opens the next one.              *)
LEMMA PacedOpens ==
    ASSUME NEW M \in Nat, NEW f \in [0 .. M -> Nat], NEW W \in Nat \ {0}, NEW L \in Nat,
           NEW s \in Int, NEW n \in Nat, n <= L, Paced(f, M, W, L, s, n),
           NEW a \in 0 .. M, a >= s + W
    PROVE  Paced(OneMore(f, a), M, W, L, a, 1)
<1> DEFINE x == s - W  y == a - W  z == a - 2 * W
<1>1. x \in Int /\ y \in Int /\ z \in Int /\ s <= y /\ x <= z
  OBVIOUS
<1>2. \A b \in 0 .. M : b >= a + W => OneMore(f, a)[b] = 0
  <2>1. \A b \in 0 .. M : b >= a + W => b >= s + W /\ b # a
    OBVIOUS
  <2> QED BY <2>1 DEF Paced, OneMore
<1> HIDE DEF x, y, z
<1>3. From(f, M, s) <= n /\ From(f, M, x) <= n + L
  BY DEF Paced, x
<1>4. From(f, M, a) = 0
  <2>1. \A b \in 0 .. M : b >= a => f[b] = 0
    BY DEF Paced
  <2> QED BY <2>1, NoneFrom
<1>5. /\ From(OneMore(f, a), M, a) \in Nat
      /\ From(OneMore(f, a), M, a) <= From(f, M, a) + 1
  <2>1. a \in Int
    OBVIOUS
  <2> QED BY <2>1, FromCounts
<1>6. /\ From(f, M, y) \in Nat /\ From(OneMore(f, a), M, y) \in Nat
      /\ From(OneMore(f, a), M, y) <= From(f, M, y) + 1
  BY <1>1, FromCounts
<1>7. /\ From(f, M, z) \in Nat /\ From(OneMore(f, a), M, z) \in Nat
      /\ From(OneMore(f, a), M, z) <= From(f, M, z) + 1
  BY <1>1, FromCounts
<1>8. From(f, M, s) \in Nat /\ From(f, M, y) <= From(f, M, s)
  BY <1>1, NextFrom
<1>9. From(f, M, x) \in Nat /\ From(f, M, z) <= From(f, M, x)
  BY <1>1, NextFrom
<1>10. From(OneMore(f, a), M, a) <= 1
  BY <1>4, <1>5
<1>11. From(OneMore(f, a), M, y) <= 1 + L
  BY <1>3, <1>6, <1>8
<1>12. From(OneMore(f, a), M, z) <= 1 + 2 * L
  BY <1>3, <1>7, <1>9
<1> QED BY <1>2, <1>10, <1>11, <1>12 DEF Paced, y, z

(* No length of a window that starts less than one window before s holds   *)
(* more than twice the limit, nor an earlier one more than three times.    *)
LEMMA PacedBounds ==
    ASSUME NEW M \in Nat, NEW f \in [0 .. M -> Nat], NEW W \in Nat \ {0}, NEW L \in Nat,
           NEW s \in Int, NEW n \in Nat, n <= L, Paced(f, M, W, L, s, n),
           NEW t \in Int, t >= s - 2 * W
    PROVE  LET span == Total(f, (0 .. M) \cap (t .. t + W - 1))
           IN  /\ span \in Nat
               /\ span <= 3 * L
               /\ t >= s - W => span <= 2 * L
<1> DEFINE x == s - W  y == s - 2 * W
           R == (0 .. M) \cap (t .. t + W - 1)
           S == {b \in 0 .. M : b >= t}
<1>1. x \in Int /\ y \in Int
  OBVIOUS
<1>2. R \in SUBSET S /\ S \in SUBSET (0 .. M)
  OBVIOUS
<1>3. Total(f, R) <= Total(f, S) /\ Total(f, R) \in Nat /\ Total(f, S) \in Nat
  BY <1>2, SmallerSet
<1>4. From(f, M, y) \in Nat /\ From(f, M, t) <= From(f, M, y)
  BY <1>1, NextFrom
<1>5. From(f, M, x) \in Nat /\ (t >= x => From(f, M, t) <= From(f, M, x))
  BY <1>1, NextFrom
<1>6. From(f, M, x) <= n + L /\ From(f, M, y) <= n + 2 * L
  BY DEF Paced
<1>t. Total(f, S) = From(f, M, t)
  BY DEF From
<1> HIDE DEF R, S
<1>7. Total(f, R) <= 3 * L /\ (t >= s - W => Total(f, R) <= 2 * L)
  <2> HIDE DEF x, y
  <2>1. Total(f, R) <= n + 2 * L
    BY <1>1, <1>3, <1>4, <1>6, <1>t
  <2>2. t >= x => Total(f, R) <= n + L
    BY <1>1, <1>3, <1>5, <1>6, <1>t
  <2> QED BY <1>3, <2>1, <2>2 DEF x
<1> QED BY <1>3, <1>7 DEF R

LEMMA PacedMore ==
    ASSUME NEW M \in Nat, NEW f \in [0 .. M -> Nat], NEW W \in Nat \ {0}, NEW L \in Nat,
           NEW s \in Int, NEW n \in Nat, n <= L, Paced(f, M, W, L, s, n)
    PROVE  Paced(f, M, W, L, s, L)
<1> DEFINE x == s - W  y == s - 2 * W
<1>1. x \in Int /\ y \in Int
  OBVIOUS
<1> HIDE DEF x, y
<1>2. From(f, M, s) \in Nat /\ From(f, M, x) \in Nat /\ From(f, M, y) \in Nat
  BY <1>1, NextFrom
<1>3. /\ From(f, M, s) <= n
      /\ From(f, M, x) <= n + L
      /\ From(f, M, y) <= n + 2 * L
  BY DEF Paced, x, y
<1>4. /\ From(f, M, s) <= L
      /\ From(f, M, x) <= L + L
      /\ From(f, M, y) <= L + 2 * L
  BY <1>2, <1>3
<1> QED BY <1>4 DEF Paced, x, y

(* Before anything passed, as after a window that is long over.            *)
LEMMA NonePaced ==
    ASSUME NEW M \in Nat, NEW W \in Nat \ {0}, NEW L \in Nat, NEW n \in Nat, NEW s \in Int
    PROVE  LET zero == [t \in 0 .. M |-> 0]
           IN  /\ Paced(zero, M, W, L, s, n)
               /\ \A S \in SUBSET (0 .. M) : Total(zero, S) = 0
<1> DEFINE zero == [t \in 0 .. M |-> 0]
<1>1. \A b \in 0 .. M : zero[b] = 0
  OBVIOUS
<1> DEFINE x == s - W  y == s - 2 * W
<1>2. x \in Int /\ y \in Int
  OBVIOUS
<1> HIDE DEF zero, x, y
<1>3. From(zero, M, s) = 0 /\ From(zero, M, x) = 0 /\ From(zero, M, y) = 0
  BY <1>1, <1>2, NoneFrom
<1>4. Paced(zero, M, W, L, s, n)
  BY <1>1, <1>3 DEF Paced, x, y
<1>5. ASSUME NEW S \in SUBSET (0 .. M) PROVE Total(zero, S) = 0
  <2>1. IsFiniteSet(S)
    BY TimesAreFinite
  <2> QED BY <1>1, <2>1, TotalOfZeros
<1> QED BY <1>4, <1>5 DEF zero

-----------------------------------------------------------------------------
(* The instances' copies of the operators on sets.                         *)

LEMMA KeysSets ==
    ASSUME NEW S, NEW f
    PROVE  /\ Keys!IsFiniteSet(S) = IsFiniteSet(S)
           /\ Keys!Cardinality(S) = Cardinality(S)
           /\ Keys!Total(f, S) = Total(f, S)
<1>1. Keys!IsFiniteSet(S) = IsFiniteSet(S)
  BY DEF Keys!IsFiniteSet, IsFiniteSet
<1>2. Keys!Cardinality(S) = Cardinality(S)
  BY DEF Keys!Cardinality, Cardinality
<1>3. Keys!Total(f, S) = Total(f, S)
  BY DEF Keys!Total, Total, Keys!MapThenSumSet, MapThenSumSet,
         Keys!MapThenFoldSet, MapThenFoldSet
<1> QED BY <1>1, <1>2, <1>3

LEMMA LimitsSets ==
    ASSUME NEW S, NEW f
    PROVE  /\ Limits!IsFiniteSet(S) = IsFiniteSet(S)
           /\ Limits!Cardinality(S) = Cardinality(S)
           /\ Limits!Total(f, S) = Total(f, S)
<1>1. Limits!IsFiniteSet(S) = IsFiniteSet(S)
  BY DEF Limits!IsFiniteSet, IsFiniteSet
<1>2. Limits!Cardinality(S) = Cardinality(S)
  BY DEF Limits!Cardinality, Cardinality
<1>3. Limits!Total(f, S) = Total(f, S)
  BY DEF Limits!Total, Total, Limits!MapThenSumSet, MapThenSumSet,
         Limits!MapThenFoldSet, MapThenFoldSet
<1> QED BY <1>1, <1>2, <1>3

LEMMA ReportsSets ==
    ASSUME NEW S, NEW f
    PROVE  /\ Reports!IsFiniteSet(S) = IsFiniteSet(S)
           /\ Reports!Cardinality(S) = Cardinality(S)
           /\ Reports!Total(f, S) = Total(f, S)
<1>1. Reports!IsFiniteSet(S) = IsFiniteSet(S)
  BY DEF Reports!IsFiniteSet, IsFiniteSet
<1>2. Reports!Cardinality(S) = Cardinality(S)
  BY DEF Reports!Cardinality, Cardinality
<1>3. Reports!Total(f, S) = Total(f, S)
  BY DEF Reports!Total, Total, Reports!MapThenSumSet, MapThenSumSet,
         Reports!MapThenFoldSet, MapThenFoldSet
<1> QED BY <1>1, <1>2, <1>3

(* One more member.                                                        *)
LEMMA OneMember ==
    ASSUME NEW S, IsFiniteSet(S), NEW x
    PROVE  /\ IsFiniteSet(S \cup {x})
           /\ Cardinality(S \cup {x}) <= Cardinality(S) + 1
           /\ Cardinality(S \cup {x}) \in Nat
<1>1. /\ IsFiniteSet(S \cup {x})
      /\ x \in S \/ Cardinality(S \cup {x}) = Cardinality(S) + 1
  BY FS_AddElement
<1>2. Cardinality(S) \in Nat /\ Cardinality(S \cup {x}) \in Nat
  BY <1>1, FS_CardinalityType
<1>3. x \in S => S \cup {x} = S
  OBVIOUS
<1> QED BY <1>1, <1>2, <1>3

-----------------------------------------------------------------------------
(* The keys.                                                               *)

(* A request carries the time it arrived, and takes no longer than it may; *)
(* a row is written back under the key it was listed from.                 *)
RequestsInTime ==
    \A h \in Handler :
        /\ handler[h].pc \in {"list", "note", "touch"} =>
               handler[h].at <= keyNow /\ keyNow <= handler[h].at + MaxDuration
        /\ handler[h].pc \in {"write", "note", "touch"} => handler[h].key \in Keys!Stored

KeyShapes == Keys!TypeOK /\ RequestsInTime

LEMMA KeyAssumptions ==
    /\ KeyWindow \in Nat \ {0} /\ NoBucket \notin [start : Nat, count : Nat]
    /\ MaxActive \in Nat /\ MaxStored \in Nat /\ KeyLimit \in Nat \ {0} /\ PreAuthLimit \in Nat
    /\ TouchInterval \in Nat /\ MaxDuration \in Nat /\ MaxSecrets \in Nat /\ KeyTime \in Nat
    /\ None \notin Nat /\ None \notin Keys!Row
    /\ MaxDuration <= KeyWindow /\ IsFiniteSet(Key)
<1>1. Keys!WindowAssumption /\ Keys!KeysAssumption
  BY ApiAssumption DEF ApiAssumption
<1>2. KeyWindow \in Nat \ {0} /\ NoBucket \notin [start : Nat, count : Nat]
  BY <1>1 DEF Keys!WindowAssumption
<1>3. /\ {MaxActive, MaxStored, PreAuthLimit, KeyLimit} \subseteq Nat \ {0}
      /\ {TouchInterval, MaxDuration, MaxSecrets, KeyTime} \subseteq Nat
      /\ None \notin Nat \cup Keys!Row
      /\ MaxDuration <= KeyWindow /\ IsFiniteSet(Key)
  BY <1>1, KeysSets DEF Keys!KeysAssumption
<1> QED BY <1>2, <1>3

LEMMA RowUpdates ==
    ASSUME NEW row \in Keys!Row
    PROVE  /\ \A e \in BOOLEAN : [row EXCEPT !.enabled = e] \in Keys!Row
           /\ \A s \in Keys!Secret : [row EXCEPT !.secret = s] \in Keys!Row
           /\ \A t \in Keys!Time : [row EXCEPT !.lastUsedAt = t] \in Keys!Row
           /\ Keys!Revoked(row) \in Keys!Row
<1>1. \A e \in BOOLEAN : [row EXCEPT !.enabled = e] \in Keys!Row
  BY DEF Keys!Row
<1>2. \A s \in Keys!Secret : [row EXCEPT !.secret = s] \in Keys!Row
  BY DEF Keys!Row
<1>3. \A t \in Keys!Time : [row EXCEPT !.lastUsedAt = t] \in Keys!Row
  BY DEF Keys!Row
<1>4. Keys!Revoked(row) \in Keys!Row
  BY DEF Keys!Row, Keys!Revoked
<1> QED BY <1>1, <1>2, <1>3, <1>4

LEMMA HandlerPut ==
    ASSUME handler \in [Handler -> Keys!Local], NEW h \in Handler,
           NEW l \in Keys!Local, Keys!Put(h, l)
    PROVE  /\ handler' \in [Handler -> Keys!Local]
           /\ handler'[h] = l
           /\ \A g \in Handler : g # h => handler'[g] = handler[g]
  BY DEF Keys!Put

(* A request that is put in another state leaves the others in time.       *)
LEMMA InTimePut ==
    ASSUME KeyShapes, NEW h \in Handler, NEW l \in Keys!Local, Keys!Put(h, l),
           keyNow' = keyNow, Keys!Stored \in SUBSET (Keys!Stored)',
           l.pc \in {"list", "note", "touch"} =>
               l.at <= keyNow /\ keyNow <= l.at + MaxDuration,
           l.pc \in {"write", "note", "touch"} => l.key \in (Keys!Stored)'
    PROVE  RequestsInTime'
<1>1. handler \in [Handler -> Keys!Local]
  BY DEF KeyShapes, Keys!TypeOK
<1>2. /\ handler' \in [Handler -> Keys!Local]
      /\ handler'[h] = l
      /\ \A g \in Handler : g # h => handler'[g] = handler[g]
  BY <1>1, HandlerPut
<1>3. SUFFICES ASSUME NEW g \in Handler
      PROVE  /\ handler'[g].pc \in {"list", "note", "touch"} =>
                   handler'[g].at <= keyNow /\ keyNow <= handler'[g].at + MaxDuration
             /\ handler'[g].pc \in {"write", "note", "touch"} => handler'[g].key \in (Keys!Stored)'
  BY Zenon DEF RequestsInTime
<1>4. CASE g = h
  BY <1>2, <1>4
<1>5. CASE g # h
  <2>1. handler'[g] = handler[g]
    BY <1>2, <1>5
  <2> QED BY <2>1 DEF KeyShapes, RequestsInTime
<1> QED BY <1>4, <1>5

LEMMA StoredGrows ==
    ASSUME keys \in [Key -> Keys!Row \cup {None}], NEW k \in Key, NEW row \in Keys!Row,
           None \notin Keys!Row, keys' = [keys EXCEPT ![k] = row]
    PROVE  /\ keys' \in [Key -> Keys!Row \cup {None}]
           /\ (Keys!Stored)' = Keys!Stored \cup {k}
  BY DEF Keys!Stored

LEMMA CountsAreTyped ==
    ASSUME NEW bucket \in Keys!Bucket(Keys!Time, Nat), NEW time \in Keys!Time
    PROVE  Keys!Counted(bucket, time) \in Keys!Bucket(Keys!Time, Nat)
<1>1. CASE Keys!InBucket(bucket, time)
  <2>1. bucket \in [start : Keys!Time, count : Nat]
    BY <1>1 DEF Keys!InBucket, Keys!Bucket
  <2> QED BY <1>1, <2>1 DEF Keys!Counted, Keys!Bucket
<1>2. CASE ~Keys!InBucket(bucket, time)
  BY <1>2 DEF Keys!Counted, Keys!Bucket
<1> QED BY <1>1, <1>2

LEMMA LocalFields ==
    ASSUME NEW l \in Keys!Local
    PROVE  /\ l.pc \in {"create", "write"} => l.key \in Key /\ l.row \in Keys!Row
           /\ l.pc \in {"list", "note", "touch"} =>
                  l.at \in Keys!Time /\ l.secret \in Keys!Secret
           /\ l.pc = "list" => l.class \in RouteClass
           /\ l.pc \in {"note", "touch"} => l.key \in Key
  BY DEF Keys!Local, Keys!Idle

(* The merchant's requests.                                                *)
LEMMA ManageShapes ==
    ASSUME KeyShapes, NEW h \in Handler, Keys!Manage(h)
    PROVE  KeyShapes'
<1> USE KeyAssumptions
<1>0. /\ keyNow \in Keys!Time
      /\ keys \in [Key -> Keys!Row \cup {None}]
      /\ issued \in 0 .. MaxSecrets
      /\ handler \in [Handler -> Keys!Local]
      /\ preAuth \in [Keys!Secret -> Keys!Bucket(Keys!Time, Nat)]
      /\ rate \in [Key -> [RouteClass -> Keys!Bucket(Keys!Time, Nat)]]
      /\ touched \in [Key -> Keys!Time \cup {None}]
      /\ passed \in [Key -> [RouteClass -> [Keys!Time -> Nat]]]
      /\ undone \in SUBSET Key
  BY DEF KeyShapes, Keys!TypeOK
<1>l. \A k \in Keys!Stored : k \in Key /\ keys[k] \in Keys!Row
  BY <1>0 DEF Keys!Stored
<1> DEFINE Steps(l) ==
             /\ l \in Keys!Local /\ Keys!Put(h, l)
             /\ l.pc \in {"idle", "create", "write"}
             /\ l.pc = "write" => l.key \in (Keys!Stored)'
             /\ Keys!Stored \in SUBSET (Keys!Stored)'
             /\ keyNow' = keyNow
             /\ keys' \in [Key -> Keys!Row \cup {None}]
             /\ issued' \in 0 .. MaxSecrets
             /\ UNCHANGED Keys!limits
             /\ passed' = passed
             /\ undone' \in SUBSET Key
<1>1. ASSUME NEW l, Steps(l) PROVE KeyShapes'
  <2>1. RequestsInTime'
    BY <1>1, InTimePut
  <2>2. handler' \in [Handler -> Keys!Local]
    BY <1>0, <1>1, HandlerPut
  <2>3. Keys!TypeOK'
    BY <1>0, <1>1, <2>2 DEF Keys!TypeOK, Keys!limits
  <2> QED BY <2>1, <2>3 DEF KeyShapes
<1> HIDE DEF Steps
<1>2. ASSUME NEW k \in Key, NEW t \in Keys!Time \cup {None}, Keys!CreateApiKey(h, k, t)
      PROVE  \E l : Steps(l)
  <2> DEFINE row == [secret |-> issued', enabled |-> TRUE, revoked |-> FALSE,
                     expiresAt |-> t, lastUsedAt |-> None]
             l == [pc |-> "create", key |-> k, row |-> row]
  <2>1. issued' \in 0 .. MaxSecrets /\ issued' \in Keys!Secret
    BY <1>0, <1>2 DEF Keys!CreateApiKey, Keys!Secret
  <2>2. row \in Keys!Row
    BY <2>1 DEF Keys!Row
  <2>3. l \in Keys!Local /\ l.pc = "create"
    BY <2>2 DEF Keys!Local
  <2>4. Keys!Put(h, l) /\ UNCHANGED <<keyNow, keys, Keys!limits, Keys!history>>
    BY <1>2 DEF Keys!CreateApiKey
  <2> HIDE DEF l
  <2>5. Steps(l)
    BY <1>0, <2>1, <2>3, <2>4 DEF Steps, Keys!Stored, Keys!history
  <2> QED BY <2>5
<1>3. ASSUME NEW k \in Key, NEW l, l \in Keys!Local, l.pc = "write", l.key = k,
             k \in Keys!Stored, Keys!Put(h, l), issued' \in 0 .. MaxSecrets,
             UNCHANGED <<keyNow, keys, Keys!limits, Keys!history>>
      PROVE  Steps(l)
  BY <1>0, <1>3 DEF Steps, Keys!Stored, Keys!history
<1>4. ASSUME NEW k \in Key, NEW e \in BOOLEAN, Keys!UpdateApiKey(h, k, e)
      PROVE  \E l : Steps(l)
  <2> DEFINE row == [keys[k] EXCEPT !.enabled = e]
             l == [pc |-> "write", key |-> k, row |-> row]
  <2>1. k \in Keys!Stored
    BY <1>4 DEF Keys!UpdateApiKey, Keys!Active
  <2>2. row \in Keys!Row
    BY <2>1, <1>l, RowUpdates
  <2>3. l \in Keys!Local /\ l.pc = "write" /\ l.key = k
    BY <2>2 DEF Keys!Local
  <2>4. Keys!Put(h, l) /\ UNCHANGED <<keyNow, keys, issued, Keys!limits, Keys!history>>
    BY <1>4 DEF Keys!UpdateApiKey
  <2> HIDE DEF l
  <2> QED BY <1>0, <1>3, <2>1, <2>3, <2>4
<1>5. ASSUME NEW k \in Key, Keys!DeleteApiKey(h, k) PROVE \E l : Steps(l)
  <2> DEFINE row == Keys!Revoked(keys[k])
             l == [pc |-> "write", key |-> k, row |-> row]
  <2>1. k \in Keys!Stored
    BY <1>5 DEF Keys!DeleteApiKey
  <2>2. row \in Keys!Row
    BY <2>1, <1>l, RowUpdates
  <2>3. l \in Keys!Local /\ l.pc = "write" /\ l.key = k
    BY <2>2 DEF Keys!Local
  <2>4. Keys!Put(h, l) /\ UNCHANGED <<keyNow, keys, issued, Keys!limits, Keys!history>>
    BY <1>5 DEF Keys!DeleteApiKey
  <2> HIDE DEF l
  <2> QED BY <1>0, <1>3, <2>1, <2>3, <2>4
<1>6. ASSUME NEW k \in Key, Keys!RotateApiKey(h, k) PROVE \E l : Steps(l)
  <2> DEFINE row == [keys[k] EXCEPT !.secret = issued']
             l == [pc |-> "write", key |-> k, row |-> row]
  <2>1. k \in Keys!Stored /\ issued' \in 0 .. MaxSecrets /\ issued' \in Keys!Secret
    BY <1>0, <1>6 DEF Keys!RotateApiKey, Keys!Active, Keys!Secret
  <2>2. row \in Keys!Row
    BY <2>1, <1>l, RowUpdates
  <2>3. l \in Keys!Local /\ l.pc = "write" /\ l.key = k
    BY <2>2 DEF Keys!Local
  <2>4. Keys!Put(h, l) /\ UNCHANGED <<keyNow, keys, Keys!limits, Keys!history>>
    BY <1>6 DEF Keys!RotateApiKey
  <2> HIDE DEF l
  <2> QED BY <1>3, <2>1, <2>3, <2>4
<1>i. Keys!Idle \in Keys!Local /\ Keys!Idle.pc = "idle"
  BY DEF Keys!Local, Keys!Idle
<1>7. ASSUME Keys!CreateKey(h) PROVE Steps(Keys!Idle)
  <2>1. handler[h].key \in Key /\ handler[h].row \in Keys!Row
    BY <1>0, <1>7, LocalFields DEF Keys!CreateKey
  <2>2. /\ keys' = [keys EXCEPT ![handler[h].key] = handler[h].row]
        /\ Keys!Put(h, Keys!Idle)
        /\ UNCHANGED <<keyNow, issued, Keys!limits, Keys!history>>
    BY <1>7 DEF Keys!CreateKey
  <2>3. /\ keys' \in [Key -> Keys!Row \cup {None}]
        /\ (Keys!Stored)' = Keys!Stored \cup {handler[h].key}
    BY <1>0, <2>1, <2>2, StoredGrows
  <2> QED BY <1>0, <1>i, <2>2, <2>3 DEF Steps, Keys!history
<1>8. ASSUME Keys!UpsertKey(h) PROVE Steps(Keys!Idle)
  <2>1. handler[h].key \in Key /\ handler[h].row \in Keys!Row
    BY <1>0, <1>8, LocalFields DEF Keys!UpsertKey
  <2>2. /\ keys' = [keys EXCEPT ![handler[h].key] = handler[h].row]
        /\ Keys!Put(h, Keys!Idle)
        /\ UNCHANGED <<keyNow, issued, Keys!limits, passed>>
        /\ undone' \in {undone, undone \cup {handler[h].key}}
    BY <1>8 DEF Keys!UpsertKey
  <2>3. /\ keys' \in [Key -> Keys!Row \cup {None}]
        /\ (Keys!Stored)' = Keys!Stored \cup {handler[h].key}
    BY <1>0, <2>1, <2>2, StoredGrows
  <2>4. undone' \in SUBSET Key
    BY <1>0, <2>1, <2>2
  <2> QED BY <1>0, <1>i, <2>2, <2>3, <2>4 DEF Steps
<1> QED BY <1>1, <1>2, <1>4, <1>5, <1>6, <1>7, <1>8 DEF Keys!Manage

(* The requests that carry a key, and the clock.                           *)
LEMMA AuthenticateShapes ==
    ASSUME KeyShapes, NEW h \in Handler,
           Keys!Authenticate(h) \/ Keys!Refuse(h)
    PROVE  KeyShapes'
<1> USE KeyAssumptions
<1>0. /\ keyNow \in Keys!Time
      /\ keys \in [Key -> Keys!Row \cup {None}]
      /\ issued \in 0 .. MaxSecrets
      /\ handler \in [Handler -> Keys!Local]
      /\ preAuth \in [Keys!Secret -> Keys!Bucket(Keys!Time, Nat)]
      /\ rate \in [Key -> [RouteClass -> Keys!Bucket(Keys!Time, Nat)]]
      /\ touched \in [Key -> Keys!Time \cup {None}]
      /\ passed \in [Key -> [RouteClass -> [Keys!Time -> Nat]]]
      /\ undone \in SUBSET Key
  BY DEF KeyShapes, Keys!TypeOK
<1> DEFINE Steps(l) ==
             /\ l \in Keys!Local /\ Keys!Put(h, l)
             /\ l.pc \in {"idle", "list", "note", "touch"}
             /\ l.pc # "idle" => l.at <= keyNow /\ keyNow <= l.at + MaxDuration
             /\ l.pc \in {"note", "touch"} => l.key \in Keys!Stored
             /\ (Keys!Stored)' = Keys!Stored
             /\ keys' \in [Key -> Keys!Row \cup {None}]
             /\ preAuth' \in [Keys!Secret -> Keys!Bucket(Keys!Time, Nat)]
             /\ rate' \in [Key -> [RouteClass -> Keys!Bucket(Keys!Time, Nat)]]
             /\ touched' \in [Key -> Keys!Time \cup {None}]
             /\ passed' \in [Key -> [RouteClass -> [Keys!Time -> Nat]]]
             /\ UNCHANGED <<keyNow, issued, undone>>
<1>1. ASSUME NEW l, Steps(l) PROVE KeyShapes'
  <2>1. RequestsInTime'
    BY <1>1, InTimePut
  <2>2. handler' \in [Handler -> Keys!Local]
    BY <1>0, <1>1, HandlerPut
  <2>3. Keys!TypeOK'
    BY <1>0, <1>1, <2>2 DEF Keys!TypeOK
  <2> QED BY <2>1, <2>3 DEF KeyShapes
<1> HIDE DEF Steps
<1>i. Keys!Idle \in Keys!Local /\ Keys!Idle.pc = "idle"
  BY DEF Keys!Local, Keys!Idle
<1>a. ASSUME handler[h].pc \in {"list", "note", "touch"}
      PROVE  /\ handler[h].at \in Keys!Time /\ handler[h].secret \in Keys!Secret
             /\ handler[h].at <= keyNow /\ keyNow <= handler[h].at + MaxDuration
             /\ handler[h].pc # "list" => handler[h].key \in Keys!Stored
  BY <1>0, <1>a, LocalFields DEF KeyShapes, RequestsInTime
<1>2. ASSUME NEW secret \in Keys!Secret, NEW c \in RouteClass, Keys!Present(h, secret, c)
      PROVE  \E l : Steps(l)
  <2> DEFINE l == [pc |-> "list", at |-> keyNow, secret |-> secret, class |-> c]
  <2>1. l \in Keys!Local /\ l.pc = "list" /\ l.at = keyNow
    BY <1>0 DEF Keys!Local
  <2>2. /\ Keys!Put(h, l)
        /\ preAuth' = [preAuth EXCEPT ![secret] = Keys!Counted(@, keyNow)]
        /\ UNCHANGED <<keyNow, keys, issued, rate, touched, passed, undone>>
    BY <1>2 DEF Keys!Present, Keys!history
  <2> HIDE DEF l
  <2>3. preAuth' \in [Keys!Secret -> Keys!Bucket(Keys!Time, Nat)]
    BY <1>0, <2>2, CountsAreTyped
  <2>4. keyNow <= keyNow /\ keyNow <= keyNow + MaxDuration
    BY <1>0 DEF Keys!Time
  <2>5. Steps(l)
    BY <1>0, <2>1, <2>2, <2>3, <2>4 DEF Steps, Keys!Stored
  <2> QED BY <2>5
<1>3. ASSUME Keys!Check(h) PROVE \E l : Steps(l)
  <2> DEFINE me == handler[h]
  <2>0. me.pc = "list" /\ me.class \in RouteClass
    BY <1>0, <1>3, LocalFields DEF Keys!Check
  <2>1. PICK k \in Keys!Stored :
             /\ rate' = [rate EXCEPT ![k][me.class] =
                            Keys!Counted(rate[k][me.class], me.at)]
             /\ passed' = [passed EXCEPT ![k][me.class][me.at] = @ + 1]
             /\ Keys!Put(h, [pc |-> "note", at |-> me.at, secret |-> me.secret,
                             key |-> k])
    BY <1>3 DEF Keys!Check
  <2>2. UNCHANGED <<keyNow, keys, issued, preAuth, touched, undone>>
    BY <1>3 DEF Keys!Check
  <2>3. k \in Key
    BY DEF Keys!Stored
  <2>4. /\ me.at \in Keys!Time /\ me.secret \in Keys!Secret
        /\ me.at <= keyNow /\ keyNow <= me.at + MaxDuration
    BY <1>a, <2>0
  <2> DEFINE l == [pc |-> "note", at |-> me.at, secret |-> me.secret, key |-> k]
  <2>5. l \in Keys!Local /\ l.pc = "note" /\ l.at = me.at /\ l.key = k
    BY <2>3, <2>4 DEF Keys!Local
  <2>6. Keys!Counted(rate[k][me.class], me.at) \in Keys!Bucket(Keys!Time, Nat)
    BY <1>0, <2>0, <2>3, <2>4, CountsAreTyped
  <2>7. rate' \in [Key -> [RouteClass -> Keys!Bucket(Keys!Time, Nat)]]
    BY <1>0, <2>0, <2>1, <2>3, <2>6
  <2>8. passed' \in [Key -> [RouteClass -> [Keys!Time -> Nat]]]
    BY <1>0, <2>0, <2>1, <2>3, <2>4
  <2>9. Keys!Put(h, l)
    BY <2>1
  <2> HIDE DEF l, me
  <2>10. Steps(l)
    BY <1>0, <2>2, <2>4, <2>5, <2>7, <2>8, <2>9 DEF Steps, Keys!Stored
  <2> QED BY <2>10
<1>4. ASSUME Keys!NoteLastUsed(h) PROVE \E l : Steps(l)
  <2> DEFINE me == handler[h]
             touch == [pc |-> "touch", at |-> me.at, secret |-> me.secret, key |-> me.key]
             l == IF Keys!Recent(me.key, me.at) THEN Keys!Idle ELSE touch
  <2>1. me.pc = "note" /\ me \in Keys!Local /\ me.key \in Key /\ me.key \in Keys!Stored
    BY <1>0, <1>4, <1>a, LocalFields DEF Keys!NoteLastUsed
  <2>2. /\ me.at \in Keys!Time /\ me.secret \in Keys!Secret
        /\ me.at <= keyNow /\ keyNow <= me.at + MaxDuration
    BY <1>a, <2>1
  <2>3. touch \in Keys!Local /\ touch.pc = "touch" /\ touch.at = me.at
        /\ touch.key = me.key
    BY <2>1, <2>2 DEF Keys!Local
  <2>4. [me EXCEPT !.pc = "touch"] = touch
    BY <2>1 DEF Keys!Local, Keys!Idle
  <2>5. Keys!Put(h, l) /\ UNCHANGED <<keyNow, keys, issued, Keys!limits, Keys!history>>
    BY <1>4, <2>4 DEF Keys!NoteLastUsed
  <2>6. /\ l \in Keys!Local /\ l.pc \in {"idle", "touch"}
        /\ l.pc = "touch" => l.at = me.at /\ l.key = me.key
    BY <1>i, <2>3
  <2> HIDE DEF l, me, touch
  <2>7. Steps(l)
    BY <1>0, <2>1, <2>2, <2>5, <2>6 DEF Steps, Keys!Stored, Keys!limits, Keys!history
  <2> QED BY <2>7
<1>5. ASSUME Keys!TouchLastUsed(h) PROVE Steps(Keys!Idle)
  <2> DEFINE me == handler[h]
  <2>1. me.pc = "touch" /\ me.key \in Key /\ me.key \in Keys!Stored
    BY <1>0, <1>5, <1>a, LocalFields DEF Keys!TouchLastUsed
  <2>2. me.at \in Keys!Time
    BY <1>a, <2>1
  <2>3. /\ keys' = IF keys[me.key].revoked \/ ~keys[me.key].enabled THEN keys
                   ELSE [keys EXCEPT ![me.key].lastUsedAt = me.at]
        /\ touched' = [touched EXCEPT ![me.key] = me.at]
        /\ Keys!Put(h, Keys!Idle)
        /\ UNCHANGED <<keyNow, issued, preAuth, rate, passed, undone>>
    BY <1>5 DEF Keys!TouchLastUsed, Keys!history
  <2>4. touched' \in [Key -> Keys!Time \cup {None}]
    BY <1>0, <2>1, <2>2, <2>3
  <2> HIDE DEF me
  <2>5. /\ keys' \in [Key -> Keys!Row \cup {None}]
        /\ (Keys!Stored)' = Keys!Stored
    <3>1. keys[me.key] \in Keys!Row
      BY <1>0, <2>1 DEF Keys!Stored
    <3> DEFINE row == [keys[me.key] EXCEPT !.lastUsedAt = me.at]
    <3>2. row \in Keys!Row
      BY <2>2, <3>1, RowUpdates
    <3>3. keys' = keys \/ keys' = [keys EXCEPT ![me.key] = row]
      BY <2>3
    <3> HIDE DEF row
    <3>4. CASE keys' = keys
      BY <1>0, <3>4 DEF Keys!Stored
    <3>5. CASE keys' = [keys EXCEPT ![me.key] = row]
      <4>1. /\ keys' \in [Key -> Keys!Row \cup {None}]
            /\ (Keys!Stored)' = Keys!Stored \cup {me.key}
        BY <1>0, <2>1, <3>2, <3>5, StoredGrows
      <4> QED BY <2>1, <4>1
    <3> QED BY <3>3, <3>4, <3>5
  <2> QED BY <1>0, <1>i, <2>3, <2>4, <2>5 DEF Steps
<1>6. ASSUME Keys!Refuse(h) PROVE Steps(Keys!Idle)
  BY <1>0, <1>i, <1>6 DEF Keys!Refuse, Steps, Keys!Stored, Keys!limits, Keys!history
<1> QED BY <1>1, <1>2, <1>3, <1>4, <1>5, <1>6 DEF Keys!Authenticate

LEMMA KeyStepShapes ==
    ASSUME KeyShapes, [Keys!Next]_(Keys!vars) PROVE KeyShapes'
<1>1. CASE Keys!Tick
  <2>1. /\ keyNow \in 0 .. KeyTime /\ keyNow < KeyTime /\ keyNow' = keyNow + 1
        /\ \A h \in Handler : handler[h].pc \in {"list", "note", "touch"} =>
               keyNow < handler[h].at + MaxDuration
        /\ UNCHANGED <<keys, issued, handler, preAuth, rate, touched, passed, undone>>
    BY <1>1 DEF Keys!Tick, Keys!limits, Keys!history, KeyShapes, Keys!TypeOK, Keys!Time
  <2>2. keyNow' \in Keys!Time
    BY <2>1, KeyAssumptions DEF Keys!Time
  <2>3. Keys!TypeOK'
    BY <2>1, <2>2 DEF KeyShapes, Keys!TypeOK
  <2>4. (Keys!Stored)' = Keys!Stored
    BY <2>1 DEF Keys!Stored
  <2>5. ASSUME NEW h \in Handler, handler[h].pc \in {"list", "note", "touch"}
        PROVE  handler[h].at <= keyNow' /\ keyNow' <= handler[h].at + MaxDuration
    <3>1. handler[h].at \in 0 .. KeyTime
      BY <2>5, LocalFields DEF KeyShapes, Keys!TypeOK, Keys!Time
    <3> QED BY <2>1, <2>5, <3>1, KeyAssumptions DEF KeyShapes, RequestsInTime
  <2>6. RequestsInTime'
    BY <2>1, <2>4, <2>5 DEF KeyShapes, RequestsInTime
  <2> QED BY <2>3, <2>6 DEF KeyShapes
<1>2. CASE \E h \in Handler : Keys!Manage(h) \/ Keys!Authenticate(h) \/ Keys!Refuse(h)
  BY <1>2, ManageShapes, AuthenticateShapes
<1>3. CASE UNCHANGED Keys!vars
  <2>1. UNCHANGED <<keyNow, keys, issued, handler, preAuth, rate, touched, passed, undone>>
    BY <1>3 DEF Keys!vars, Keys!limits, Keys!history
  <2>2. (Keys!Stored)' = Keys!Stored
    BY <2>1 DEF Keys!Stored
  <2>3. Keys!TypeOK'
    BY <2>1 DEF KeyShapes, Keys!TypeOK
  <2>4. RequestsInTime'
    BY <2>1, <2>2 DEF KeyShapes, RequestsInTime
  <2> QED BY <2>3, <2>4 DEF KeyShapes
<1> QED BY <1>1, <1>2, <1>3 DEF Keys!Next

LEMMA KeyInitShapes == ASSUME Keys!Init PROVE KeyShapes
<1>1. /\ keyNow = 0 /\ issued = 0 /\ undone = {}
      /\ handler = [h \in Handler |-> Keys!Idle]
      /\ preAuth = [s \in Keys!Secret |-> NoBucket]
      /\ rate = [k \in Key |-> [c \in RouteClass |-> NoBucket]]
      /\ touched = [k \in Key |-> None]
      /\ passed = [k \in Key |-> [c \in RouteClass |-> [t \in Keys!Time |-> 0]]]
  BY DEF Keys!Init
<1>2. Keys!Idle \in Keys!Local /\ Keys!Idle.pc = "idle"
  BY DEF Keys!Local, Keys!Idle
<1>3. NoBucket \in Keys!Bucket(Keys!Time, Nat)
  BY DEF Keys!Bucket
<1>4. keyNow \in Keys!Time /\ issued \in 0 .. MaxSecrets
  BY <1>1, KeyAssumptions DEF Keys!Time
<1>r. Keys!RevokedBefore \in Keys!Row
  BY KeyAssumptions DEF Keys!RevokedBefore, Keys!Row, Keys!Secret
<1>k. keys \in [Key -> Keys!Row \cup {None}]
  <2>1. PICK old \in SUBSET Key :
            keys = [k \in Key |-> IF k \in old THEN Keys!RevokedBefore ELSE None]
    BY DEF Keys!Init
  <2> QED BY <1>r, <2>1
<1>5. Keys!TypeOK
  BY <1>1, <1>2, <1>3, <1>4, <1>k DEF Keys!TypeOK
<1>6. RequestsInTime
  BY <1>1, <1>2 DEF RequestsInTime
<1> QED BY <1>5, <1>6 DEF KeyShapes

(* A secret that is dead stays so: no step puts a row of it that is not    *)
(* revoked in the store or in a request.                                   *)
Gone(row, s) == row.secret = s => row.revoked

LEMMA DeadKeeps ==
    ASSUME NEW s \in Keys!Secret, Keys!Dead(s),
           issued \in Nat, issued' \in Nat, issued <= issued',
           \A k \in Key : \/ keys'[k] = keys[k]
                          \/ Gone(keys'[k], s),
           \A h \in Handler : \/ handler'[h] = handler[h]
                              \/ handler'[h].pc \in {"create", "write"} =>
                                     Gone(handler'[h].row, s)
    PROVE  Keys!Dead(s)'
<1>1. s <= issued /\ s \in Nat
  BY DEF Keys!Dead, Keys!Secret
<1>2. s <= issued'
  BY <1>1
<1>3. ASSUME NEW k \in (Keys!Stored)', keys'[k].secret = s PROVE keys'[k].revoked
  <2>1. k \in Key /\ keys'[k] # None
    BY DEF Keys!Stored
  <2>2. CASE keys'[k] = keys[k]
    BY <1>3, <2>1, <2>2 DEF Keys!Dead, Keys!Stored
  <2>3. CASE Gone(keys'[k], s)
    BY <1>3, <2>3 DEF Gone
  <2> QED BY <2>1, <2>2, <2>3
<1>4. ASSUME NEW h \in Handler, handler'[h].pc \in {"create", "write"},
             handler'[h].row.secret = s
      PROVE  handler'[h].row.revoked
  <2>1. CASE handler'[h] = handler[h]
    BY <1>4, <2>1 DEF Keys!Dead
  <2>2. CASE handler'[h].pc \in {"create", "write"} => Gone(handler'[h].row, s)
    BY <1>4, <2>2 DEF Gone
  <2> QED BY <2>1, <2>2
<1> QED BY <1>2, <1>3, <1>4, Zenon DEF Keys!Dead

LEMMA SecretStaysDeadStep ==
    ASSUME KeyShapes, [Keys!Next]_(Keys!vars)
    PROVE  Keys!SecretStaysDead
<1> SUFFICES ASSUME NEW s \in Keys!Secret, Keys!Dead(s) PROVE Keys!Dead(s)'
  BY DEF Keys!SecretStaysDead
<1> USE KeyAssumptions
<1>0. /\ keys \in [Key -> Keys!Row \cup {None}]
      /\ issued \in Nat
      /\ handler \in [Handler -> Keys!Local]
      /\ s <= issued /\ s \in Nat
  BY DEF KeyShapes, Keys!TypeOK, Keys!Dead, Keys!Secret
<1>k. ASSUME NEW k \in Keys!Stored
      PROVE  k \in Key /\ keys[k] \in Keys!Row /\ Gone(keys[k], s)
  BY <1>0 DEF Keys!Dead, Keys!Stored, Gone
<1>h. ASSUME NEW h \in Handler, handler[h].pc \in {"create", "write"}
      PROVE  Gone(handler[h].row, s)
  BY <1>h DEF Keys!Dead, Gone
<1>i. Keys!Idle \in Keys!Local /\ Keys!Idle.pc = "idle"
  BY DEF Keys!Local, Keys!Idle
<1>1. ASSUME NEW h \in Handler, NEW l, Keys!Put(h, l), keys' = keys,
             issued' \in Nat, issued <= issued',
             l.pc \in {"create", "write"} => Gone(l.row, s)
      PROVE  Keys!Dead(s)'
  <2>1. \A g \in Handler : handler'[g] = IF g = h THEN l ELSE handler[g]
    BY <1>0, <1>1 DEF Keys!Put
  <2>2. \A g \in Handler : \/ handler'[g] = handler[g]
                           \/ handler'[g].pc \in {"create", "write"} =>
                                  Gone(handler'[g].row, s)
    BY <1>1, <2>1
  <2> QED BY <1>0, <1>1, <2>2, DeadKeeps
<1>2. ASSUME NEW h \in Handler, Keys!Put(h, Keys!Idle), issued' = issued,
             NEW k \in Key, NEW row, Gone(row, s), keys' = [keys EXCEPT ![k] = row]
      PROVE  Keys!Dead(s)'
  <2>1. \A g \in Handler : handler'[g] = IF g = h THEN Keys!Idle ELSE handler[g]
    BY <1>0, <1>2 DEF Keys!Put
  <2>2. \A g \in Handler : \/ handler'[g] = handler[g]
                           \/ handler'[g].pc \in {"create", "write"} =>
                                  Gone(handler'[g].row, s)
    BY <1>i, <2>1
  <2>3. \A j \in Key : keys'[j] = keys[j] \/ Gone(keys'[j], s)
    BY <1>0, <1>2
  <2>4. issued' \in Nat /\ issued <= issued'
    BY <1>0, <1>2
  <2> QED BY <1>0, <2>2, <2>3, <2>4, DeadKeeps
<1>3. ASSUME NEW h \in Handler, Keys!Manage(h) PROVE Keys!Dead(s)'
  <2>1. ASSUME NEW k \in Key, NEW t \in Keys!Time \cup {None}, Keys!CreateApiKey(h, k, t)
        PROVE  Keys!Dead(s)'
    <3> DEFINE row == [secret |-> issued', enabled |-> TRUE, revoked |-> FALSE,
                       expiresAt |-> t, lastUsedAt |-> None]
               l == [pc |-> "create", key |-> k, row |-> row]
    <3>1. Keys!Put(h, l) /\ keys' = keys /\ issued' = issued + 1
      BY <2>1 DEF Keys!CreateApiKey
    <3>2. Gone(l.row, s)
      BY <1>0, <3>1 DEF Gone
    <3> HIDE DEF l
    <3> QED BY <1>0, <1>1, <3>1, <3>2
  <2>2. ASSUME NEW k \in Key, NEW e \in BOOLEAN, Keys!UpdateApiKey(h, k, e)
        PROVE  Keys!Dead(s)'
    <3> DEFINE row == [keys[k] EXCEPT !.enabled = e]
               l == [pc |-> "write", key |-> k, row |-> row]
    <3>1. /\ k \in Keys!Stored /\ ~keys[k].revoked
          /\ Keys!Put(h, l) /\ keys' = keys /\ issued' = issued
      BY <2>2 DEF Keys!UpdateApiKey, Keys!Active
    <3>2. keys[k] \in Keys!Row /\ keys[k].secret # s
      BY <1>k, <3>1 DEF Gone
    <3>3. row.secret = keys[k].secret
      BY <3>2 DEF Keys!Row
    <3>4. Gone(l.row, s)
      BY <3>2, <3>3 DEF Gone
    <3> HIDE DEF l
    <3> QED BY <1>0, <1>1, <3>1, <3>4
  <2>3. ASSUME NEW k \in Key, Keys!DeleteApiKey(h, k) PROVE Keys!Dead(s)'
    <3> DEFINE l == [pc |-> "write", key |-> k, row |-> Keys!Revoked(keys[k])]
    <3>1. Keys!Put(h, l) /\ keys' = keys /\ issued' = issued
      BY <2>3 DEF Keys!DeleteApiKey
    <3>2. Gone(l.row, s)
      BY DEF Gone, Keys!Revoked
    <3> HIDE DEF l
    <3> QED BY <1>0, <1>1, <3>1, <3>2
  <2>4. ASSUME NEW k \in Key, Keys!RotateApiKey(h, k) PROVE Keys!Dead(s)'
    <3> DEFINE row == [keys[k] EXCEPT !.secret = issued']
               l == [pc |-> "write", key |-> k, row |-> row]
    <3>1. /\ k \in Keys!Stored
          /\ Keys!Put(h, l) /\ keys' = keys /\ issued' = issued + 1
      BY <2>4 DEF Keys!RotateApiKey, Keys!Active
    <3>2. keys[k] \in Keys!Row
      BY <1>k, <3>1
    <3>3. row.secret = issued'
      BY <3>2 DEF Keys!Row
    <3>4. row.secret # s
      <4> HIDE DEF row
      <4> QED BY <1>0, <3>1, <3>3
    <3>5. Gone(l.row, s)
      <4> HIDE DEF row
      <4> QED BY <3>4 DEF Gone
    <3> HIDE DEF l
    <3> QED BY <1>0, <1>1, <3>1, <3>5
  <2>5. CASE Keys!CreateKey(h)
    <3>1. /\ handler[h].pc = "create" /\ Keys!Put(h, Keys!Idle) /\ issued' = issued
          /\ keys' = [keys EXCEPT ![handler[h].key] = handler[h].row]
      BY <2>5 DEF Keys!CreateKey
    <3>2. handler[h].key \in Key /\ Gone(handler[h].row, s)
      BY <1>0, <1>h, <3>1, LocalFields
    <3> QED BY <1>2, <3>1, <3>2
  <2>6. CASE Keys!UpsertKey(h)
    <3>1. /\ handler[h].pc = "write" /\ Keys!Put(h, Keys!Idle) /\ issued' = issued
          /\ keys' = [keys EXCEPT ![handler[h].key] = handler[h].row]
      BY <2>6 DEF Keys!UpsertKey
    <3>2. handler[h].key \in Key /\ Gone(handler[h].row, s)
      BY <1>0, <1>h, <3>1, LocalFields
    <3> QED BY <1>2, <3>1, <3>2
  <2> QED BY <1>3, <2>1, <2>2, <2>3, <2>4, <2>5, <2>6 DEF Keys!Manage
<1>4. ASSUME NEW h \in Handler, Keys!Authenticate(h) \/ Keys!Refuse(h)
      PROVE  Keys!Dead(s)'
  <2>0. ASSUME NEW l, l.pc \notin {"create", "write"}, Keys!Put(h, l),
               keys' = keys, issued' = issued
        PROVE  Keys!Dead(s)'
    BY <1>0, <1>1, <2>0
  <2>1. ASSUME NEW secret \in Keys!Secret, NEW c \in RouteClass, Keys!Present(h, secret, c)
        PROVE  Keys!Dead(s)'
    <3> DEFINE l == [pc |-> "list", at |-> keyNow, secret |-> secret, class |-> c]
    <3>1. Keys!Put(h, l) /\ keys' = keys /\ issued' = issued /\ l.pc \notin {"create", "write"}
      BY <2>1 DEF Keys!Present
    <3> HIDE DEF l
    <3> QED BY <2>0, <3>1
  <2>2. CASE Keys!Check(h)
    <3>1. PICK k \in Keys!Stored :
                Keys!Put(h, [pc |-> "note", at |-> handler[h].at,
                             secret |-> handler[h].secret, key |-> k])
      BY <2>2 DEF Keys!Check
    <3> DEFINE l == [pc |-> "note", at |-> handler[h].at,
                     secret |-> handler[h].secret, key |-> k]
    <3>2. Keys!Put(h, l) /\ keys' = keys /\ issued' = issued /\ l.pc \notin {"create", "write"}
      BY <2>2, <3>1 DEF Keys!Check
    <3> HIDE DEF l
    <3> QED BY <2>0, <3>2
  <2>3. CASE Keys!NoteLastUsed(h)
    <3> DEFINE me == handler[h]
               l == IF Keys!Recent(me.key, me.at) THEN Keys!Idle
                    ELSE [me EXCEPT !.pc = "touch"]
    <3>1. Keys!Put(h, l) /\ keys' = keys /\ issued' = issued
      BY <2>3 DEF Keys!NoteLastUsed
    <3>2. me \in Keys!Local /\ me.pc = "note"
      BY <1>0, <2>3 DEF Keys!NoteLastUsed
    <3>3. [me EXCEPT !.pc = "touch"].pc = "touch"
      BY <3>2 DEF Keys!Local, Keys!Idle
    <3>4. l.pc \notin {"create", "write"}
      BY <1>i, <3>3
    <3> HIDE DEF l
    <3> QED BY <2>0, <3>1, <3>4
  <2>4. CASE Keys!TouchLastUsed(h)
    <3> DEFINE me == handler[h]
               row == [keys[me.key] EXCEPT !.lastUsedAt = me.at]
    <3>1. /\ Keys!Put(h, Keys!Idle) /\ issued' = issued
          /\ \/ keys' = keys
             \/ keys' = [keys EXCEPT ![me.key] = row]
          /\ me.pc = "touch"
      BY <2>4 DEF Keys!TouchLastUsed
    <3>2. me.key \in Keys!Stored
      BY <3>1 DEF KeyShapes, RequestsInTime
    <3>3. me.key \in Key /\ keys[me.key] \in Keys!Row /\ Gone(keys[me.key], s)
      BY <1>k, <3>2
    <3>4. row.secret = keys[me.key].secret /\ row.revoked = keys[me.key].revoked
      BY <3>3 DEF Keys!Row
    <3>5. Gone(row, s)
      BY <3>3, <3>4 DEF Gone
    <3>6. CASE keys' = keys
      BY <1>i, <2>0, <3>1, <3>6
    <3> HIDE DEF row
    <3>7. CASE keys' = [keys EXCEPT ![me.key] = row]
      BY <1>2, <3>1, <3>3, <3>5, <3>7
    <3> QED BY <3>1, <3>6, <3>7
  <2>5. CASE Keys!Refuse(h)
    <3>1. Keys!Put(h, Keys!Idle) /\ keys' = keys /\ issued' = issued
      BY <2>5 DEF Keys!Refuse
    <3> QED BY <1>i, <2>0, <3>1
  <2> QED BY <1>4, <2>1, <2>2, <2>3, <2>4, <2>5 DEF Keys!Authenticate
<1>5. CASE Keys!Tick \/ UNCHANGED Keys!vars
  <2>1. UNCHANGED <<keys, issued, handler>>
    BY <1>5 DEF Keys!Tick, Keys!vars
  <2> QED BY <1>0, <2>1, DeadKeeps
<1> QED BY <1>3, <1>4, <1>5 DEF Keys!Next

(* The keys stored stay within the caps, and so do the active ones but     *)
(* those that were brought back: a creation counts them, and a row that is *)
(* written back was stored.                                                *)
Own == Keys!Active \ undone

LEMMA KeysCapped == ASSUME KeyShapes
    PROVE  /\ IsFiniteSet(Keys!Stored) /\ Cardinality(Keys!Stored) \in Nat
           /\ IsFiniteSet(Keys!Active) /\ Cardinality(Keys!Active) \in Nat
           /\ IsFiniteSet(Own) /\ Cardinality(Own) \in Nat
           /\ Cardinality(Own) <= Cardinality(Keys!Active)
<1>1. Keys!Stored \in SUBSET Key /\ Keys!Active \in SUBSET Key /\ Own \in SUBSET Keys!Active
  BY DEF Keys!Stored, Keys!Active, Own
<1>2. IsFiniteSet(Keys!Stored) /\ IsFiniteSet(Keys!Active)
  BY <1>1, KeyAssumptions, FS_Subset
<1>3. IsFiniteSet(Own) /\ Cardinality(Own) <= Cardinality(Keys!Active)
  BY <1>1, <1>2, FS_Subset
<1> QED BY <1>2, <1>3, FS_CardinalityType

LEMMA KeysCappedStep ==
    ASSUME KeyShapes, KeyShapes', [Keys!Next]_(Keys!vars), Keys!KeysAreCapped
    PROVE  Keys!KeysAreCapped'
<1> USE KeyAssumptions
<1>0. /\ keys \in [Key -> Keys!Row \cup {None}]
      /\ handler \in [Handler -> Keys!Local]
  BY DEF KeyShapes, Keys!TypeOK
<1>1. Cardinality(Keys!Stored) <= MaxStored /\ Cardinality(Own) <= MaxActive
  BY KeysSets DEF Keys!KeysAreCapped, Own
<1>2. /\ IsFiniteSet(Keys!Stored) /\ Cardinality(Keys!Stored) \in Nat
      /\ IsFiniteSet(Keys!Active) /\ Cardinality(Keys!Active) \in Nat
      /\ IsFiniteSet(Own) /\ Cardinality(Own) \in Nat
      /\ Cardinality(Own) <= Cardinality(Keys!Active)
  BY KeysCapped
<1>3. SUFFICES Cardinality((Keys!Stored)') <= MaxStored /\ Cardinality(Own') <= MaxActive
  BY KeysSets DEF Keys!KeysAreCapped, Own
<1>p. (Keys!Stored)' \in SUBSET Key /\ Own' \in SUBSET Key
  BY DEF Keys!Stored, Keys!Active, Own
<1>q. /\ IsFiniteSet((Keys!Stored)') /\ Cardinality((Keys!Stored)') \in Nat
      /\ IsFiniteSet(Own') /\ Cardinality(Own') \in Nat
  <2>1. IsFiniteSet((Keys!Stored)') /\ IsFiniteSet(Own')
    BY <1>p, FS_Subset
  <2> QED BY <2>1, FS_CardinalityType
<1>m. MaxStored \in Nat /\ MaxActive \in Nat
  OBVIOUS
<1>4. ASSUME (Keys!Stored)' = Keys!Stored, Own' \in SUBSET Own
      PROVE  Cardinality((Keys!Stored)') <= MaxStored /\ Cardinality(Own') <= MaxActive
  <2>1. Cardinality(Own') <= Cardinality(Own)
    BY <1>2, <1>4, FS_Subset
  <2> QED BY <1>1, <1>2, <1>4, <1>m, <1>q, <2>1
<1>5. ASSUME NEW h \in Handler, Keys!CreateKey(h)
      PROVE  Cardinality((Keys!Stored)') <= MaxStored /\ Cardinality(Own') <= MaxActive
  <2> DEFINE k == handler[h].key
  <2>1. /\ k \in Key /\ handler[h].row \in Keys!Row
        /\ keys' = [keys EXCEPT ![k] = handler[h].row]
        /\ Cardinality(Keys!Active) < MaxActive
        /\ Cardinality(Keys!Stored) < MaxStored
        /\ undone' = undone
    BY <1>0, <1>5, LocalFields, KeysSets DEF Keys!CreateKey, Keys!history
  <2>2. /\ (Keys!Stored)' \in SUBSET (Keys!Stored \cup {k})
        /\ (Keys!Active)' \in SUBSET (Keys!Active \cup {k})
    BY <1>0, <2>1 DEF Keys!Stored, Keys!Active
  <2>a. Own' \in SUBSET (Own \cup {k})
    BY <2>1, <2>2 DEF Own
  <2> HIDE DEF k
  <2>3. /\ IsFiniteSet(Keys!Stored \cup {k})
        /\ Cardinality(Keys!Stored \cup {k}) <= Cardinality(Keys!Stored) + 1
        /\ Cardinality(Keys!Stored \cup {k}) \in Nat
    BY <1>2, OneMember
  <2>4. /\ IsFiniteSet(Own \cup {k})
        /\ Cardinality(Own \cup {k}) <= Cardinality(Own) + 1
        /\ Cardinality(Own \cup {k}) \in Nat
    BY <1>2, OneMember
  <2>5. Cardinality((Keys!Stored)') <= Cardinality(Keys!Stored \cup {k})
    BY <2>2, <2>3, FS_Subset
  <2>6. Cardinality(Own') <= Cardinality(Own \cup {k})
    BY <2>a, <2>4, FS_Subset
  <2>7. Cardinality((Keys!Stored)') <= MaxStored
    BY <1>2, <1>m, <1>q, <2>1, <2>3, <2>5
  <2>8. Cardinality(Own') <= MaxActive
    BY <1>2, <1>m, <1>q, <2>1, <2>4, <2>6
  <2> QED BY <2>7, <2>8
<1>6. ASSUME NEW h \in Handler, Keys!UpsertKey(h)
      PROVE  (Keys!Stored)' = Keys!Stored /\ Own' \in SUBSET Own
  <2> DEFINE k == handler[h].key
  <2>1. /\ k \in Key /\ handler[h].row \in Keys!Row
        /\ keys' = [keys EXCEPT ![k] = handler[h].row]
        /\ undone' = IF keys[k].revoked /\ ~handler[h].row.revoked THEN undone \cup {k}
                     ELSE undone
        /\ handler[h].pc = "write"
    BY <1>0, <1>6, LocalFields DEF Keys!UpsertKey
  <2>2. k \in Keys!Stored
    BY <2>1 DEF KeyShapes, RequestsInTime
  <2>3. (Keys!Stored)' = Keys!Stored
    BY <1>0, <2>1, <2>2 DEF Keys!Stored
  <2>4. /\ \A j : j \in undone => j \in undone'
        /\ keys[k].revoked /\ k \notin undone' => handler[h].row.revoked
    <3>1. CASE keys[k].revoked /\ ~handler[h].row.revoked
      <4>1. undone' = undone \cup {k}
        BY <2>1, <3>1, Zenon
      <4> QED BY <4>1, Zenon
    <3>2. CASE ~(keys[k].revoked /\ ~handler[h].row.revoked)
      <4>1. undone' = undone
        BY <2>1, <3>2, Zenon
      <4> QED BY <3>2, <4>1, Zenon
    <3> QED BY <3>1, <3>2, Zenon
  <2>5. ASSUME NEW j \in Own' PROVE j \in Own
    <3>1. j \in (Keys!Stored)' /\ ~keys'[j].revoked /\ j \notin undone'
      BY Zenon DEF Own, Keys!Active
    <3>2. ~keys[j].revoked
      <4>1. j \in Key
        BY <3>1 DEF Keys!Stored
      <4>2. CASE j = k
        <5>1. keys'[j] = handler[h].row
          BY <1>0, <2>1, <4>2
        <5> QED BY <2>4, <3>1, <4>2, <5>1, Zenon
      <4>3. CASE j # k
        <5>1. keys'[j] = keys[j]
          BY <1>0, <2>1, <4>1, <4>3
        <5> QED BY <3>1, <5>1, Zenon
      <4> QED BY <4>2, <4>3
    <3> QED BY <2>3, <2>4, <3>1, <3>2, Zenon DEF Own, Keys!Active
  <2> QED BY <2>3, <2>5
<1>7. ASSUME NEW h \in Handler, Keys!TouchLastUsed(h)
      PROVE  (Keys!Stored)' = Keys!Stored /\ Own' \in SUBSET Own
  <2> DEFINE me == handler[h]
             row == [keys[me.key] EXCEPT !.lastUsedAt = me.at]
  <2>1. /\ undone' = undone
        /\ \/ keys' = keys
           \/ keys' = [keys EXCEPT ![me.key] = row]
        /\ me.pc = "touch"
    BY <1>7 DEF Keys!TouchLastUsed, Keys!history
  <2>2. me.key \in Keys!Stored /\ me.key \in Key
    BY <2>1 DEF KeyShapes, RequestsInTime, Keys!Stored
  <2>3. keys[me.key] \in Keys!Row /\ me.at \in Keys!Time
    BY <1>0, <2>1, <2>2, LocalFields DEF Keys!Stored
  <2>4. row \in Keys!Row /\ row.revoked = keys[me.key].revoked
    BY <2>3 DEF Keys!Row
  <2> HIDE DEF row
  <2>5. CASE keys' = keys
    BY <2>1, <2>5 DEF Keys!Stored, Keys!Active, Own
  <2>6. CASE keys' = [keys EXCEPT ![me.key] = row]
    <3>1. (Keys!Stored)' = Keys!Stored
      BY <1>0, <2>2, <2>4, <2>6 DEF Keys!Stored
    <3>2. (Keys!Active)' \in SUBSET Keys!Active
      BY <1>0, <2>1, <2>2, <2>4, <2>6, <3>1 DEF Keys!Active
    <3> QED BY <2>1, <3>1, <3>2 DEF Own
  <2> QED BY <2>1, <2>5, <2>6
<1>8. ASSUME UNCHANGED <<keys, undone>>
      PROVE  (Keys!Stored)' = Keys!Stored /\ Own' = Own
  BY <1>8 DEF Keys!Stored, Keys!Active, Own
<1>9. ASSUME NEW h \in Handler,
             \/ \E k \in Key, t \in Keys!Time \cup {None} : Keys!CreateApiKey(h, k, t)
             \/ \E k \in Key, e \in BOOLEAN : Keys!UpdateApiKey(h, k, e)
             \/ \E k \in Key : Keys!DeleteApiKey(h, k)
             \/ \E k \in Key : Keys!RotateApiKey(h, k)
             \/ \E secret \in Keys!Secret, c \in RouteClass : Keys!Present(h, secret, c)
             \/ Keys!Check(h) \/ Keys!NoteLastUsed(h) \/ Keys!Refuse(h)
      PROVE  UNCHANGED <<keys, undone>>
  BY <1>9 DEF Keys!CreateApiKey, Keys!UpdateApiKey, Keys!DeleteApiKey,
              Keys!RotateApiKey, Keys!Present, Keys!Check, Keys!NoteLastUsed,
              Keys!Refuse, Keys!history
<1>10. ASSUME Keys!Tick \/ UNCHANGED Keys!vars PROVE UNCHANGED <<keys, undone>>
  BY <1>10 DEF Keys!Tick, Keys!vars, Keys!history
<1>11. CASE UNCHANGED <<keys, undone>>
  BY <1>4, <1>8, <1>11
<1>12. CASE \E h \in Handler : Keys!CreateKey(h)
  BY <1>5, <1>12
<1>13. CASE \E h \in Handler : Keys!UpsertKey(h)
  BY <1>4, <1>6, <1>13
<1>14. CASE \E h \in Handler : Keys!TouchLastUsed(h)
  BY <1>4, <1>7, <1>14
<1> QED BY <1>9, <1>10, <1>11, <1>12, <1>13, <1>14
        DEF Keys!Next, Keys!Manage, Keys!Authenticate

(* What a bucket has counted, and how that bounds what passed: a key that  *)
(* has no bucket yet counts from before the clock began.                   *)
Opened(bucket) ==
    IF bucket = NoBucket THEN [start |-> -KeyWindow, count |-> 0] ELSE bucket

KeyPaced(f, bucket, time) ==
    LET b == Opened(bucket)
    IN  /\ b.start <= time /\ b.count <= KeyLimit
        /\ Paced(f, KeyTime, KeyWindow, KeyLimit, b.start, b.count)

KeyRatePaced ==
    \A k \in Key, c \in RouteClass : KeyPaced(passed[k][c], rate[k][c], keyNow)

(* What KeyRateIsBounded says of the requests that were let through.       *)
RateFits(p) ==
    \A k \in Key, c \in RouteClass, t \in Keys!Time :
        Keys!Total(p[k][c], Keys!Time \cap (t .. t + KeyWindow - 1))
            <= KeyLimit * (IF MaxDuration <= 1 THEN 2 ELSE 3)

LEMMA RateFitsIs ==
    ASSUME NEW p
    PROVE  RateFits(p) <=>
               \A k \in Key, c \in RouteClass : \A t \in 0 .. KeyTime :
                   Total(p[k][c], (0 .. KeyTime) \cap (t .. t + KeyWindow - 1))
                       <= KeyLimit * (IF MaxDuration <= 1 THEN 2 ELSE 3)
<1>1. Keys!Time = 0 .. KeyTime
  BY DEF Keys!Time
<1>2. \A f, S : Keys!Total(f, S) = Total(f, S)
  BY KeysSets
<1> HIDE DEF Keys!Time
<1> QED BY <1>1, <1>2, Zenon DEF RateFits

LEMMA KeyRateStep ==
    ASSUME KeyShapes, KeyShapes', [Keys!Next]_(Keys!vars),
           KeyRatePaced, Keys!KeyRateIsBounded
    PROVE  KeyRatePaced' /\ Keys!KeyRateIsBounded'
<1> USE KeyAssumptions
<1>0. /\ keyNow \in 0 .. KeyTime /\ keyNow' \in 0 .. KeyTime
      /\ handler \in [Handler -> Keys!Local]
      /\ rate \in [Key -> [RouteClass -> Keys!Bucket(Keys!Time, Nat)]]
      /\ passed \in [Key -> [RouteClass -> [0 .. KeyTime -> Nat]]]
  BY DEF KeyShapes, Keys!TypeOK, Keys!Time
<1>1. CASE UNCHANGED <<rate, passed>> /\ keyNow <= keyNow'
  <2>1. Keys!KeyRateIsBounded'
    BY <1>1 DEF Keys!KeyRateIsBounded
  <2>2. ASSUME NEW k \in Key, NEW c \in RouteClass
        PROVE  LET b == Opened(rate[k][c]) IN b.start \in Int
    BY <1>0 DEF Opened, Keys!Bucket, Keys!Time
  <2>3. KeyRatePaced'
    <3>1. SUFFICES ASSUME NEW k \in Key, NEW c \in RouteClass
          PROVE  KeyPaced(passed[k][c], rate[k][c], keyNow')
      BY <1>1 DEF KeyRatePaced
    <3> DEFINE b == Opened(rate[k][c])
    <3>2. /\ b.start <= keyNow /\ b.count <= KeyLimit
          /\ Paced(passed[k][c], KeyTime, KeyWindow, KeyLimit, b.start, b.count)
      BY DEF KeyRatePaced, KeyPaced
    <3>3. b.start \in Int
      BY <2>2
    <3> HIDE DEF b
    <3>4. b.start <= keyNow'
      BY <1>0, <1>1, <3>2, <3>3
    <3> QED BY <3>2, <3>4 DEF b, KeyPaced
  <2> QED BY <2>1, <2>3
<1>2. ASSUME NEW h \in Handler, Keys!Check(h)
      PROVE  KeyRatePaced' /\ Keys!KeyRateIsBounded'
  <2> DEFINE a == handler[h].at
             d == handler[h].class
  <2>1. PICK k \in Key :
             /\ Keys!Admits(rate[k][d], a, KeyLimit)
             /\ rate' = [rate EXCEPT ![k][d] = Keys!Counted(rate[k][d], a)]
             /\ passed' = [passed EXCEPT ![k][d][a] = @ + 1]
    BY <1>2 DEF Keys!Check, Keys!Stored
  <2>2. handler[h].pc = "list" /\ keyNow' = keyNow
    BY <1>2 DEF Keys!Check
  <2>3. /\ a \in 0 .. KeyTime /\ d \in RouteClass
        /\ a <= keyNow /\ keyNow <= a + MaxDuration
    BY <1>0, <2>2, LocalFields DEF KeyShapes, RequestsInTime, Keys!Time
  <2> HIDE DEF a, d
  <2> DEFINE f == passed[k][d]
             bucket == rate[k][d]
             old == Opened(bucket)
             new == Keys!Counted(bucket, a)
             P(g, x) == Paced(g, KeyTime, KeyWindow, KeyLimit, x.start, x.count)
  <2>4. f \in [0 .. KeyTime -> Nat]
    BY <1>0, <2>3
  <2>5. bucket \in Keys!Bucket(Keys!Time, Nat)
    BY <1>0, <2>3
  <2>6. old.start \in Int /\ old.count \in Nat
    BY <2>5 DEF Opened, Keys!Bucket, Keys!Time
  <2>7. old.start <= keyNow /\ old.count <= KeyLimit /\ P(f, old)
    BY <2>3 DEF KeyRatePaced, KeyPaced
  <2>8. /\ Keys!InBucket(bucket, a) => a < old.start + KeyWindow /\ old.count < KeyLimit
        /\ ~Keys!InBucket(bucket, a) => a >= old.start + KeyWindow
    BY <2>1, <2>3, <2>5 DEF Keys!Admits, Keys!InBucket, Opened, Keys!Bucket, Keys!Time
  <2>9. /\ new \in [start : Int, count : Nat]
        /\ Keys!InBucket(bucket, a) => new.start = old.start /\ new.count = old.count + 1
        /\ ~Keys!InBucket(bucket, a) => new.start = a /\ new.count = 1
        /\ new # NoBucket
    <3>1. CASE Keys!InBucket(bucket, a)
      <4>1. bucket \in [start : 0 .. KeyTime, count : Nat] /\ bucket # NoBucket
        BY <2>5, <3>1 DEF Keys!InBucket, Keys!Bucket, Keys!Time
      <4>2. old = bucket
        BY <4>1 DEF Opened
      <4>3. new = [bucket EXCEPT !.count = @ + 1]
        BY <3>1 DEF Keys!Counted
      <4>4. new = [start |-> bucket.start, count |-> bucket.count + 1]
        BY <4>1, <4>3
      <4>5. new \in [start : Nat, count : Nat]
        BY <4>1, <4>4
      <4>6. new # NoBucket
        BY <4>5
      <4> HIDE DEF new, old
      <4> QED BY <3>1, <4>2, <4>4, <4>5, <4>6
    <3>2. CASE ~Keys!InBucket(bucket, a)
      <4>1. new = [start |-> a, count |-> 1]
        BY <3>2 DEF Keys!Counted
      <4>2. new \in [start : Nat, count : Nat]
        BY <2>3, <4>1
      <4>3. new # NoBucket
        BY <4>2
      <4> HIDE DEF new, old
      <4> QED BY <3>2, <4>1, <4>2, <4>3
    <3> QED BY <3>1, <3>2
  <2>10. P(OneMore(f, a), new)
    <3> HIDE DEF f, bucket, old, new
    <3>1. CASE Keys!InBucket(bucket, a)
      <4>1. Paced(OneMore(f, a), KeyTime, KeyWindow, KeyLimit, old.start, old.count + 1)
        BY <2>3, <2>4, <2>6, <2>7, <2>8, <3>1, PacedCounts
      <4> QED BY <2>9, <3>1, <4>1
    <3>2. CASE ~Keys!InBucket(bucket, a)
      <4>1. Paced(OneMore(f, a), KeyTime, KeyWindow, KeyLimit, a, 1)
        BY <2>3, <2>4, <2>6, <2>7, <2>8, <3>2, PacedOpens
      <4> QED BY <2>9, <3>2, <4>1
    <3> QED BY <3>1, <3>2
  <2>11. /\ new.start <= keyNow /\ new.count <= KeyLimit
         /\ new.start \in Int /\ new.count \in Nat
    <3> HIDE DEF f, bucket, old, new
    <3>1. KeyLimit >= 1
      OBVIOUS
    <3>2. CASE Keys!InBucket(bucket, a)
      <4>1. new.start = old.start /\ new.count = old.count + 1 /\ old.count < KeyLimit
        BY <2>8, <2>9, <3>2
      <4> QED BY <2>6, <2>7, <4>1
    <3>3. CASE ~Keys!InBucket(bucket, a)
      <4>1. new.start = a /\ new.count = 1
        BY <2>9, <3>3
      <4> QED BY <2>3, <3>1, <4>1
    <3> QED BY <3>2, <3>3
  <2>12. rate' = [rate EXCEPT ![k][d] = new] /\ passed' = [passed EXCEPT ![k][d] = OneMore(f, a)]
    BY <1>0, <2>1, <2>3 DEF OneMore
  <2>13. Opened(new) = new
    BY <2>9 DEF Opened
  <2> HIDE DEF f, bucket, old, new
  <2>14. KeyRatePaced'
    <3>1. SUFFICES ASSUME NEW j \in Key, NEW c \in RouteClass
          PROVE  KeyPaced(passed'[j][c], rate'[j][c], keyNow)
      BY <2>2 DEF KeyRatePaced
    <3>2. CASE j = k /\ c = d
      <4>1. rate'[j][c] = new /\ passed'[j][c] = OneMore(f, a)
        BY <1>0, <2>3, <2>12, <3>2
      <4> QED BY <2>10, <2>11, <2>13, <4>1 DEF KeyPaced
    <3>3. CASE ~(j = k /\ c = d)
      <4>1. rate'[j][c] = rate[j][c] /\ passed'[j][c] = passed[j][c]
        BY <1>0, <2>3, <2>12, <3>3
      <4> QED BY <4>1 DEF KeyRatePaced
    <3> QED BY <3>2, <3>3
  <2>15. Keys!KeyRateIsBounded'
    <3> DEFINE Bound == KeyLimit * (IF MaxDuration <= 1 THEN 2 ELSE 3)
               Span(t) == (0 .. KeyTime) \cap (t .. t + KeyWindow - 1)
    <3>1. RateFits(passed) /\ (RateFits(passed') => Keys!KeyRateIsBounded')
      BY Zenon DEF Keys!KeyRateIsBounded, RateFits
    <3>2. SUFFICES ASSUME NEW j \in Key, NEW c \in RouteClass, NEW t \in 0 .. KeyTime
          PROVE  Total(passed'[j][c], Span(t)) <= Bound
      <4>1. ASSUME \A j \in Key, c \in RouteClass, t \in 0 .. KeyTime :
                       Total(passed'[j][c], Span(t)) <= Bound
            PROVE  RateFits(passed')
        BY <4>1, RateFitsIs, Zenon
      <4> QED BY <3>1, <4>1, Zenon
    <3>3. Total(passed[j][c], Span(t)) <= Bound
      BY <3>1, RateFitsIs, Zenon
    <3>4. CASE j = k /\ c = d
      <4>1. passed[j][c] = f /\ passed'[j][c] = OneMore(f, a)
        BY <1>0, <2>3, <2>12, <3>4 DEF f
      <4>2. CASE a \notin Span(t)
        <5>1. Total(OneMore(f, a), Span(t)) = Total(f, Span(t))
          BY <2>3, <2>4, <4>2, TotalCounts
        <5> QED BY <3>3, <4>1, <5>1
      <4>3. CASE a \in Span(t)
        <5> DEFINE g == OneMore(f, a)
        <5>1. g \in [0 .. KeyTime -> Nat]
          BY <2>3, <2>4, TotalCounts
        <5>2. /\ t + KeyWindow - 1 >= a
              /\ t >= new.start - 2 * KeyWindow
              /\ MaxDuration <= 1 => t >= new.start - KeyWindow
          <6>1. t + KeyWindow - 1 >= a
            BY <2>3, <4>3
          <6>2. new.start <= a + MaxDuration
            <7> DEFINE s == new.start
            <7>1. s \in Int /\ s <= keyNow
              BY <2>11
            <7> HIDE DEF Span, g, s
            <7>2. keyNow \in Int /\ a + MaxDuration \in Int /\ keyNow <= a + MaxDuration
              BY <1>0, <2>3
            <7>3. s <= a + MaxDuration
              BY <7>1, <7>2
            <7> QED BY <7>3 DEF s
          <6>3. new.start \in Int /\ a \in Int /\ t \in Int
            BY <2>3, <2>11
          <6> HIDE DEF Span, g, Bound
          <6> DEFINE s == new.start
          <6>4. s <= a + MaxDuration /\ s \in Int
            BY <6>2, <6>3
          <6> HIDE DEF s
          <6>5. t >= s - 2 * KeyWindow /\ (MaxDuration <= 1 => t >= s - KeyWindow)
            BY <6>1, <6>3, <6>4
          <6> QED BY <6>1, <6>5 DEF s
        <5>3. /\ Total(g, Span(t)) \in Nat
              /\ Total(g, Span(t)) <= 3 * KeyLimit
              /\ t >= new.start - KeyWindow => Total(g, Span(t)) <= 2 * KeyLimit
          <6> HIDE DEF g
          <6>1. P(g, new)
            BY <2>10 DEF g
          <6>2. Paced(g, KeyTime, KeyWindow, KeyLimit, new.start, new.count)
            BY <6>1
          <6> DEFINE s == new.start
                     n == new.count
          <6>3. /\ s \in Int /\ n \in Nat /\ n <= KeyLimit
                /\ t \in Int /\ t >= s - 2 * KeyWindow
            BY <2>11, <5>2
          <6>4. Paced(g, KeyTime, KeyWindow, KeyLimit, s, n)
            BY <6>2
          <6> HIDE DEF s, n, Span, P
          <6>5. LET span == Total(g, (0 .. KeyTime) \cap (t .. t + KeyWindow - 1))
                IN  /\ span \in Nat
                    /\ span <= 3 * KeyLimit
                    /\ t >= s - KeyWindow => span <= 2 * KeyLimit
            BY <5>1, <6>3, <6>4, PacedBounds
          <6> QED BY <6>5 DEF s, Span
        <5>4. Total(g, Span(t)) <= Bound
          <6> HIDE DEF g, Span
          <6> QED BY <5>2, <5>3
        <5> QED BY <4>1, <5>4
      <4> QED BY <4>2, <4>3
    <3>5. CASE ~(j = k /\ c = d)
      <4>1. passed'[j][c] = passed[j][c]
        BY <1>0, <2>3, <2>12, <3>5
      <4> QED BY <3>3, <4>1
    <3> QED BY <3>4, <3>5
  <2> QED BY <2>14, <2>15
<1>3. ASSUME NEW h \in Handler,
             Keys!Manage(h) \/ Keys!NoteLastUsed(h) \/ Keys!TouchLastUsed(h)
             \/ Keys!Refuse(h)
             \/ \E secret \in Keys!Secret, c \in RouteClass : Keys!Present(h, secret, c)
      PROVE  UNCHANGED <<keyNow, rate, passed>>
  BY <1>3 DEF Keys!Manage, Keys!CreateApiKey, Keys!UpdateApiKey, Keys!DeleteApiKey,
              Keys!RotateApiKey, Keys!CreateKey, Keys!UpsertKey, Keys!Present,
              Keys!NoteLastUsed, Keys!TouchLastUsed,
              Keys!Refuse, Keys!history, Keys!limits
<1>4. ASSUME Keys!Tick \/ UNCHANGED Keys!vars
      PROVE  UNCHANGED <<rate, passed>> /\ keyNow <= keyNow'
  BY <1>0, <1>4 DEF Keys!Tick, Keys!vars, Keys!history, Keys!limits
<1>5. ASSUME UNCHANGED <<keyNow, rate, passed>>
      PROVE  UNCHANGED <<rate, passed>> /\ keyNow <= keyNow'
  BY <1>0, <1>5
<1> QED BY <1>1, <1>2, <1>3, <1>4, <1>5 DEF Keys!Next, Keys!Authenticate

-----------------------------------------------------------------------------
(* The rate limits.                                                        *)

LEMMA LimitAssumptions ==
    /\ Window \in Nat \ {0} /\ NoBucket \notin [start : Nat, count : Nat]
    /\ PerKey \in Nat \ {0} /\ Global \in Nat \ {0} /\ SweepEvery \in Nat \ {0}
    /\ Grace \in Nat /\ MaxDelay \in Nat /\ MaxTime \in Nat /\ IsFiniteSet(Client)
    /\ None \notin Limits!Counters
<1>1. Limits!WindowAssumption /\ Limits!LimitsAssumption
  BY ApiAssumption DEF ApiAssumption
<1>2. Window \in Nat \ {0} /\ NoBucket \notin [start : Nat, count : Nat]
  BY <1>1 DEF Limits!WindowAssumption
<1>3. /\ {PerKey, Global, SweepEvery} \subseteq Nat \ {0}
      /\ {Grace, MaxDelay, MaxTime} \subseteq Nat /\ IsFiniteSet(Client)
      /\ None \notin [count : Nat, until : Nat]
  BY <1>1, LimitsSets DEF Limits!LimitsAssumption
<1>4. Limits!Counters \subseteq [count : Nat, until : Nat]
  BY <1>3 DEF Limits!Counters
<1> QED BY <1>2, <1>3, <1>4

(* The index of the window that a time lies in.                            *)
LEMMA IndexOf ==
    ASSUME NEW W \in Nat \ {0}, NEW a \in Nat, NEW b \in Nat, a <= b
    PROVE  /\ a \div W \in Nat
           /\ (a \div W) * W <= a /\ a < (a \div W) * W + W
           /\ a \div W <= b \div W
<1>1. /\ a \div W \in Int /\ b \div W \in Int
      /\ (a \div W) * W <= a /\ a < (a \div W) * W + W
      /\ (b \div W) * W <= b /\ b < (b \div W) * W + W
  OBVIOUS
<1>2. a \div W >= 0
  OBVIOUS
<1>3. a \div W <= b \div W
  OBVIOUS
<1> QED BY <1>1, <1>2, <1>3

(* A command knows its window, and waits no longer than it may.            *)
CommandsInTime ==
    \A r \in Handler :
        /\ request[r].pc = "wire" =>
               /\ request[r].index = request[r].at \div Window
               /\ request[r].at <= limitNow /\ limitNow <= request[r].at + MaxDelay
        /\ request[r].pc = "late" => request[r].index * Window <= limitNow

(* The windows of a process: those of the clients open with requests that  *)
(* its global one counted, one each.                                       *)
Tracked(B, G) == {c \in Client : B[c] # NoBucket /\ B[c].start >= G.start}

ServerInTime(B, G, time) ==
    /\ G # NoBucket =>
           G.start <= time /\ Cardinality(Tracked(B, G)) <= G.count
    /\ \A c \in Client : B[c] # NoBucket =>
           /\ B[c].start <= time
           /\ G = NoBucket => B[c].start < time
           /\ G # NoBucket => B[c].start < G.start + Window

StartsInTime == \A s \in Server : ServerInTime(byKey[s], global[s], limitNow)

LimitShapes == Limits!TypeOK /\ CommandsInTime /\ StartsInTime

LEMMA RequestFields ==
    ASSUME NEW l \in Limits!Local
    PROVE  /\ l.pc \in {"send", "wire", "late"} => l.client \in Client
           /\ l.pc \in {"wire", "late"} => l.index \in Limits!Index
           /\ l.pc = "wire" => l.at \in Limits!Time
  BY DEF Limits!Local, Limits!Idle

(* What counting does to a bucket.                                         *)
LEMMA Counting ==
    ASSUME NEW L \in Nat \ {0}, NEW time \in Limits!Time,
           NEW bucket \in Limits!Bucket(Limits!Time, 1 .. L),
           Limits!Admits(bucket, time, L)
    PROVE  LET new == Limits!Counted(bucket, time)
           IN  /\ new \in [start : Limits!Time, count : 1 .. L]
               /\ new \in Limits!Bucket(Limits!Time, 1 .. L)
               /\ new # NoBucket
               /\ \/ /\ bucket # NoBucket /\ time < bucket.start + Window
                     /\ new.start = bucket.start /\ new.count = bucket.count + 1
                  \/ /\ bucket # NoBucket => time >= bucket.start + Window
                     /\ new.start = time /\ new.count = 1
<1> DEFINE new == Limits!Counted(bucket, time)
<1>0. Limits!Time \subseteq Nat
  BY LimitAssumptions DEF Limits!Time
<1>1. CASE Limits!InBucket(bucket, time)
  <2>1. /\ bucket \in [start : Limits!Time, count : 1 .. L] /\ bucket # NoBucket
        /\ time < bucket.start + Window /\ bucket.count < L
    <3>1. bucket # NoBucket /\ time < bucket.start + Window /\ bucket.count < L
      BY <1>1 DEF Limits!InBucket, Limits!Admits
    <3> QED BY <3>1 DEF Limits!Bucket
  <2>2. new = [bucket EXCEPT !.count = @ + 1]
    BY <1>1 DEF Limits!Counted
  <2>3. new = [start |-> bucket.start, count |-> bucket.count + 1]
    BY <2>1, <2>2
  <2>4. bucket.count + 1 \in 1 .. L /\ bucket.start \in Limits!Time
    <3> DEFINE n == bucket.count
    <3>1. n \in 1 .. L /\ n < L /\ bucket.start \in Limits!Time
      BY <2>1
    <3> HIDE DEF n, new
    <3>2. n + 1 \in 1 .. L
      BY <3>1
    <3> QED BY <3>1, <3>2 DEF n
  <2>5. new \in [start : Limits!Time, count : 1 .. L] /\ new \in [start : Nat, count : Nat]
    <3>1. bucket.count + 1 \in Nat /\ bucket.start \in Nat
      <4> DEFINE n == bucket.count + 1
      <4>1. n \in 1 .. L
        BY <2>4
      <4> HIDE DEF new, n
      <4>2. n \in Nat
        BY <4>1
      <4> QED BY <1>0, <2>4, <4>2 DEF n
    <3> HIDE DEF new
    <3> QED BY <2>3, <2>4, <3>1
  <2> HIDE DEF new
  <2> QED BY <2>1, <2>3, <2>5, LimitAssumptions DEF Limits!Bucket, new
<1>2. CASE ~Limits!InBucket(bucket, time)
  <2>1. bucket # NoBucket => time >= bucket.start + Window
    <3>1. ASSUME bucket # NoBucket PROVE time >= bucket.start + Window
      <4>1. bucket.start \in Nat /\ time \in Nat
        BY <1>0, <3>1 DEF Limits!Bucket
      <4>2. ~(time < bucket.start + Window)
        BY <1>2, <3>1 DEF Limits!InBucket
      <4> HIDE DEF new
      <4> QED BY <4>1, <4>2, LimitAssumptions
    <3> QED BY <3>1
  <2>2. new = [start |-> time, count |-> 1]
    BY <1>2 DEF Limits!Counted
  <2>3. new \in [start : Limits!Time, count : 1 .. L] /\ new \in [start : Nat, count : Nat]
    BY <1>0, <2>2
  <2> HIDE DEF new
  <2> QED BY <2>1, <2>2, <2>3, LimitAssumptions DEF Limits!Bucket, new
<1> QED BY <1>1, <1>2

LEMMA Living ==
    ASSUME NEW bucket
    PROVE  \/ Limits!LiveBucket(bucket) = bucket
           \/ /\ Limits!LiveBucket(bucket) = NoBucket
              /\ ~(bucket # NoBucket /\ limitNow < bucket.start + Window)
  BY DEF Limits!LiveBucket, Limits!InBucket

(* A sweep or a denial deletes buckets that are over, and only those.      *)
LEMMA Sweeping ==
    ASSUME NEW s \in Server,
           byKey \in [Server -> [Client -> Limits!Bucket(Limits!Time, 1 .. PerKey)]]
    PROVE  /\ Limits!Swept(s) \in [Client -> Limits!Bucket(Limits!Time, 1 .. PerKey)]
           /\ \A c \in Client :
                  \/ Limits!Swept(s)[c] = byKey[s][c]
                  \/ Limits!Swept(s)[c] = Limits!LiveBucket(byKey[s][c])
<1>1. \A d \in Client : Limits!LiveBucket(byKey[s][d]) \in Limits!Bucket(Limits!Time, 1 .. PerKey)
  BY DEF Limits!LiveBucket, Limits!Bucket
<1> QED BY <1>1 DEF Limits!Swept

LEMMA TrackedFinite ==
    ASSUME NEW B, NEW G
    PROVE  IsFiniteSet(Tracked(B, G)) /\ Cardinality(Tracked(B, G)) \in Nat
<1>1. Tracked(B, G) \in SUBSET Client
  BY DEF Tracked
<1>2. IsFiniteSet(Tracked(B, G))
  BY <1>1, LimitAssumptions, FS_Subset
<1> QED BY <1>2, FS_CardinalityType

LEMMA DenialInTime ==
    ASSUME NEW time \in Nat,
           NEW B \in [Client -> Limits!Bucket(Limits!Time, 1 .. PerKey)],
           NEW G \in Limits!Bucket(Limits!Time, 1 .. Global),
           ServerInTime(B, G, time), NEW B2, NEW G2,
           \A c \in Client : B2[c] \in {B[c], NoBucket},
           \/ G2 = G
           \/ G2 = NoBucket /\ ~(G # NoBucket /\ time < G.start + Window)
    PROVE  ServerInTime(B2, G2, time)
<1> USE LimitAssumptions
<1>0. Limits!Time \subseteq Nat
  BY DEF Limits!Time
<1>1. ASSUME G2 # NoBucket
      PROVE  G2.start <= time /\ Cardinality(Tracked(B2, G2)) <= G2.count
  <2>1. G2 = G /\ G.start <= time /\ Cardinality(Tracked(B, G)) <= G.count /\ G.count \in Nat
    BY <1>1 DEF ServerInTime, Limits!Bucket
  <2>2. Tracked(B2, G) \in SUBSET Tracked(B, G)
    BY DEF Tracked
  <2>3. Cardinality(Tracked(B2, G)) <= Cardinality(Tracked(B, G))
    BY <2>2, TrackedFinite, FS_Subset
  <2>4. Cardinality(Tracked(B2, G)) \in Nat /\ Cardinality(Tracked(B, G)) \in Nat
    BY TrackedFinite
  <2>5. Cardinality(Tracked(B2, G)) <= G.count
    BY <2>1, <2>3, <2>4
  <2> QED BY <2>1, <2>5
<1>2. ASSUME NEW c \in Client, B2[c] # NoBucket
      PROVE  /\ B2[c].start <= time
             /\ G2 = NoBucket => B2[c].start < time
             /\ G2 # NoBucket => B2[c].start < G2.start + Window
  <2>1. B2[c] = B[c] /\ B[c] # NoBucket /\ B[c].start \in Nat
    BY <1>0, <1>2 DEF Limits!Bucket
  <2>2. /\ B[c].start <= time
        /\ G = NoBucket => B[c].start < time
        /\ G # NoBucket => B[c].start < G.start + Window
    BY <2>1 DEF ServerInTime
  <2>3. CASE G2 = G
    BY <2>1, <2>2, <2>3
  <2>4. CASE G2 = NoBucket /\ G # NoBucket /\ ~(time < G.start + Window)
    <3>1. G.start \in Nat
      BY <1>0, <2>4 DEF Limits!Bucket
    <3>2. B[c].start < time
      BY <2>1, <2>2, <2>4, <3>1
    <3> QED BY <2>1, <2>2, <2>4, <3>2
  <2> QED BY <2>3, <2>4
<1> QED BY <1>1, <1>2 DEF ServerInTime

LEMMA AdmissionInTime ==
    ASSUME NEW time \in Limits!Time, NEW k \in Client,
           NEW B \in [Client -> Limits!Bucket(Limits!Time, 1 .. PerKey)],
           NEW G \in Limits!Bucket(Limits!Time, 1 .. Global),
           ServerInTime(B, G, time),
           Limits!Admits(B[k], time, PerKey), Limits!Admits(G, time, Global),
           NEW B2, \A c \in Client \ {k} : B2[c] \in {B[c], NoBucket},
           B2[k] = Limits!Counted(B[k], time)
    PROVE  ServerInTime(B2, Limits!Counted(G, time), time)
<1> DEFINE b == B[k]  b2 == B2[k]  G2 == Limits!Counted(G, time)
<1> USE LimitAssumptions
<1>0. Limits!Time \subseteq Nat /\ time \in Nat
  BY DEF Limits!Time
<1>b. b \in Limits!Bucket(Limits!Time, 1 .. PerKey)
  OBVIOUS
<1>1. /\ b2 \in [start : Limits!Time, count : 1 .. PerKey]
      /\ b2 # NoBucket
      /\ \/ b # NoBucket /\ time < b.start + Window /\ b2.start = b.start
         \/ (b # NoBucket => time >= b.start + Window) /\ b2.start = time
  <2> HIDE DEF b
  <2> QED BY <1>b, Counting DEF b
<1>2. /\ G2 \in [start : Limits!Time, count : 1 .. Global]
      /\ G2 # NoBucket
      /\ \/ /\ G # NoBucket /\ time < G.start + Window
            /\ G2.start = G.start /\ G2.count = G.count + 1
         \/ /\ G # NoBucket => time >= G.start + Window
            /\ G2.start = time /\ G2.count = 1
  BY Counting
<1> HIDE DEF b2, G2
<1>3. ASSUME NEW c \in Client, B[c] # NoBucket
      PROVE  /\ B[c].start \in Nat /\ B[c].start <= time
             /\ G = NoBucket => B[c].start < time
             /\ G # NoBucket => B[c].start < G.start + Window
  BY <1>0, <1>3 DEF ServerInTime, Limits!Bucket
<1>g. G # NoBucket => G.start \in Nat /\ G.count \in Nat /\ G.start <= time
  <2>1. G # NoBucket => G.start \in Limits!Time /\ G.count \in 1 .. Global
    BY DEF Limits!Bucket
  <2>2. G # NoBucket => G.start <= time
    BY DEF ServerInTime
  <2>3. 1 .. Global \subseteq Nat
    OBVIOUS
  <2> QED BY <1>0, <2>1, <2>2, <2>3
<1>4. G2.start \in Nat /\ G2.count \in Nat /\ G2.start <= time
  <2>1. G2.start \in Limits!Time /\ G2.count \in 1 .. Global
    BY <1>2
  <2> QED BY <1>0, <1>2, <1>g, <2>1
<1>5. /\ b2.start \in Nat /\ b2.start <= time
      /\ b2.start = time \/ (b # NoBucket /\ b2.start = b.start)
  BY <1>0, <1>1, <1>3
<1>6. ASSUME NEW c \in Client \ {k}, B2[c] # NoBucket
      PROVE  B2[c] = B[c] /\ B[c] # NoBucket
  BY <1>6
(* The windows that a later global one would not have counted are over.    *)
<1>7. ASSUME NEW c \in Client, B[c] # NoBucket, ~(G # NoBucket /\ time < G.start + Window)
      PROVE  B[c].start < time
  BY <1>0, <1>3, <1>7, <1>g
<1>8. ASSUME NEW c \in Client, B2[c] # NoBucket
      PROVE  B2[c].start <= time /\ B2[c].start < G2.start + Window
  <2>1. CASE c = k
    <3>1. B2[c] = b2
      BY <2>1 DEF b2
    <3>2. CASE G # NoBucket /\ time < G.start + Window /\ G2.start = G.start
      <4>1. CASE b2.start = time
        BY <1>5, <1>g, <3>1, <3>2, <4>1
      <4>2. CASE b # NoBucket /\ b2.start = b.start
        BY <1>3, <1>5, <1>g, <3>1, <3>2, <4>2
      <4> QED BY <1>5, <4>1, <4>2
    <3>3. CASE G2.start = time
      BY <1>0, <1>5, <3>1, <3>3
    <3> QED BY <1>2, <3>2, <3>3
  <2>2. CASE c # k
    <3>1. B2[c] = B[c] /\ B[c] # NoBucket
      BY <1>6, <1>8, <2>2
    <3>2. CASE G # NoBucket /\ time < G.start + Window /\ G2.start = G.start
      BY <1>3, <1>g, <3>1, <3>2
    <3>3. CASE G2.start = time
      BY <1>0, <1>3, <3>1, <3>3
    <3> QED BY <1>2, <3>2, <3>3
  <2> QED BY <2>1, <2>2
<1>9. Cardinality(Tracked(B2, G2)) <= G2.count
  <2>1. CASE G # NoBucket /\ G2.start = G.start /\ G2.count = G.count + 1
    <3>1. Tracked(B2, G2) \in SUBSET (Tracked(B, G) \cup {k})
      BY <1>6, <2>1 DEF Tracked
    <3>2. /\ IsFiniteSet(Tracked(B, G)) /\ Cardinality(Tracked(B, G)) \in Nat
          /\ Cardinality(Tracked(B2, G2)) \in Nat
      BY TrackedFinite
    <3>3. /\ IsFiniteSet(Tracked(B, G) \cup {k})
          /\ Cardinality(Tracked(B, G) \cup {k}) <= Cardinality(Tracked(B, G)) + 1
          /\ Cardinality(Tracked(B, G) \cup {k}) \in Nat
      BY <3>2, OneMember
    <3>4. Cardinality(Tracked(B2, G2)) <= Cardinality(Tracked(B, G) \cup {k})
      BY <3>1, <3>3, FS_Subset
    <3>5. Cardinality(Tracked(B, G)) <= G.count
      BY <2>1 DEF ServerInTime
    <3> QED BY <1>g, <2>1, <3>2, <3>3, <3>4, <3>5
  <2>2. CASE /\ ~(G # NoBucket /\ time < G.start + Window)
             /\ G2.start = time /\ G2.count = 1
    <3>1. Tracked(B2, G2) \in SUBSET {k}
      <4>1. SUFFICES ASSUME NEW c \in Tracked(B2, G2), c # k PROVE FALSE
        OBVIOUS
      <4>2. c \in Client /\ B2[c] # NoBucket /\ B2[c].start >= time
        BY <2>2 DEF Tracked
      <4>3. B2[c] = B[c] /\ B[c] # NoBucket
        BY <1>6, <4>1, <4>2
      <4>4. B[c].start < time /\ B[c].start \in Nat
        BY <1>3, <1>7, <2>2, <4>2, <4>3
      <4> QED BY <1>0, <4>2, <4>3, <4>4
    <3>2. IsFiniteSet({k}) /\ Cardinality({k}) = 1
      BY FS_Singleton
    <3>3. Cardinality(Tracked(B2, G2)) <= 1
      BY <3>1, <3>2, FS_Subset
    <3> QED BY <2>2, <3>3
  <2>3. \/ G # NoBucket /\ G2.start = G.start /\ G2.count = G.count + 1
        \/ /\ ~(G # NoBucket /\ time < G.start + Window)
           /\ G2.start = time /\ G2.count = 1
    BY <1>0, <1>2, <1>g
  <2> QED BY <2>1, <2>2, <2>3
<1> QED BY <1>2, <1>4, <1>8, <1>9 DEF ServerInTime, G2

LEMMA LimitTypes == LimitShapes =>
    /\ limitNow \in 0 .. MaxTime /\ limitNow \in Nat /\ limitNow \in Limits!Time
    /\ byKey \in [Server -> [Client -> Limits!Bucket(Limits!Time, 1 .. PerKey)]]
    /\ global \in [Server -> Limits!Bucket(Limits!Time, 1 .. Global)]
    /\ limitCalls \in [Server -> 0 .. SweepEvery - 1]
    /\ counter \in [Client -> [Limits!Index -> Limits!Counters \cup {None}]]
    /\ request \in [Handler -> Limits!Local]
    /\ local \in [Server -> [Client -> [Limits!Time -> Nat]]]
    /\ shared \in [Client -> [Limits!Index -> Nat]]
  BY LimitAssumptions DEF LimitShapes, Limits!TypeOK, Limits!Time

(* A request is put in another state.                                      *)
LEMMA RequestPut ==
    ASSUME LimitShapes, NEW r \in Handler, NEW l \in Limits!Local, Limits!Put(r, l),
           limitNow' = limitNow,
           l.pc = "wire" => /\ l.index = l.at \div Window
                            /\ l.at <= limitNow /\ limitNow <= l.at + MaxDelay,
           l.pc = "late" => l.index * Window <= limitNow
    PROVE  request' \in [Handler -> Limits!Local] /\ CommandsInTime'
<1>1. request \in [Handler -> Limits!Local]
  BY LimitTypes
<1>2. /\ request' \in [Handler -> Limits!Local]
      /\ request'[r] = l
      /\ \A q \in Handler : q # r => request'[q] = request[q]
  BY <1>1 DEF Limits!Put
<1>3. ASSUME NEW q \in Handler
      PROVE  /\ request'[q].pc = "wire" =>
                    /\ request'[q].index = request'[q].at \div Window
                    /\ request'[q].at <= limitNow /\ limitNow <= request'[q].at + MaxDelay
             /\ request'[q].pc = "late" => request'[q].index * Window <= limitNow
  <2>1. CASE q = r
    BY <1>2, <2>1
  <2>2. CASE q # r
    <3>1. request'[q] = request[q]
      BY <1>2, <2>2
    <3> QED BY <3>1 DEF LimitShapes, CommandsInTime
  <2> QED BY <2>1, <2>2
<1>4. CommandsInTime'
  BY <1>3 DEF CommandsInTime
<1> QED BY <1>2, <1>4

LEMMA IdleRequest == Limits!Idle \in Limits!Local /\ Limits!Idle.pc = "idle"
  BY DEF Limits!Local, Limits!Idle

(* The limiter of one process.                                             *)
LEMMA ServerKeeps ==
    ASSUME LimitShapes, NEW s \in Server,
           NEW B \in [Client -> Limits!Bucket(Limits!Time, 1 .. PerKey)],
           NEW G \in Limits!Bucket(Limits!Time, 1 .. Global),
           ServerInTime(B, G, limitNow),
           byKey' = [byKey EXCEPT ![s] = B], global' = [global EXCEPT ![s] = G],
           limitNow' = limitNow
    PROVE  /\ byKey' \in [Server -> [Client -> Limits!Bucket(Limits!Time, 1 .. PerKey)]]
           /\ global' \in [Server -> Limits!Bucket(Limits!Time, 1 .. Global)]
           /\ StartsInTime'
<1>1. /\ byKey \in [Server -> [Client -> Limits!Bucket(Limits!Time, 1 .. PerKey)]]
      /\ global \in [Server -> Limits!Bucket(Limits!Time, 1 .. Global)]
  BY LimitTypes
<1>2. ASSUME NEW q \in Server PROVE ServerInTime(byKey'[q], global'[q], limitNow)
  <2>1. CASE q = s
    <3>1. byKey'[q] = B /\ global'[q] = G
      BY <1>1, <2>1
    <3> QED BY <3>1
  <2>2. CASE q # s
    <3>1. byKey'[q] = byKey[q] /\ global'[q] = global[q]
      BY <1>1, <2>2
    <3> QED BY <3>1 DEF LimitShapes, StartsInTime
  <2> QED BY <2>1, <2>2
<1>3. StartsInTime'
  BY <1>2 DEF StartsInTime
<1> QED BY <1>1, <1>3

LEMMA LocalAllowShapes ==
    ASSUME LimitShapes, NEW r \in Handler, NEW s \in Server, NEW c \in Client,
           Limits!LocalAllow(r, s, c)
    PROVE  LimitShapes'
<1> DEFINE B == [Limits!Swept(s) EXCEPT ![c] = Limits!Counted(byKey[s][c], limitNow)]
           G == Limits!Counted(global[s], limitNow)
           l == [pc |-> "send", client |-> c]
<1> USE LimitAssumptions
<1>0. /\ limitNow \in 0 .. MaxTime /\ limitNow \in Nat /\ limitNow \in Limits!Time
      /\ byKey \in [Server -> [Client -> Limits!Bucket(Limits!Time, 1 .. PerKey)]]
      /\ global \in [Server -> Limits!Bucket(Limits!Time, 1 .. Global)]
      /\ limitCalls \in [Server -> 0 .. SweepEvery - 1]
      /\ local \in [Server -> [Client -> [Limits!Time -> Nat]]]
  BY LimitTypes
<1>1. /\ Limits!Admits(byKey[s][c], limitNow, PerKey)
      /\ Limits!Admits(global[s], limitNow, Global)
      /\ byKey' = [byKey EXCEPT ![s] = B]
      /\ global' = [global EXCEPT ![s] = G]
      /\ limitCalls' = [limitCalls EXCEPT ![s] = (limitCalls[s] + 1) % SweepEvery]
      /\ local' = [local EXCEPT ![s][c][limitNow] = @ + 1]
      /\ Limits!Put(r, l)
      /\ UNCHANGED <<limitNow, counter, shared>>
  BY DEF Limits!LocalAllow, Limits!Called
<1>2. /\ Limits!Swept(s) \in [Client -> Limits!Bucket(Limits!Time, 1 .. PerKey)]
      /\ \A d \in Client : \/ Limits!Swept(s)[d] = byKey[s][d]
                        \/ Limits!Swept(s)[d] = Limits!LiveBucket(byKey[s][d])
  BY <1>0, Sweeping
<1>3. Limits!Counted(byKey[s][c], limitNow) \in Limits!Bucket(Limits!Time, 1 .. PerKey)
  <2>1. byKey[s][c] \in Limits!Bucket(Limits!Time, 1 .. PerKey)
    BY <1>0
  <2> QED BY <1>0, <1>1, <2>1, Counting
<1>4. G \in Limits!Bucket(Limits!Time, 1 .. Global)
  <2>1. global[s] \in Limits!Bucket(Limits!Time, 1 .. Global)
    BY <1>0
  <2> QED BY <1>0, <1>1, <2>1, Counting
<1>5. /\ B \in [Client -> Limits!Bucket(Limits!Time, 1 .. PerKey)]
      /\ B[c] = Limits!Counted(byKey[s][c], limitNow)
      /\ \A d \in Client \ {c} : B[d] = Limits!Swept(s)[d]
  BY <1>2, <1>3
<1>6. \A d \in Client \ {c} : B[d] \in {byKey[s][d], NoBucket}
  BY <1>2, <1>5, Living
<1> HIDE DEF B
<1>7. ServerInTime(B, G, limitNow)
  <2>1. /\ byKey[s] \in [Client -> Limits!Bucket(Limits!Time, 1 .. PerKey)]
        /\ global[s] \in Limits!Bucket(Limits!Time, 1 .. Global)
        /\ ServerInTime(byKey[s], global[s], limitNow)
    BY <1>0 DEF LimitShapes, StartsInTime
  <2> QED BY <1>0, <1>1, <1>5, <1>6, <2>1, AdmissionInTime
<1> HIDE DEF G
<1>8. /\ byKey' \in [Server -> [Client -> Limits!Bucket(Limits!Time, 1 .. PerKey)]]
      /\ global' \in [Server -> Limits!Bucket(Limits!Time, 1 .. Global)]
      /\ StartsInTime'
  BY <1>1, <1>4, <1>5, <1>7, ServerKeeps
<1>9. l \in Limits!Local /\ l.pc = "send"
  BY DEF Limits!Local
<1> HIDE DEF l
<1>10. request' \in [Handler -> Limits!Local] /\ CommandsInTime'
  BY <1>1, <1>9, RequestPut
<1>11. limitCalls' \in [Server -> 0 .. SweepEvery - 1]
  BY <1>0, <1>1
<1>12. local' \in [Server -> [Client -> [Limits!Time -> Nat]]]
  BY <1>0, <1>1
<1>13. Limits!TypeOK'
  BY <1>1, <1>8, <1>10, <1>11, <1>12 DEF LimitShapes, Limits!TypeOK
<1> QED BY <1>8, <1>10, <1>13 DEF LimitShapes

LEMMA LocalDenyShapes ==
    ASSUME LimitShapes, NEW s \in Server, NEW c \in Client, Limits!LocalDeny(s, c)
    PROVE  LimitShapes'
<1> DEFINE swept == Limits!Swept(s)
           B == [swept EXCEPT ![c] = Limits!LiveBucket(@)]
           G == Limits!LiveBucket(global[s])
<1> USE LimitAssumptions
<1>0. /\ limitNow \in 0 .. MaxTime /\ limitNow \in Nat /\ limitNow \in Limits!Time
      /\ byKey \in [Server -> [Client -> Limits!Bucket(Limits!Time, 1 .. PerKey)]]
      /\ global \in [Server -> Limits!Bucket(Limits!Time, 1 .. Global)]
      /\ limitCalls \in [Server -> 0 .. SweepEvery - 1]
  BY LimitTypes
<1>1. /\ byKey' = [byKey EXCEPT ![s] = B]
      /\ global' = [global EXCEPT ![s] = G]
      /\ limitCalls' = [limitCalls EXCEPT ![s] = (limitCalls[s] + 1) % SweepEvery]
      /\ UNCHANGED <<limitNow, counter, request, local, shared>>
  BY DEF Limits!LocalDeny, Limits!Called
<1>2. /\ swept \in [Client -> Limits!Bucket(Limits!Time, 1 .. PerKey)]
      /\ \A d \in Client : \/ swept[d] = byKey[s][d]
                        \/ swept[d] = Limits!LiveBucket(byKey[s][d])
  BY <1>0, Sweeping
<1>3. \A bucket : Limits!LiveBucket(bucket) \in {bucket, NoBucket}
  BY Living
<1>4. G \in Limits!Bucket(Limits!Time, 1 .. Global)
  BY <1>0, <1>3 DEF Limits!Bucket
<1> HIDE DEF swept
<1>5. /\ B \in [Client -> Limits!Bucket(Limits!Time, 1 .. PerKey)]
      /\ \A d \in Client : B[d] \in {byKey[s][d], NoBucket}
  <2>1. Limits!LiveBucket(swept[c]) \in Limits!Bucket(Limits!Time, 1 .. PerKey)
    BY <1>2, <1>3 DEF Limits!Bucket
  <2>2. \A d \in Client : swept[d] \in {byKey[s][d], NoBucket}
    BY <1>2, <1>3
  <2>3. Limits!LiveBucket(swept[c]) \in {byKey[s][c], NoBucket}
    BY <1>3, <2>2
  <2>4. \A d \in Client : B[d] = IF d = c THEN Limits!LiveBucket(swept[c]) ELSE swept[d]
    BY <1>2
  <2>5. B \in [Client -> Limits!Bucket(Limits!Time, 1 .. PerKey)]
    BY <1>2, <2>1
  <2> QED BY <2>2, <2>3, <2>4, <2>5
<1> HIDE DEF B
<1>7. ServerInTime(B, G, limitNow)
  <2>1. /\ byKey[s] \in [Client -> Limits!Bucket(Limits!Time, 1 .. PerKey)]
        /\ global[s] \in Limits!Bucket(Limits!Time, 1 .. Global)
        /\ ServerInTime(byKey[s], global[s], limitNow)
    BY <1>0 DEF LimitShapes, StartsInTime
  <2>2. \/ G = global[s]
        \/ G = NoBucket /\ ~(global[s] # NoBucket /\ limitNow < global[s].start + Window)
    BY Living
  <2> HIDE DEF G
  <2> QED BY <1>0, <1>5, <2>1, <2>2, DenialInTime
<1> HIDE DEF G
<1>8. /\ byKey' \in [Server -> [Client -> Limits!Bucket(Limits!Time, 1 .. PerKey)]]
      /\ global' \in [Server -> Limits!Bucket(Limits!Time, 1 .. Global)]
      /\ StartsInTime'
  BY <1>1, <1>4, <1>5, <1>7, ServerKeeps
<1>9. limitCalls' \in [Server -> 0 .. SweepEvery - 1]
  BY <1>0, <1>1
<1>10. CommandsInTime'
  BY <1>1 DEF LimitShapes, CommandsInTime
<1>11. Limits!TypeOK'
  BY <1>1, <1>8, <1>9 DEF LimitShapes, Limits!TypeOK
<1> QED BY <1>8, <1>10, <1>11 DEF LimitShapes

(* What a command does to the counter of its window.                       *)
LEMMA Increments ==
    ASSUME LimitShapes, NEW c \in Client, NEW i \in Limits!Index
    PROVE  LET new == Limits!Incremented(c, i)
               old == counter[c][i]
           IN  /\ new \in Limits!Counters
               /\ \/ /\ old # None /\ old \in Limits!Counters /\ limitNow < old.until
                     /\ new.until = old.until
                     /\ new.count = IF old.count > PerKey THEN old.count ELSE old.count + 1
                  \/ /\ old # None => old \in Limits!Counters /\ limitNow >= old.until
                     /\ new.until = limitNow + Window + Grace
                     /\ new.count = 1
<1> DEFINE old == counter[c][i]
           zero == [count |-> 0, until |-> limitNow + Limits!Lifetime]
           new == Limits!Incremented(c, i)
<1> USE LimitAssumptions
<1>0. limitNow \in Nat /\ old \in Limits!Counters \cup {None}
  BY LimitTypes
<1>1. CASE old # None /\ limitNow < old.until
  <2>1. /\ old \in [count : 1 .. PerKey + 1, until : Nat]
        /\ new = [old EXCEPT !.count = IF @ > PerKey THEN @ ELSE @ + 1]
    BY <1>0, <1>1 DEF Limits!Incremented, Limits!Existing, Limits!Counters
  <2> HIDE DEF old, new
  <2>2. new = [count |-> IF old.count > PerKey THEN old.count ELSE old.count + 1,
               until |-> old.until]
    BY <2>1
  <2>3. (IF old.count > PerKey THEN old.count ELSE old.count + 1) \in 1 .. PerKey + 1
    BY <2>1
  <2> QED BY <1>1, <2>1, <2>2, <2>3 DEF Limits!Counters, old, new
<1>2. CASE ~(old # None /\ limitNow < old.until)
  <2>1. new = [zero EXCEPT !.count = IF @ > PerKey THEN @ ELSE @ + 1]
    BY <1>2 DEF Limits!Incremented, Limits!Existing
  <2>2. zero = [count |-> 0, until |-> limitNow + Window + Grace]
    BY <1>0 DEF Limits!Lifetime
  <2> HIDE DEF old, new, zero
  <2>3. new = [count |-> 1, until |-> limitNow + Window + Grace]
    BY <2>1, <2>2
  <2>4. old # None => old \in Limits!Counters /\ limitNow >= old.until
    BY <1>0, <1>2 DEF Limits!Counters
  <2>5. new \in Limits!Counters
    BY <1>0, <2>3 DEF Limits!Counters
  <2> QED BY <2>3, <2>4, <2>5 DEF old, new
<1> QED BY <1>1, <1>2

LEMMA RequestShapes ==
    ASSUME LimitShapes, NEW r \in Handler,
           \/ Limits!Send(r) \/ Limits!Incr(r) \/ Limits!Unavailable(r)
           \/ Limits!LateIncr(r) \/ Limits!Lost(r)
    PROVE  LimitShapes'
<1> DEFINE me == request[r]
           Steps(l) == /\ l \in Limits!Local /\ Limits!Put(r, l)
                       /\ l.pc = "wire" => /\ l.index = l.at \div Window
                                           /\ l.at <= limitNow
                                           /\ limitNow <= l.at + MaxDelay
                       /\ l.pc = "late" => l.index * Window <= limitNow
                       /\ UNCHANGED <<limitNow, byKey, global, limitCalls, local>>
                       /\ counter' \in [Client -> [Limits!Index -> Limits!Counters \cup {None}]]
                       /\ shared' \in [Client -> [Limits!Index -> Nat]]
<1> USE LimitAssumptions
<1>0. /\ limitNow \in 0 .. MaxTime /\ limitNow \in Nat /\ limitNow \in Limits!Time
      /\ counter \in [Client -> [Limits!Index -> Limits!Counters \cup {None}]]
      /\ request \in [Handler -> Limits!Local]
      /\ shared \in [Client -> [Limits!Index -> Nat]]
  BY LimitTypes
<1>m. /\ me \in Limits!Local
      /\ me.pc = "wire" => /\ me.index = me.at \div Window /\ me.at \in Nat
                           /\ me.at <= limitNow /\ limitNow <= me.at + MaxDelay
      /\ me.pc = "late" => me.index * Window <= limitNow
      /\ me.pc \in {"send", "wire", "late"} => me.client \in Client
      /\ me.pc \in {"wire", "late"} => me.index \in Limits!Index
  <2>1. me \in Limits!Local
    BY <1>0
  <2>2. me.pc = "wire" => me.at \in Nat
    BY <2>1, RequestFields DEF Limits!Time
  <2> QED BY <2>1, <2>2, RequestFields DEF LimitShapes, CommandsInTime
<1>1. ASSUME NEW l, Steps(l) PROVE LimitShapes'
  <2>1. request' \in [Handler -> Limits!Local] /\ CommandsInTime'
    BY <1>1, RequestPut
  <2>2. StartsInTime'
    BY <1>1 DEF LimitShapes, StartsInTime
  <2>3. Limits!TypeOK'
    BY <1>1, <2>1 DEF LimitShapes, Limits!TypeOK
  <2> QED BY <2>1, <2>2, <2>3 DEF LimitShapes
<1> HIDE DEF me
<1>2. ASSUME Limits!Send(r) PROVE \E l : Steps(l)
  <2> DEFINE i == limitNow \div Window
             l == [pc |-> "wire", client |-> me.client, index |-> i, at |-> limitNow]
  <2>1. /\ me.pc = "send" /\ Limits!Put(r, l)
        /\ UNCHANGED <<limitNow, byKey, global, limitCalls, counter, local, shared>>
    BY <1>2 DEF Limits!Send, Limits!limiter, me
  <2>2. i \in Nat /\ i <= MaxTime \div Window /\ MaxTime \div Window \in Nat
    <3>1. limitNow <= MaxTime
      BY <1>0
    <3>2. limitNow \div Window \in Nat /\ limitNow \div Window <= MaxTime \div Window
      BY <1>0, <3>1, IndexOf
    <3>3. MaxTime \div Window \in Nat
      BY IndexOf
    <3> QED BY <3>2, <3>3
  <2>3. i \in Limits!Index
    BY <2>2 DEF Limits!Index
  <2>4. l \in Limits!Local
    BY <1>0, <1>m, <2>1, <2>3 DEF Limits!Local
  <2>5. l.pc = "wire" /\ l.index = l.at \div Window /\ l.at = limitNow
    OBVIOUS
  <2> HIDE DEF l
  <2>6. Steps(l)
    BY <1>0, <2>1, <2>4, <2>5
  <2> QED BY <2>6
<1> HIDE DEF Steps
<1>c. ASSUME me.pc \in {"wire", "late"},
             counter' = [counter EXCEPT ![me.client][me.index] =
                            Limits!Incremented(me.client, me.index)]
      PROVE  counter' \in [Client -> [Limits!Index -> Limits!Counters \cup {None}]]
  <2>1. me.client \in Client /\ me.index \in Limits!Index
    BY <1>c, <1>m
  <2>2. Limits!Incremented(me.client, me.index) \in Limits!Counters
    BY <2>1, Increments
  <2> QED BY <1>0, <1>c, <2>1, <2>2
<1>3. ASSUME Limits!Incr(r) PROVE Steps(Limits!Idle)
  <2>1. /\ me.pc = "wire" /\ Limits!Put(r, Limits!Idle)
        /\ UNCHANGED <<limitNow, byKey, global, limitCalls, local>>
        /\ counter' = [counter EXCEPT ![me.client][me.index] =
                            Limits!Incremented(me.client, me.index)]
        /\ \/ shared' = shared
           \/ shared' = [shared EXCEPT ![me.client][me.index] = @ + 1]
    BY <1>3 DEF Limits!Incr, Limits!limiter, me
  <2>2. counter' \in [Client -> [Limits!Index -> Limits!Counters \cup {None}]]
    BY <1>c, <2>1
  <2>3. me.client \in Client /\ me.index \in Limits!Index
    BY <1>m, <2>1
  <2>4. shared' \in [Client -> [Limits!Index -> Nat]]
    <3>1. CASE shared' = shared
      BY <1>0, <3>1
    <3>2. CASE shared' = [shared EXCEPT ![me.client][me.index] = @ + 1]
      <4>1. shared[me.client][me.index] + 1 \in Nat
        BY <1>0, <2>3
      <4> QED BY <1>0, <2>3, <3>2, <4>1
    <3> QED BY <2>1, <3>1, <3>2
  <2> QED BY <2>1, <2>2, <2>4, IdleRequest DEF Steps
<1>4. ASSUME Limits!Unavailable(r) PROVE \E l : Steps(l)
  <2> DEFINE l == [pc |-> "late", client |-> me.client, index |-> me.index]
  <2>1. /\ me.pc = "wire" /\ Limits!Put(r, l)
        /\ UNCHANGED <<limitNow, byKey, global, limitCalls, counter, local, shared>>
    BY <1>4 DEF Limits!Unavailable, Limits!limiter, me
  <2>2. /\ me.client \in Client /\ me.index \in Limits!Index
        /\ me.index = me.at \div Window /\ me.at \in Nat /\ me.at <= limitNow
    BY <1>m, <2>1
  <2>3. me.index * Window <= limitNow
    <3>1. (me.at \div Window) * Window <= me.at /\ me.at \div Window \in Nat
      BY <2>2, IndexOf
    <3> DEFINE x == (me.at \div Window) * Window
    <3>2. x <= me.at /\ x \in Int
      BY <3>1
    <3> HIDE DEF x
    <3>3. x <= limitNow
      BY <1>0, <2>2, <3>2
    <3> QED BY <2>2, <3>3 DEF x
  <2>4. l \in Limits!Local /\ l.pc = "late" /\ l.index = me.index
    BY <2>2 DEF Limits!Local
  <2> HIDE DEF l
  <2>5. Steps(l)
    BY <1>0, <2>1, <2>3, <2>4 DEF Steps
  <2> QED BY <2>5
<1>5. ASSUME Limits!LateIncr(r) PROVE Steps(Limits!Idle)
  <2>1. /\ me.pc = "late" /\ Limits!Put(r, Limits!Idle)
        /\ UNCHANGED <<limitNow, byKey, global, limitCalls, local, shared>>
        /\ counter' = [counter EXCEPT ![me.client][me.index] =
                            Limits!Incremented(me.client, me.index)]
    BY <1>5 DEF Limits!LateIncr, Limits!limiter, me
  <2>2. counter' \in [Client -> [Limits!Index -> Limits!Counters \cup {None}]]
    BY <1>c, <2>1
  <2> QED BY <1>0, <2>1, <2>2, IdleRequest DEF Steps
<1>6. ASSUME Limits!Lost(r) PROVE Steps(Limits!Idle)
  BY <1>0, <1>6, IdleRequest DEF Steps, Limits!Lost, Limits!limiter
<1> QED BY <1>1, <1>2, <1>3, <1>4, <1>5, <1>6

LEMMA RestartShapes ==
    ASSUME LimitShapes, NEW s \in Server, Limits!Restart(s)
    PROVE  LimitShapes'
<1> DEFINE B == [c \in Client |-> NoBucket]
<1> USE LimitAssumptions
<1>0. /\ limitCalls \in [Server -> 0 .. SweepEvery - 1]
      /\ local \in [Server -> [Client -> [Limits!Time -> Nat]]]
  BY LimitTypes
<1>1. /\ byKey' = [byKey EXCEPT ![s] = B]
      /\ global' = [global EXCEPT ![s] = NoBucket]
      /\ limitCalls' = [limitCalls EXCEPT ![s] = 0]
      /\ local' = [local EXCEPT ![s] = [c \in Client |-> [t \in Limits!Time |-> 0]]]
      /\ UNCHANGED <<limitNow, counter, request, shared>>
  BY DEF Limits!Restart
<1>2. /\ B \in [Client -> Limits!Bucket(Limits!Time, 1 .. PerKey)]
      /\ NoBucket \in Limits!Bucket(Limits!Time, 1 .. Global)
      /\ ServerInTime(B, NoBucket, limitNow)
  BY DEF Limits!Bucket, ServerInTime
<1> HIDE DEF B
<1>3. /\ byKey' \in [Server -> [Client -> Limits!Bucket(Limits!Time, 1 .. PerKey)]]
      /\ global' \in [Server -> Limits!Bucket(Limits!Time, 1 .. Global)]
      /\ StartsInTime'
  BY <1>1, <1>2, ServerKeeps
<1>4. limitCalls' \in [Server -> 0 .. SweepEvery - 1]
  BY <1>0, <1>1
<1>5. local' \in [Server -> [Client -> [Limits!Time -> Nat]]]
  BY <1>0, <1>1
<1>6. CommandsInTime'
  BY <1>1 DEF LimitShapes, CommandsInTime
<1>7. Limits!TypeOK'
  BY <1>1, <1>3, <1>4, <1>5 DEF LimitShapes, Limits!TypeOK
<1> QED BY <1>3, <1>6, <1>7 DEF LimitShapes

LEMMA LimitTickShapes == ASSUME LimitShapes, Limits!Tick PROVE LimitShapes'
<1> USE LimitAssumptions
<1>0. /\ limitNow \in 0 .. MaxTime /\ limitNow \in Nat
      /\ byKey \in [Server -> [Client -> Limits!Bucket(Limits!Time, 1 .. PerKey)]]
      /\ global \in [Server -> Limits!Bucket(Limits!Time, 1 .. Global)]
      /\ request \in [Handler -> Limits!Local]
  BY LimitTypes
<1>1. /\ limitNow < MaxTime /\ limitNow' = limitNow + 1
      /\ \A r \in Handler : request[r].pc = "wire" => limitNow < request[r].at + MaxDelay
      /\ UNCHANGED <<byKey, global, limitCalls, counter, request, local, shared>>
  BY DEF Limits!Tick, Limits!limiter
<1>2. limitNow' \in Limits!Time
  BY <1>0, <1>1 DEF Limits!Time
<1>3. Limits!TypeOK'
  BY <1>1, <1>2 DEF LimitShapes, Limits!TypeOK
<1>4. ASSUME NEW r \in Handler
      PROVE  /\ request[r].pc = "wire" =>
                    /\ request[r].index = request[r].at \div Window
                    /\ request[r].at <= limitNow' /\ limitNow' <= request[r].at + MaxDelay
             /\ request[r].pc = "late" => request[r].index * Window <= limitNow'
  <2> DEFINE me == request[r]
  <2>1. me.pc = "wire" => me.at \in Nat
    BY <1>0, RequestFields DEF Limits!Time
  <2>2. me.pc = "late" => me.index \in Nat
    <3>1. MaxTime \div Window \in Nat
      BY IndexOf
    <3> QED BY <1>0, <3>1, RequestFields DEF Limits!Index
  <2>3. /\ me.pc = "wire" => /\ me.index = me.at \div Window
                             /\ me.at <= limitNow /\ limitNow < me.at + MaxDelay
        /\ me.pc = "late" => me.index * Window <= limitNow
    BY <1>1 DEF LimitShapes, CommandsInTime
  <2> HIDE DEF me
  <2>4. CASE me.pc = "wire"
    BY <1>0, <1>1, <2>1, <2>3, <2>4 DEF me
  <2>5. CASE me.pc = "late"
    <3> DEFINE x == me.index * Window
    <3>1. x \in Nat /\ x <= limitNow
      BY <2>2, <2>3, <2>5
    <3> HIDE DEF x
    <3>2. x <= limitNow'
      BY <1>0, <1>1, <3>1
    <3> QED BY <2>5, <3>2 DEF x, me
  <2>6. CASE me.pc \notin {"wire", "late"}
    BY <2>6 DEF me
  <2> QED BY <2>4, <2>5, <2>6
<1>5. CommandsInTime'
  BY <1>1, <1>4 DEF CommandsInTime
<1>6. ASSUME NEW s \in Server PROVE ServerInTime(byKey[s], global[s], limitNow')
  <2>1. /\ byKey[s] \in [Client -> Limits!Bucket(Limits!Time, 1 .. PerKey)]
        /\ global[s] \in Limits!Bucket(Limits!Time, 1 .. Global)
        /\ ServerInTime(byKey[s], global[s], limitNow)
    BY <1>0 DEF LimitShapes, StartsInTime
  <2>2. \A c \in Client : byKey[s][c] # NoBucket => byKey[s][c].start \in Nat
    BY <2>1 DEF Limits!Bucket, Limits!Time
  <2>3. global[s] # NoBucket => global[s].start \in Nat
    BY <2>1 DEF Limits!Bucket, Limits!Time
  <2> QED BY <1>0, <1>1, <2>1, <2>2, <2>3 DEF ServerInTime
<1>7. StartsInTime'
  BY <1>1, <1>6 DEF StartsInTime
<1> QED BY <1>3, <1>5, <1>7 DEF LimitShapes

LEMMA LimitStepShapes ==
    ASSUME LimitShapes, [Limits!Next]_(Limits!vars) PROVE LimitShapes'
<1>1. CASE UNCHANGED Limits!vars
  <2>1. UNCHANGED <<limitNow, byKey, global, limitCalls, counter, request, local, shared>>
    BY <1>1 DEF Limits!vars, Limits!limiter
  <2>2. Limits!TypeOK'
    BY <2>1 DEF LimitShapes, Limits!TypeOK
  <2>3. CommandsInTime'
    BY <2>1 DEF LimitShapes, CommandsInTime
  <2>4. StartsInTime'
    BY <2>1 DEF LimitShapes, StartsInTime
  <2> QED BY <2>2, <2>3, <2>4 DEF LimitShapes
<1> QED BY <1>1, LocalAllowShapes, LocalDenyShapes, RequestShapes, RestartShapes,
           LimitTickShapes DEF Limits!Next

LEMMA LimitInitShapes == ASSUME Limits!Init PROVE LimitShapes
<1> USE LimitAssumptions
<1>1. /\ limitNow = 0
      /\ byKey = [s \in Server |-> [c \in Client |-> NoBucket]]
      /\ global = [s \in Server |-> NoBucket]
      /\ limitCalls = [s \in Server |-> 0]
      /\ counter = [c \in Client |-> [i \in Limits!Index |-> None]]
      /\ request = [r \in Handler |-> Limits!Idle]
      /\ local = [s \in Server |-> [c \in Client |-> [t \in Limits!Time |-> 0]]]
      /\ shared = [c \in Client |-> [i \in Limits!Index |-> 0]]
  BY DEF Limits!Init
<1>2. /\ NoBucket \in Limits!Bucket(Limits!Time, 1 .. PerKey)
      /\ NoBucket \in Limits!Bucket(Limits!Time, 1 .. Global)
  BY DEF Limits!Bucket
<1>3. limitNow \in Limits!Time /\ 0 \in 0 .. SweepEvery - 1
  BY <1>1 DEF Limits!Time
<1>4. Limits!TypeOK
  BY <1>1, <1>2, <1>3, IdleRequest DEF Limits!TypeOK
<1>5. CommandsInTime
  BY <1>1, IdleRequest DEF CommandsInTime
<1>6. StartsInTime
  BY <1>1 DEF StartsInTime, ServerInTime
<1> QED BY <1>4, <1>5, <1>6 DEF LimitShapes

(* The counter of a window stays, counting what passed, for as long as a   *)
(* command of the window may be answered.                                  *)
Kept(n, k, i, time) ==
    LET end == i * Window + Window + Grace
    IN  /\ n <= PerKey
        /\ k # None => k.until >= end
        /\ (time < end /\ n > 0) => (k # None /\ n <= k.count)

SharedKept ==
    \A c \in Client, i \in Limits!Index :
        Kept(shared[c][i], counter[c][i], i, limitNow)

LEMMA SharedStep ==
    ASSUME LimitShapes, [Limits!Next]_(Limits!vars), MaxDelay <= Grace, SharedKept
    PROVE  SharedKept'
<1> USE LimitAssumptions
<1>0. /\ limitNow \in Nat
      /\ counter \in [Client -> [Limits!Index -> Limits!Counters \cup {None}]]
      /\ request \in [Handler -> Limits!Local]
      /\ shared \in [Client -> [Limits!Index -> Nat]]
  BY LimitTypes
<1>i. Limits!Index \subseteq Nat
  BY IndexOf DEF Limits!Index
<1>e. \A i \in Limits!Index : i * Window + Window + Grace \in Nat /\ i * Window \in Nat
  BY <1>i
<1>1. CASE /\ UNCHANGED <<counter, shared>> /\ limitNow' \in Nat /\ limitNow <= limitNow'
  <2>1. ASSUME NEW c \in Client, NEW i \in Limits!Index
        PROVE  Kept(shared[c][i], counter[c][i], i, limitNow')
    <3> DEFINE end == i * Window + Window + Grace
    <3>1. end \in Nat
      BY <1>e
    <3>2. /\ shared[c][i] <= PerKey
          /\ counter[c][i] # None => counter[c][i].until >= end
          /\ (limitNow < end /\ shared[c][i] > 0) =>
                 (counter[c][i] # None /\ shared[c][i] <= counter[c][i].count)
      BY DEF SharedKept, Kept
    <3> HIDE DEF end
    <3>3. limitNow' < end => limitNow < end
      BY <1>0, <1>1, <3>1
    <3>4. /\ shared[c][i] <= PerKey
          /\ counter[c][i] # None => counter[c][i].until >= end
          /\ (limitNow' < end /\ shared[c][i] > 0) =>
                 (counter[c][i] # None /\ shared[c][i] <= counter[c][i].count)
      BY <3>2, <3>3
    <3> QED BY <3>4 DEF Kept, end
  <2> QED BY <1>1, <2>1 DEF SharedKept
<1>2. ASSUME NEW r \in Handler, Limits!Incr(r) \/ Limits!LateIncr(r)
      PROVE  SharedKept'
  <2> DEFINE me == request[r]
             c == me.client
             i == me.index
             old == counter[c][i]
             new == Limits!Incremented(c, i)
             n == shared[c][i]
             m == shared'[c][i]
             end == i * Window + Window + Grace
  <2>1. /\ me.pc \in {"wire", "late"} /\ limitNow' = limitNow
        /\ counter' = [counter EXCEPT ![c][i] = new]
        /\ \/ shared' = shared
           \/ /\ me.pc = "wire" /\ new.count <= PerKey
              /\ shared' = [shared EXCEPT ![c][i] = @ + 1]
    <3>1. new.count \in Int
      <4>1. c \in Client /\ i \in Limits!Index
        BY <1>0, <1>2, RequestFields DEF Limits!Incr, Limits!LateIncr
      <4>2. new \in Limits!Counters
        BY <4>1, Increments
      <4> QED BY <4>2 DEF Limits!Counters
    <3>2. CASE Limits!Incr(r)
      BY <3>1, <3>2 DEF Limits!Incr
    <3>3. CASE Limits!LateIncr(r)
      BY <3>3 DEF Limits!LateIncr
    <3> QED BY <1>2, <3>2, <3>3
  <2>2. c \in Client /\ i \in Limits!Index /\ i \in Nat /\ me \in Limits!Local
    BY <1>0, <1>i, <2>1, RequestFields
  <2>3. /\ i * Window \in Nat /\ i * Window <= limitNow
        /\ me.pc = "wire" => limitNow < end
    <3>1. CASE me.pc = "wire"
      <4> DEFINE x == i * Window
      <4>1. /\ i = me.at \div Window /\ me.at \in Nat
            /\ me.at <= limitNow /\ limitNow <= me.at + MaxDelay
        BY <2>2, <3>1, RequestFields DEF LimitShapes, CommandsInTime, Limits!Time
      <4>2. /\ (me.at \div Window) * Window <= me.at
            /\ me.at < (me.at \div Window) * Window + Window
        BY <4>1, IndexOf
      <4>3. x <= me.at /\ me.at < x + Window /\ x \in Nat /\ end = x + Window + Grace
        BY <1>e, <2>2, <4>1, <4>2
      <4> HIDE DEF x, end, me, i
      <4>4. x <= limitNow /\ limitNow < end
        BY <1>0, <4>1, <4>3
      <4> QED BY <4>3, <4>4 DEF x
    <3>2. CASE me.pc = "late"
      BY <1>e, <2>2, <3>2 DEF LimitShapes, CommandsInTime
    <3> QED BY <2>1, <3>1, <3>2
  <2>4. /\ new \in Limits!Counters
        /\ \/ /\ old # None /\ old \in Limits!Counters /\ limitNow < old.until
              /\ new.until = old.until
              /\ new.count = IF old.count > PerKey THEN old.count ELSE old.count + 1
           \/ /\ old # None => old \in Limits!Counters /\ limitNow >= old.until
              /\ new.until = limitNow + Window + Grace
              /\ new.count = 1
    <3> HIDE DEF c, i
    <3> QED BY <2>2, Increments
  <2>5. /\ n <= PerKey /\ n \in Nat
        /\ old # None => old.until >= end
        /\ (limitNow < end /\ n > 0) => (old # None /\ n <= old.count)
    BY <1>0, <2>2 DEF SharedKept, Kept
  <2>6. end \in Nat
    BY <1>e, <2>2
  <2>7. counter'[c][i] = new
    BY <1>0, <2>1, <2>2
  <2>8. m = n \/ (m = n + 1 /\ me.pc = "wire" /\ new.count <= PerKey)
    BY <1>0, <2>1, <2>2
  <2>9. old # None => old \in Limits!Counters
    BY <2>4
  <2> HIDE DEF new
  <2>10. m <= PerKey
    <3>1. CASE m = n
      BY <2>5, <3>1
    <3>2. CASE m = n + 1 /\ me.pc = "wire" /\ new.count <= PerKey
      <4>1. limitNow < end
        BY <2>3, <3>2
      <4>2. n > 0 => old # None /\ n <= old.count
        BY <2>5, <4>1
      <4> HIDE DEF n, old, end, m
      <4>3. CASE n = 0
        BY <3>2, <4>3
      <4>4. CASE n > 0
        <5>1. old \in [count : 1 .. PerKey + 1, until : Nat] /\ limitNow < old.until
          BY <1>0, <2>5, <2>6, <2>9, <4>1, <4>2, <4>4 DEF Limits!Counters
        <5>2. new.count = IF old.count > PerKey THEN old.count ELSE old.count + 1
          BY <1>0, <2>4, <4>2, <4>4, <5>1
        <5>3. old.count + 1 <= PerKey /\ n <= old.count /\ old.count \in Nat
          BY <3>2, <4>2, <4>4, <5>1, <5>2
        <5> QED BY <2>5, <3>2, <5>3
      <4> QED BY <2>5, <4>3, <4>4
    <3> QED BY <2>8, <3>1, <3>2
  <2>11. new.until >= end
    <3> DEFINE x == i * Window
    <3>1. end = x + Window + Grace /\ x <= limitNow /\ x \in Nat
      BY <2>3
    <3> HIDE DEF x, end, old
    <3> QED BY <1>0, <2>4, <2>5, <3>1
  <2>12. (limitNow < end /\ m > 0) => m <= new.count
    <3> SUFFICES ASSUME limitNow < end, m > 0 PROVE m <= new.count
      OBVIOUS
    <3> HIDE DEF n, old, end, m
    <3>1. m <= n + 1 /\ m \in Nat /\ new.count \in Nat
      BY <2>4, <2>5, <2>8 DEF Limits!Counters
    <3>2. CASE n = 0
      BY <2>4, <3>1, <3>2 DEF Limits!Counters
    <3>3. CASE n > 0
      <4>1. old # None /\ n <= old.count
        BY <2>5, <3>3
      <4>2. old \in [count : 1 .. PerKey + 1, until : Nat] /\ limitNow < old.until
        BY <1>0, <2>5, <2>6, <2>9, <4>1 DEF Limits!Counters
      <4>3. new.count = IF old.count > PerKey THEN old.count ELSE old.count + 1
        BY <1>0, <2>4, <4>1, <4>2
      <4>4. CASE m = n
        BY <2>5, <4>1, <4>2, <4>3, <4>4
      <4>5. CASE m = n + 1 /\ new.count <= PerKey
        BY <2>5, <4>1, <4>2, <4>3, <4>5
      <4> QED BY <2>8, <4>4, <4>5
    <3> QED BY <2>5, <3>2, <3>3
  <2>13. new # None
    <3>1. new \in Limits!Counters
      BY <2>4
    <3> QED BY <3>1
  <2>14. Kept(m, new, i, limitNow)
    BY <2>10, <2>11, <2>12, <2>13 DEF Kept
  <2>15. ASSUME NEW d \in Client, NEW j \in Limits!Index
         PROVE  Kept(shared'[d][j], counter'[d][j], j, limitNow)
    <3>1. CASE d = c /\ j = i
      <4>1. shared'[d][j] = m /\ counter'[d][j] = new
        BY <2>7, <3>1
      <4> HIDE DEF m, i
      <4> QED BY <2>14, <3>1, <4>1 DEF i
    <3>2. CASE ~(d = c /\ j = i)
      <4>1. shared'[d][j] = shared[d][j] /\ counter'[d][j] = counter[d][j]
        <5> HIDE DEF c, i
        <5> QED BY <1>0, <2>1, <2>2, <3>2
      <4> QED BY <4>1 DEF SharedKept
    <3> QED BY <3>1, <3>2
  <2> QED BY <2>1, <2>15 DEF SharedKept
<1>3. ASSUME NEW r \in Handler, Limits!Send(r) \/ Limits!Unavailable(r) \/ Limits!Lost(r)
      PROVE  UNCHANGED <<counter, shared, limitNow>>
  BY <1>3 DEF Limits!Send, Limits!Unavailable, Limits!Lost
<1>4. ASSUME NEW s \in Server, NEW c \in Client,
             \/ \E r \in Handler : Limits!LocalAllow(r, s, c)
             \/ Limits!LocalDeny(s, c) \/ Limits!Restart(s)
      PROVE  UNCHANGED <<counter, shared, limitNow>>
  BY <1>4 DEF Limits!LocalAllow, Limits!LocalDeny, Limits!Restart
<1>5. ASSUME Limits!Tick
      PROVE  UNCHANGED <<counter, shared>> /\ limitNow' \in Nat /\ limitNow <= limitNow'
  BY <1>0, <1>5 DEF Limits!Tick
<1>6. ASSUME NEW s \in Server, Limits!Restart(s)
      PROVE  UNCHANGED <<counter, shared, limitNow>>
  BY <1>6 DEF Limits!Restart
<1>7. ASSUME UNCHANGED Limits!vars PROVE UNCHANGED <<counter, shared, limitNow>>
  BY <1>7 DEF Limits!vars
<1>8. ASSUME UNCHANGED <<counter, shared, limitNow>>
      PROVE  UNCHANGED <<counter, shared>> /\ limitNow' \in Nat /\ limitNow <= limitNow'
  BY <1>0, <1>8
<1> QED BY <1>1, <1>2, <1>3, <1>4, <1>5, <1>6, <1>7, <1>8 DEF Limits!Next

(* The requests of a client that a process let through: a bucket that is   *)
(* deleted was over.                                                       *)
LimitPaced(f, bucket, time) ==
    /\ bucket # NoBucket =>
           Paced(f, MaxTime, Window, PerKey, bucket.start, bucket.count)
    /\ bucket = NoBucket =>
           \E s \in Int : /\ s + Window <= time
                          /\ Paced(f, MaxTime, Window, PerKey, s, PerKey)

LocalPaced ==
    \A s \in Server, c \in Client : LimitPaced(local[s][c], byKey[s][c], limitNow)

LEMMA LiveIsPaced ==
    ASSUME NEW f \in [0 .. MaxTime -> Nat], limitNow \in Nat,
           NEW bucket \in Limits!Bucket(Limits!Time, 1 .. PerKey),
           LimitPaced(f, bucket, limitNow)
    PROVE  LimitPaced(f, Limits!LiveBucket(bucket), limitNow)
<1> USE LimitAssumptions
<1> DEFINE live == Limits!LiveBucket(bucket)
<1>1. CASE live = bucket
  BY <1>1
<1>2. CASE /\ live = NoBucket /\ bucket # NoBucket
           /\ ~(limitNow < bucket.start + Window)
  <2> DEFINE s == bucket.start  n == bucket.count
  <2>1. s \in Nat /\ n \in Nat /\ n <= PerKey
    <3>1. s \in Limits!Time /\ n \in 1 .. PerKey
      BY <1>2 DEF Limits!Bucket
    <3> HIDE DEF s, n
    <3> QED BY <3>1 DEF Limits!Time
  <2>2. Paced(f, MaxTime, Window, PerKey, s, n)
    BY <1>2 DEF LimitPaced
  <2>3. ~(limitNow < s + Window)
    BY <1>2
  <2> HIDE DEF s, n, live
  <2>4. Paced(f, MaxTime, Window, PerKey, s, PerKey)
    BY <2>1, <2>2, PacedMore
  <2>5. s \in Int /\ s + Window <= limitNow
    BY <2>1, <2>3
  <2>6. LimitPaced(f, live, limitNow)
    BY <1>2, <2>4, <2>5 DEF LimitPaced
  <2> QED BY <2>6 DEF live
<1> QED BY <1>1, <1>2, Living

LEMMA CountedIsPaced ==
    ASSUME NEW f \in [0 .. MaxTime -> Nat], limitNow \in 0 .. MaxTime,
           NEW bucket \in Limits!Bucket(Limits!Time, 1 .. PerKey),
           LimitPaced(f, bucket, limitNow),
           bucket # NoBucket => bucket.start <= limitNow,
           Limits!Admits(bucket, limitNow, PerKey)
    PROVE  LET new == Limits!Counted(bucket, limitNow)
               g == OneMore(f, limitNow)
           IN  /\ LimitPaced(g, new, limitNow)
               /\ \A t \in Int : t + Window > limitNow =>
                      Total(g, (0 .. MaxTime) \cap (t .. t + Window - 1)) <= 2 * PerKey
<1> USE LimitAssumptions
<1> DEFINE new == Limits!Counted(bucket, limitNow)
           g == OneMore(f, limitNow)
<1>0. limitNow \in Limits!Time /\ limitNow \in Nat
  BY DEF Limits!Time
<1>1. /\ new \in [start : Limits!Time, count : 1 .. PerKey]
      /\ new # NoBucket
      /\ \/ /\ bucket # NoBucket /\ limitNow < bucket.start + Window
            /\ new.start = bucket.start /\ new.count = bucket.count + 1
         \/ /\ bucket # NoBucket => limitNow >= bucket.start + Window
            /\ new.start = limitNow /\ new.count = 1
  BY <1>0, Counting
<1>b. bucket # NoBucket => /\ bucket.start \in Int
                           /\ bucket.count \in Nat /\ bucket.count <= PerKey
  <2>1. bucket # NoBucket => bucket.start \in 0 .. MaxTime /\ bucket.count \in 1 .. PerKey
    BY DEF Limits!Bucket, Limits!Time
  <2> QED BY <2>1
<1>g. g \in [0 .. MaxTime -> Nat]
  BY TotalCounts
<1> HIDE DEF new, g
<1>2. new.start \in Int /\ new.count \in Nat /\ new.count <= PerKey /\ new.start <= limitNow
  <2>1. new.start \in 0 .. MaxTime /\ new.count \in 1 .. PerKey
    BY <1>1 DEF Limits!Time
  <2> QED BY <1>0, <1>1, <2>1
<1>3. Paced(g, MaxTime, Window, PerKey, new.start, new.count)
  <2>1. CASE /\ bucket # NoBucket /\ limitNow < bucket.start + Window
             /\ new.start = bucket.start /\ new.count = bucket.count + 1
    <3>1. Paced(f, MaxTime, Window, PerKey, bucket.start, bucket.count)
      BY <2>1 DEF LimitPaced
    <3>2. Paced(g, MaxTime, Window, PerKey, bucket.start, bucket.count + 1)
      BY <1>b, <2>1, <3>1, PacedCounts DEF g
    <3> QED BY <2>1, <3>2
  <2>2. CASE /\ bucket # NoBucket /\ limitNow >= bucket.start + Window
             /\ new.start = limitNow /\ new.count = 1
    <3>1. Paced(f, MaxTime, Window, PerKey, bucket.start, bucket.count)
      BY <2>2 DEF LimitPaced
    <3>2. Paced(g, MaxTime, Window, PerKey, limitNow, 1)
      BY <1>b, <2>2, <3>1, PacedOpens DEF g
    <3> QED BY <2>2, <3>2
  <2>3. CASE bucket = NoBucket /\ new.start = limitNow /\ new.count = 1
    <3>1. PICK s \in Int : /\ s + Window <= limitNow
                           /\ Paced(f, MaxTime, Window, PerKey, s, PerKey)
      BY <2>3 DEF LimitPaced
    <3>2. limitNow >= s + Window /\ PerKey \in Nat /\ PerKey <= PerKey
      BY <1>0, <3>1
    <3>3. Paced(g, MaxTime, Window, PerKey, limitNow, 1)
      BY <3>1, <3>2, PacedOpens DEF g
    <3> QED BY <2>3, <3>3
  <2> QED BY <1>1, <2>1, <2>2, <2>3
<1>4. LimitPaced(g, new, limitNow)
  BY <1>1, <1>3 DEF LimitPaced
<1>5. ASSUME NEW t \in Int, t + Window > limitNow
      PROVE  Total(g, (0 .. MaxTime) \cap (t .. t + Window - 1)) <= 2 * PerKey
  <2>1. t >= new.start - Window /\ t >= new.start - 2 * Window
    BY <1>0, <1>2, <1>5
  <2> QED BY <1>2, <1>3, <1>g, <2>1, PacedBounds
<1> QED BY <1>4, <1>5 DEF new, g

LEMMA NothingPassed ==
    ASSUME limitNow \in Nat
    PROVE  LET zero == [t \in Limits!Time |-> 0]
           IN  /\ LimitPaced(zero, NoBucket, limitNow)
               /\ \A S \in SUBSET (0 .. MaxTime) : Total(zero, S) <= 2 * PerKey
<1> USE LimitAssumptions
<1> DEFINE zero == [t \in 0 .. MaxTime |-> 0]
           s == -Window
<1>1. s \in Int /\ s + Window <= limitNow
  OBVIOUS
<1> HIDE DEF s
<1>2. /\ Paced(zero, MaxTime, Window, PerKey, s, PerKey)
      /\ \A S \in SUBSET (0 .. MaxTime) : Total(zero, S) = 0
  BY <1>1, NonePaced
<1>3. [t \in Limits!Time |-> 0] = zero
  BY DEF Limits!Time
<1> HIDE DEF zero
<1>4. LimitPaced(zero, NoBucket, limitNow)
  BY <1>1, <1>2 DEF LimitPaced
<1>5. 0 <= 2 * PerKey
  OBVIOUS
<1> QED BY <1>2, <1>3, <1>4, <1>5

(* What LocalQuotaHolds says of the requests that were let through.        *)
LocalFits(p) ==
    \A s \in Server, c \in Client, t \in Limits!Time :
        Limits!Total(p[s][c], Limits!Time \cap (t .. t + Window - 1)) <= 2 * PerKey

LEMMA LocalFitsIs ==
    ASSUME NEW p
    PROVE  LocalFits(p) <=>
               \A s \in Server, c \in Client : \A t \in 0 .. MaxTime :
                   Total(p[s][c], (0 .. MaxTime) \cap (t .. t + Window - 1)) <= 2 * PerKey
<1>1. Limits!Time = 0 .. MaxTime
  BY DEF Limits!Time
<1>2. \A f, S : Limits!Total(f, S) = Total(f, S)
  BY LimitsSets
<1> HIDE DEF Limits!Time
<1> QED BY <1>1, <1>2, Zenon DEF LocalFits

LEMMA LocalStep ==
    ASSUME LimitShapes, LimitShapes', [Limits!Next]_(Limits!vars),
           LocalPaced, Limits!LocalQuotaHolds
    PROVE  LocalPaced' /\ Limits!LocalQuotaHolds'
<1> USE LimitAssumptions
<1>0. /\ limitNow \in 0 .. MaxTime /\ limitNow \in Nat /\ limitNow \in Limits!Time
      /\ byKey \in [Server -> [Client -> Limits!Bucket(Limits!Time, 1 .. PerKey)]]
      /\ local \in [Server -> [Client -> [0 .. MaxTime -> Nat]]]
  BY LimitTypes DEF Limits!Time
<1> DEFINE Span(t) == (0 .. MaxTime) \cap (t .. t + Window - 1)
           Within(f) == \A t \in 0 .. MaxTime : Total(f, Span(t)) <= 2 * PerKey
<1>q. \A s \in Server, c \in Client : Within(local[s][c])
  <2>1. LocalFits(local)
    BY Zenon DEF Limits!LocalQuotaHolds, Limits!Passed, LocalFits
  <2> QED BY <2>1, LocalFitsIs, Zenon
<1>d. \A s \in Server, c \in Client :
          /\ local[s][c] \in [0 .. MaxTime -> Nat]
          /\ byKey[s][c] \in Limits!Bucket(Limits!Time, 1 .. PerKey)
          /\ LimitPaced(local[s][c], byKey[s][c], limitNow)
          /\ byKey[s][c] # NoBucket => byKey[s][c].start <= limitNow
  BY <1>0 DEF LocalPaced, LimitShapes, StartsInTime, ServerInTime
<1>l. \A s \in Server, c \in Client :
          LimitPaced(local[s][c], Limits!LiveBucket(byKey[s][c]), limitNow)
  <2> TAKE s \in Server, c \in Client
  <2> DEFINE f == local[s][c]  bucket == byKey[s][c]
  <2>1. /\ f \in [0 .. MaxTime -> Nat]
        /\ bucket \in Limits!Bucket(Limits!Time, 1 .. PerKey)
        /\ LimitPaced(f, bucket, limitNow)
    BY <1>d
  <2> HIDE DEF f, bucket
  <2>2. LimitPaced(f, Limits!LiveBucket(bucket), limitNow)
    BY <1>0, <2>1, LiveIsPaced
  <2> QED BY <2>2 DEF f, bucket
<1>1. ASSUME \A s \in Server, c \in Client :
                 /\ LimitPaced(local'[s][c], byKey'[s][c], limitNow')
                 /\ Within(local'[s][c])
      PROVE  LocalPaced' /\ Limits!LocalQuotaHolds'
  <2>1. LocalPaced'
    BY <1>1 DEF LocalPaced
  <2>2. LocalFits(local')
    BY <1>1, LocalFitsIs, Zenon
  <2>3. Limits!LocalQuotaHolds'
    BY <2>2, Zenon DEF Limits!LocalQuotaHolds, Limits!Passed, LocalFits
  <2> QED BY <2>1, <2>3
<1> HIDE DEF Within
<1>2. CASE UNCHANGED <<byKey, local>> /\ limitNow' \in Nat /\ limitNow <= limitNow'
  <2>1. ASSUME NEW s \in Server, NEW c \in Client
        PROVE  LimitPaced(local[s][c], byKey[s][c], limitNow')
    <3>1. \A x \in Int : x + Window <= limitNow => x + Window <= limitNow'
      BY <1>0, <1>2
    <3> QED BY <1>d, <3>1 DEF LimitPaced
  <2> QED BY <1>1, <1>2, <1>q, <2>1
<1>3. ASSUME NEW r \in Handler, NEW s \in Server, NEW c \in Client, Limits!LocalAllow(r, s, c)
      PROVE  LocalPaced' /\ Limits!LocalQuotaHolds'
  <2> DEFINE new == Limits!Counted(byKey[s][c], limitNow)
             swept == Limits!Swept(s)
             f == local[s][c]
  <2>1. /\ Limits!Admits(byKey[s][c], limitNow, PerKey)
        /\ byKey' = [byKey EXCEPT ![s] = [swept EXCEPT ![c] = new]]
        /\ local' = [local EXCEPT ![s][c][limitNow] = @ + 1]
        /\ limitNow' = limitNow
    BY <1>3 DEF Limits!LocalAllow
  <2>2. /\ swept \in [Client -> Limits!Bucket(Limits!Time, 1 .. PerKey)]
        /\ \A d \in Client : swept[d] \in {byKey[s][d], Limits!LiveBucket(byKey[s][d])}
    BY <1>0, Sweeping
  <2> HIDE DEF swept
  <2>3. /\ LimitPaced(OneMore(f, limitNow), new, limitNow)
        /\ \A t \in Int : t + Window > limitNow =>
               Total(OneMore(f, limitNow), Span(t)) <= 2 * PerKey
    BY <1>0, <1>d, <2>1, CountedIsPaced
  <2>4. local' = [local EXCEPT ![s][c] = OneMore(f, limitNow)]
    BY <1>0, <2>1 DEF OneMore
  <2> HIDE DEF new
  <2>5. ASSUME NEW p \in Server, NEW d \in Client
        PROVE  LimitPaced(local'[p][d], byKey'[p][d], limitNow) /\ Within(local'[p][d])
    <3>1. CASE p = s /\ d = c
      <4>1. local'[p][d] = OneMore(f, limitNow) /\ byKey'[p][d] = new
        <5>1. byKey'[s] = [swept EXCEPT ![c] = new]
          BY <1>0, <2>1
        <5>2. byKey'[s][c] = new
          BY <2>2, <5>1
        <5>3. local'[s][c] = OneMore(f, limitNow)
          BY <1>0, <2>4
        <5> QED BY <3>1, <5>2, <5>3
      <4>2. Within(OneMore(f, limitNow))
        <5>1. SUFFICES ASSUME NEW t \in 0 .. MaxTime
              PROVE  Total(OneMore(f, limitNow), Span(t)) <= 2 * PerKey
          BY DEF Within
        <5>2. CASE t + Window > limitNow
          BY <2>3, <5>2
        <5>3. CASE t + Window <= limitNow
          <6>1. limitNow \notin Span(t)
            BY <1>0, <5>3
          <6>2. Span(t) \in SUBSET (0 .. MaxTime)
            OBVIOUS
          <6>3. Total(f, Span(t)) <= 2 * PerKey
            BY <1>q DEF Within
          <6> HIDE DEF Span, f
          <6>4. f \in [0 .. MaxTime -> Nat]
            BY <1>d DEF f
          <6>5. Total(OneMore(f, limitNow), Span(t)) = Total(f, Span(t))
            <7>1. limitNow \in 0 .. MaxTime
              BY <1>0
            <7> QED BY <6>1, <6>2, <6>4, <7>1, TotalCounts
          <6> QED BY <6>3, <6>5
        <5> QED BY <1>0, <5>2, <5>3
      <4> QED BY <2>3, <4>1, <4>2
    <3>2. CASE p = s /\ d # c
      <4>1. local'[p][d] = local[p][d] /\ byKey'[p][d] = swept[d]
        BY <1>0, <2>1, <2>2, <2>4, <3>2
      <4>2. CASE swept[d] = byKey[s][d]
        BY <1>d, <1>q, <3>2, <4>1, <4>2
      <4>3. CASE swept[d] = Limits!LiveBucket(byKey[s][d])
        <5>1. LimitPaced(local[s][d], Limits!LiveBucket(byKey[s][d]), limitNow)
          BY <1>l
        <5> QED BY <1>q, <3>2, <4>1, <4>3, <5>1
      <4> QED BY <2>2, <4>2, <4>3
    <3>3. CASE p # s
      <4>1. local'[p][d] = local[p][d] /\ byKey'[p][d] = byKey[p][d]
        BY <1>0, <2>1, <2>4, <3>3
      <4> QED BY <1>d, <1>q, <4>1
    <3> QED BY <3>1, <3>2, <3>3
  <2> QED BY <1>1, <2>1, <2>5
<1>4. ASSUME NEW s \in Server, NEW c \in Client, Limits!LocalDeny(s, c)
      PROVE  LocalPaced' /\ Limits!LocalQuotaHolds'
  <2> DEFINE swept == Limits!Swept(s)
  <2>1. /\ byKey' = [byKey EXCEPT ![s] = [swept EXCEPT ![c] = Limits!LiveBucket(@)]]
        /\ local' = local /\ limitNow' = limitNow
    BY <1>4 DEF Limits!LocalDeny
  <2>2. /\ swept \in [Client -> Limits!Bucket(Limits!Time, 1 .. PerKey)]
        /\ \A d \in Client : swept[d] \in {byKey[s][d], Limits!LiveBucket(byKey[s][d])}
    BY <1>0, Sweeping
  <2> HIDE DEF swept
  <2>3. ASSUME NEW d \in Client PROVE LimitPaced(local[s][d], swept[d], limitNow)
    <3>1. CASE swept[d] = byKey[s][d]
      BY <1>d, <3>1
    <3>2. CASE swept[d] = Limits!LiveBucket(byKey[s][d])
      BY <1>l, <3>2
    <3> QED BY <2>2, <3>1, <3>2
  <2>4. ASSUME NEW p \in Server, NEW d \in Client
        PROVE  LimitPaced(local'[p][d], byKey'[p][d], limitNow) /\ Within(local'[p][d])
    <3>1. CASE p = s /\ d = c
      <4>1. byKey'[p][d] = Limits!LiveBucket(swept[c])
        BY <1>0, <2>1, <2>2, <3>1
      <4>2. LimitPaced(local[s][c], Limits!LiveBucket(swept[c]), limitNow)
        BY <1>0, <1>d, <2>2, <2>3, LiveIsPaced
      <4> QED BY <1>q, <2>1, <3>1, <4>1, <4>2
    <3>2. CASE p = s /\ d # c
      <4>1. byKey'[p][d] = swept[d]
        BY <1>0, <2>1, <2>2, <3>2
      <4> QED BY <1>q, <2>1, <2>3, <3>2, <4>1
    <3>3. CASE p # s
      <4>1. byKey'[p][d] = byKey[p][d]
        BY <1>0, <2>1, <3>3
      <4> QED BY <1>d, <1>q, <2>1, <4>1
    <3> QED BY <3>1, <3>2, <3>3
  <2> QED BY <1>1, <2>1, <2>4
<1>5. ASSUME NEW s \in Server, Limits!Restart(s)
      PROVE  LocalPaced' /\ Limits!LocalQuotaHolds'
  <2> DEFINE zero == [t \in Limits!Time |-> 0]
  <2>1. /\ byKey' = [byKey EXCEPT ![s] = [c \in Client |-> NoBucket]]
        /\ local' = [local EXCEPT ![s] = [c \in Client |-> zero]]
        /\ limitNow' = limitNow
    BY <1>5 DEF Limits!Restart
  <2>2. LimitPaced(zero, NoBucket, limitNow) /\ Within(zero)
    BY <1>0, NothingPassed DEF Within
  <2> HIDE DEF zero
  <2>3. ASSUME NEW p \in Server, NEW d \in Client
        PROVE  LimitPaced(local'[p][d], byKey'[p][d], limitNow) /\ Within(local'[p][d])
    <3>1. CASE p = s
      <4>1. local'[p][d] = zero /\ byKey'[p][d] = NoBucket
        BY <1>0, <2>1, <3>1
      <4> QED BY <2>2, <4>1
    <3>2. CASE p # s
      <4>1. local'[p][d] = local[p][d] /\ byKey'[p][d] = byKey[p][d]
        BY <1>0, <2>1, <3>2
      <4> QED BY <1>d, <1>q, <4>1
    <3> QED BY <3>1, <3>2
  <2> QED BY <1>1, <2>1, <2>3
<1>6. ASSUME NEW r \in Handler,
             \/ Limits!Send(r) \/ Limits!Incr(r) \/ Limits!Unavailable(r)
             \/ Limits!LateIncr(r) \/ Limits!Lost(r)
      PROVE  UNCHANGED <<limitNow, byKey, local>>
  BY <1>6 DEF Limits!Send, Limits!Incr, Limits!Unavailable, Limits!LateIncr,
              Limits!Lost, Limits!limiter
<1>7. ASSUME UNCHANGED Limits!vars PROVE UNCHANGED <<limitNow, byKey, local>>
  BY <1>7 DEF Limits!vars, Limits!limiter
<1>8. ASSUME UNCHANGED <<limitNow, byKey, local>>
      PROVE  UNCHANGED <<byKey, local>> /\ limitNow' \in Nat /\ limitNow <= limitNow'
  BY <1>0, <1>8
<1>9. ASSUME Limits!Tick
      PROVE  UNCHANGED <<byKey, local>> /\ limitNow' \in Nat /\ limitNow <= limitNow'
  BY <1>0, <1>9 DEF Limits!Tick, Limits!limiter
<1> QED BY <1>2, <1>3, <1>4, <1>5, <1>6, <1>7, <1>8, <1>9 DEF Limits!Next

-----------------------------------------------------------------------------
(* The reports.                                                            *)

LEMMA ReportAssumptions ==
    /\ IsFiniteSet(RequestId) /\ IsFiniteSet(Code) /\ IsFiniteSet(PolicyId)
    /\ None \notin PolicyId /\ Refusal \subseteq (SUBSET Reports!Reason) \ {{}}
    /\ Legacy \in SUBSET RequestId /\ Agent \in SUBSET RequestId
    /\ Amount \in [RequestId -> Nat] /\ Expiry \in [RequestId -> Nat]
    /\ Policy \subseteq [cap : Nat, window : Nat \ {0}]
    /\ Grace \in Nat /\ Day \in Nat \ {0} /\ MaxTime \in Nat
<1>1. Reports!ReportsAssumption
  BY ApiAssumption DEF ApiAssumption
<1> QED
  BY <1>1, ReportsSets DEF Reports!ReportsAssumption, Reports!PolicyAssumption

(* The bucket of a time that is in a range begins in the range's buckets.  *)
LEMMA BucketOf ==
    ASSUME NEW from \in Nat, NEW to \in Nat, NEW step \in Nat \ {0}, NEW at \in Nat,
           from <= at, at < to
    PROVE  /\ Reports!BucketStart(at, step) \in Reports!BucketStart(from, step) .. to - 1
           /\ Reports!BucketStart(at, step) % step = 0
<1> DEFINE q == at \div step
           p == from \div step
<1>1. q \in Nat /\ p \in Nat /\ q * step <= at /\ at < (q + 1) * step
      /\ p * step <= from /\ from < (p + 1) * step
  OBVIOUS
<1>2. p <= q
  <2>1. SUFFICES ASSUME q + 1 <= p PROVE FALSE
    BY <1>1
  <2>2. (q + 1) * step <= p * step
    BY <1>1, <2>1
  <2> QED BY <1>1, <2>2
<1>3. p * step <= q * step
  BY <1>1, <1>2
<1>4. q * step \in Nat /\ p * step \in Nat
  BY <1>1
<1>5. (q * step) % step = 0
  BY <1>1
<1> HIDE DEF q, p
<1>6. q * step <= to - 1
  BY <1>1, <1>4
<1>7. q * step \in p * step .. to - 1
  BY <1>3, <1>4, <1>6
<1> QED BY <1>5, <1>7 DEF q, p, Reports!BucketStart
(* A series adds up to what it is about.                                   *)
LEMMA SeriesAddsUp ==
    ASSUME NEW things, IsFiniteSet(things), NEW at, NEW worth, NEW range, NEW step \in Nat \ {0},
           range[1] \in Nat, range[2] \in Nat,
           \A x \in things : worth[x] \in Nat /\ at[x] \in Reports!Time
    PROVE  Reports!SeriesTotal(Reports!timeseries(things, at, worth, range, step))
               = Total(worth, {x \in things : Reports!InRange(at[x], range)})
<1> DEFINE S == {x \in things : Reports!InRange(at[x], range)}
           class == [x \in S |-> Reports!BucketStart(at[x], step)]
           first == Reports!BucketStart(range[1], step)
           C == {s \in first .. range[2] - 1 : s % step = 0}
           series == [s \in C |-> Total(worth, {x \in S : class[x] = s})]
<1>1. IsFiniteSet(S)
  BY FS_Subset
<1>2. first \in Nat
  BY DEF Reports!BucketStart
<1>3. IsFiniteSet(C)
  <2>1. IsFiniteSet(first .. range[2] - 1)
    <3>1. range[2] - 1 \in Int /\ first \in Int
      BY <1>2
    <3> HIDE DEF first
    <3> QED BY <3>1, FS_Interval
  <2> QED BY <2>1, FS_Subset
<1>4. \A x \in S : worth[x] \in Nat /\ class[x] \in C
  <2> SUFFICES ASSUME NEW x \in S PROVE worth[x] \in Nat /\ class[x] \in C
    OBVIOUS
  <2>1. at[x] \in Nat /\ range[1] <= at[x] /\ at[x] < range[2]
    BY DEF Reports!InRange, Reports!Time, Reports!Never
  <2>2. /\ Reports!BucketStart(at[x], step) \in first .. range[2] - 1
        /\ Reports!BucketStart(at[x], step) % step = 0
    BY <2>1, BucketOf
  <2> QED BY <2>2
<1>5. Reports!timeseries(things, at, worth, range, step) = series
  <2>1. ASSUME NEW s \in C
        PROVE  Reports!Total(worth, {x \in things : /\ Reports!InRange(at[x], range)
                                                    /\ Reports!BucketStart(at[x], step) = s})
               = Total(worth, {x \in S : class[x] = s})
    <3>1. {x \in things : /\ Reports!InRange(at[x], range)
                          /\ Reports!BucketStart(at[x], step) = s} = {x \in S : class[x] = s}
      OBVIOUS
    <3> HIDE DEF class, S
    <3> QED BY <3>1, ReportsSets, Zenon
  <2> QED BY <2>1, Zenon DEF Reports!timeseries
<1> HIDE DEF S, C, class
<1>6. Total(series, C) = Total(worth, S)
  BY <1>1, <1>3, <1>4, TotalByParts
<1>7. DOMAIN series = C
  OBVIOUS
<1> HIDE DEF series
<1>8. Reports!SeriesTotal(series) = Total(worth, S)
  BY <1>6, <1>7, ReportsSets DEF Reports!SeriesTotal
<1> QED BY <1>5, <1>8 DEF S

(* A series of ones counts.                                                *)
LEMMA SeriesCounts ==
    ASSUME NEW things, IsFiniteSet(things), NEW at, NEW one, NEW range, NEW step \in Nat \ {0},
           range[1] \in Nat, range[2] \in Nat,
           \A x \in things : one[x] = 1 /\ at[x] \in Reports!Time
    PROVE  Reports!SeriesTotal(Reports!timeseries(things, at, one, range, step))
               = Cardinality({x \in things : Reports!InRange(at[x], range)})
<1> DEFINE S == {x \in things : Reports!InRange(at[x], range)}
<1>1. IsFiniteSet(S) /\ \A x \in S : one[x] = 1
  BY FS_Subset
<1>2. Reports!SeriesTotal(Reports!timeseries(things, at, one, range, step)) = Total(one, S)
  <2>1. \A x \in things : one[x] \in Nat /\ at[x] \in Reports!Time
    OBVIOUS
  <2> QED BY <2>1, SeriesAddsUp
<1> HIDE DEF S
<1>3. Total(one, S) = Cardinality(S)
  BY <1>1, CountIsTotal
<1> QED BY <1>2, <1>3 DEF S

(* The sizes of the classes of a set add up to its size.                   *)
LEMMA ClassesCount ==
    ASSUME NEW S, IsFiniteSet(S), NEW C, IsFiniteSet(C), NEW class,
           \A e \in S : class[e] \in C
    PROVE  Reports!SeriesTotal([c \in C |-> Reports!Cardinality({e \in S : class[e] = c})])
               = Cardinality(S)
<1> DEFINE one == [e \in S |-> 1]
           series == [c \in C |-> Total(one, {e \in S : class[e] = c})]
<1>1. \A e \in S : one[e] \in Nat /\ class[e] \in C
  OBVIOUS
<1>2. \A e \in S : one[e] = 1
  OBVIOUS
<1>3. \A c \in C : Total(one, {e \in S : class[e] = c})
                       = Reports!Cardinality({e \in S : class[e] = c})
  <2> SUFFICES ASSUME NEW c \in C, NEW R, R = {e \in S : class[e] = c}
      PROVE  Total(one, R) = Reports!Cardinality(R)
    OBVIOUS
  <2>1. IsFiniteSet(R) /\ \A e \in R : one[e] = 1
    BY FS_Subset
  <2> HIDE DEF one
  <2>2. Total(one, R) = Cardinality(R)
    BY <2>1, CountIsTotal
  <2> QED BY <2>2, ReportsSets
<1> HIDE DEF one
<1>4. [c \in C |-> Reports!Cardinality({e \in S : class[e] = c})] = series
  BY <1>3, Zenon
<1>5. Total(series, C) = Total(one, S)
  BY <1>1, TotalByParts
<1>6. DOMAIN series = C
  OBVIOUS
<1> HIDE DEF series
<1>7. Reports!SeriesTotal(series) = Total(one, S)
  BY <1>5, <1>6, ReportsSets DEF Reports!SeriesTotal
<1>8. Total(one, S) = Cardinality(S)
  BY <1>2, CountIsTotal
<1> QED BY <1>4, <1>7, <1>8

(* The sizes of classes that cover a set add up to no less than its size.  *)
LEMMA CoverCounts ==
    ASSUME NEW S, IsFiniteSet(S), NEW C, IsFiniteSet(C), NEW cover,
           \A c \in C : cover[c] \in SUBSET S, \A e \in S : \E c \in C : e \in cover[c]
    PROVE  Cardinality(S) <= Total([c \in C |-> Cardinality(cover[c])], C)
<1> DEFINE one == [e \in S |-> 1]
           class == [e \in S |-> CHOOSE c \in C : e \in cover[c]]
           grouped == [c \in C |-> Total(one, {e \in S : class[e] = c})]
           size == [c \in C |-> Cardinality(cover[c])]
<1>1. \A e \in S : one[e] = 1 /\ one[e] \in Nat /\ class[e] \in C /\ e \in cover[class[e]]
  OBVIOUS
<1> HIDE DEF one, class
<1>2. \A c \in C : grouped[c] \in Nat /\ grouped[c] <= size[c] /\ size[c] \in Nat
  <2> SUFFICES ASSUME NEW c \in C, NEW R, R = {e \in S : class[e] = c}
      PROVE  /\ Total(one, R) \in Nat /\ Cardinality(cover[c]) \in Nat
             /\ Total(one, R) <= Cardinality(cover[c])
    OBVIOUS
  <2>1. R \in SUBSET cover[c] /\ IsFiniteSet(cover[c]) /\ IsFiniteSet(R)
    BY <1>1, FS_Subset
  <2>2. Total(one, R) = Cardinality(R)
    BY <1>1, <2>1, CountIsTotal
  <2> QED BY <2>1, <2>2, FS_Subset, FS_CardinalityType
<1>3. Total(grouped, C) = Total(one, S)
  BY <1>1, TotalByParts
<1>4. Total(one, S) = Cardinality(S)
  BY <1>1, CountIsTotal
<1> HIDE DEF grouped, size
<1>5. Total(grouped, C) <= Total(size, C)
  BY <1>2, TotalGrows
<1> QED BY <1>3, <1>4, <1>5 DEF size
-----------------------------------------------------------------------------
(* What was stored has a time that has come, an intent that was created a  *)
(* status, and a denial a time and reasons.                                *)
Dated ==
    /\ \A i \in RequestId :
          /\ rows[i].createdAt \in (0 .. MaxTime) \cup {Reports!Never}
          /\ intents[i].createdAt # Reports!Never => intents[i].status # "NONE"
    /\ IsFiniteSet(denials)
    /\ \A d \in denials : d.at \in Nat /\ d.reasons \in Refusal

ReportInv == Reports!TypeOK /\ Dated

(* Four classes of a set.                                                  *)
LEMMA FourClasses ==
    ASSUME NEW S, IsFiniteSet(S), NEW A, NEW B, NEW C, NEW D,
           S = A \cup B \cup C \cup D,
           A \cap B = {}, A \cap C = {}, A \cap D = {},
           B \cap C = {}, B \cap D = {}, C \cap D = {}
    PROVE  Cardinality(A) + Cardinality(B) + Cardinality(C) + Cardinality(D) = Cardinality(S)
<1>1. IsFiniteSet(A) /\ IsFiniteSet(B) /\ IsFiniteSet(C) /\ IsFiniteSet(D)
  BY FS_Subset
<1>2. \A U, V : IsFiniteSet(U) /\ IsFiniteSet(V) /\ U \cap V = {} =>
          /\ IsFiniteSet(U \cup V)
          /\ Cardinality(U \cup V) = Cardinality(U) + Cardinality(V)
  <2> SUFFICES ASSUME NEW U, NEW V, IsFiniteSet(U), IsFiniteSet(V), U \cap V = {}
      PROVE  /\ IsFiniteSet(U \cup V)
             /\ Cardinality(U \cup V) = Cardinality(U) + Cardinality(V)
    OBVIOUS
  <2>1. /\ IsFiniteSet(U \cup V)
        /\ Cardinality(U \cup V) = Cardinality(U) + Cardinality(V) - Cardinality(U \cap V)
    BY FS_Union
  <2>2. Cardinality(U \cap V) = 0
    BY FS_EmptySet
  <2>3. Cardinality(U) \in Nat /\ Cardinality(V) \in Nat
    BY FS_CardinalityType
  <2> QED BY <2>1, <2>2, <2>3
<1>3. A \cap B = {} /\ C \cap D = {} /\ (A \cup B) \cap (C \cup D) = {}
      /\ (A \cup B) \cup (C \cup D) = S
  OBVIOUS
<1>4. /\ IsFiniteSet(A \cup B) /\ Cardinality(A \cup B) = Cardinality(A) + Cardinality(B)
      /\ IsFiniteSet(C \cup D) /\ Cardinality(C \cup D) = Cardinality(C) + Cardinality(D)
  BY <1>1, <1>2, <1>3
<1>5. Cardinality((A \cup B) \cup (C \cup D)) = Cardinality(A \cup B) + Cardinality(C \cup D)
  BY <1>2, <1>3, <1>4
<1>6. /\ Cardinality(A) \in Nat /\ Cardinality(B) \in Nat
      /\ Cardinality(C) \in Nat /\ Cardinality(D) \in Nat
  BY <1>1, FS_CardinalityType
<1>7. Cardinality((A \cup B) \cup (C \cup D)) = Cardinality(S)
  BY <1>3, Zenon
<1> QED BY <1>4, <1>5, <1>6, <1>7

(* A row is in one phase.                                                  *)
LEMMA PhasesOf ==
    ASSUME NEW R
    PROVE  /\ R = Reports!Of("PAID", R) \cup Reports!Of("OPEN", R)
                    \cup Reports!Of("EXPIRED", R) \cup Reports!Of("CANCELLED", R)
           /\ \A p, q : p # q => Reports!Of(p, R) \cap Reports!Of(q, R) = {}
<1>1. \A i \in R : Reports!paymentLinkPhase(i) \in {"PAID", "OPEN", "EXPIRED", "CANCELLED"}
  BY DEF Reports!paymentLinkPhase
<1>2. \A p, q : p # q => Reports!Of(p, R) \cap Reports!Of(q, R) = {}
  BY DEF Reports!Of
<1> QED BY <1>1, <1>2 DEF Reports!Of

LEMMA RowSets ==
    /\ IsFiniteSet(Reports!Rows) /\ Reports!Rows \in SUBSET RequestId
    /\ \A R \in SUBSET RequestId : IsFiniteSet(R)
    /\ \A p : \A R \in SUBSET RequestId : Reports!Of(p, R) \in SUBSET R
  BY ReportAssumptions, FS_Subset DEF Reports!Rows, Reports!Of

(* The rows of the overview, and those that no range has.                  *)
LEMMA AllTimeRows ==
    ASSUME ReportInv
    PROVE  {i \in Reports!Rows : Reports!InRange(rows[i].createdAt, Reports!AllTime)}
               = Reports!Rows \ Reports!Undated
<1>1. Reports!AllTime[1] = 0 /\ Reports!AllTime[2] = MaxTime + 1
  BY DEF Reports!AllTime
<1>2. \A i \in Reports!Rows : Reports!InRange(rows[i].createdAt, Reports!AllTime)
                                  <=> rows[i].createdAt # Reports!Never
  BY <1>1, ReportAssumptions DEF ReportInv, Dated, Reports!InRange, Reports!Rows, Reports!Never
<1> QED BY <1>2 DEF Reports!Undated

(* A phase's total is that of the overview, and of the rows without a date.*)
LEMMA PhaseTotals ==
    ASSUME ReportInv, NEW phase
    PROVE  Total(Amount, Reports!Of(phase, Reports!Rows))
               = Total(Amount, Reports!Of(phase, Reports!Rows \ Reports!Undated))
                 + Total(Amount, Reports!Of(phase, Reports!Undated))
<1> DEFINE A == Reports!Of(phase, Reports!Rows \ Reports!Undated)
           B == Reports!Of(phase, Reports!Undated)
<1>1. Reports!Of(phase, Reports!Rows) = A \cup B /\ A \cap B = {}
  BY DEF Reports!Of, Reports!Undated
<1>2. A \in SUBSET RequestId /\ B \in SUBSET RequestId
  BY DEF Reports!Of, Reports!Undated, Reports!Rows
<1> HIDE DEF A, B
<1>3. IsFiniteSet(A) /\ IsFiniteSet(B) /\ \A e \in A \cup B : Amount[e] \in Nat
  BY <1>2, RowSets, ReportAssumptions
<1>4. Total(Amount, A \cup B) = Total(Amount, A) + Total(Amount, B)
  BY <1>1, <1>3, TotalOfUnion
<1> QED BY <1>1, <1>4 DEF A, B

LEMMA PaymentSeries ==
    ASSUME ReportInv, NEW range \in Reports!Ranges, NEW step \in {1, Day}
    PROVE  LET one == [i \in RequestId |-> 1]
               at == [i \in RequestId |-> rows[i].createdAt]
           IN  /\ Reports!SeriesTotal(Reports!timeseries(Reports!Rows, at, one, range, step))
                     = Reports!paymentAnalytics(range).total
               /\ Reports!SeriesTotal(Reports!timeseries(Reports!Rows, at, Amount, range, step))
                     = Reports!paymentAnalytics(range).requested
<1> DEFINE one == [i \in RequestId |-> 1]
           at == [i \in RequestId |-> rows[i].createdAt]
           S == {x \in Reports!Rows : Reports!InRange(at[x], range)}
<1>1. range[1] \in Nat /\ range[2] \in Nat /\ step \in Nat \ {0}
  BY ReportAssumptions DEF Reports!Ranges
<1>2. \A x \in Reports!Rows : one[x] = 1 /\ at[x] \in Reports!Time
  BY RowSets DEF ReportInv, Reports!TypeOK
<1>3. \A x \in Reports!Rows : Amount[x] \in Nat /\ at[x] \in Reports!Time
  BY <1>2, RowSets, ReportAssumptions
<1>4. S = {i \in Reports!Rows : Reports!InRange(rows[i].createdAt, range)}
  BY RowSets
<1>5. Reports!paymentAnalytics(range).total = Cardinality(S)
      /\ Reports!paymentAnalytics(range).requested = Total(Amount, S)
  BY <1>4, ReportsSets DEF Reports!paymentAnalytics
<1>6. IsFiniteSet(Reports!Rows)
  BY RowSets
<1> HIDE DEF one, at
<1>7. Reports!SeriesTotal(Reports!timeseries(Reports!Rows, at, one, range, step)) = Cardinality(S)
  BY <1>1, <1>2, <1>6, SeriesCounts
<1>8. Reports!SeriesTotal(Reports!timeseries(Reports!Rows, at, Amount, range, step))
          = Total(Amount, S)
  BY <1>1, <1>3, <1>6, SeriesAddsUp
<1> HIDE DEF S
<1>9. /\ Reports!SeriesTotal(Reports!timeseries(Reports!Rows, at, one, range, step))
            = Reports!paymentAnalytics(range).total
      /\ Reports!SeriesTotal(Reports!timeseries(Reports!Rows, at, Amount, range, step))
            = Reports!paymentAnalytics(range).requested
  BY <1>5, <1>7, <1>8
<1> QED BY <1>9 DEF one, at

LEMMA RowsAreCounted ==
    ASSUME ReportInv
    PROVE  LET overview == Reports!paymentAnalytics(Reports!AllTime)
               metrics == Reports!workspaceMetrics
           IN  /\ metrics.paid + metrics.open + metrics.expired + metrics.cancelled
                     = metrics.total
               /\ metrics.total = overview.total + overview.missingCreatedAt
<1> DEFINE R == Reports!Rows
           M == Reports!workspaceMetrics
           O == Reports!paymentAnalytics(Reports!AllTime)
           A == R \ Reports!Undated
<1>1. IsFiniteSet(R)
  BY RowSets
<1>2. Cardinality(Reports!Of("PAID", R)) + Cardinality(Reports!Of("OPEN", R))
          + Cardinality(Reports!Of("EXPIRED", R)) + Cardinality(Reports!Of("CANCELLED", R))
          = Cardinality(R)
  <2> HIDE DEF R
  <2> DEFINE P(p) == Reports!Of(p, R)
  <2>1. /\ R = P("PAID") \cup P("OPEN") \cup P("EXPIRED") \cup P("CANCELLED")
        /\ \A p, q : p # q => P(p) \cap P(q) = {}
    BY PhasesOf
  <2>2. /\ P("PAID") \cap P("OPEN") = {} /\ P("PAID") \cap P("EXPIRED") = {}
        /\ P("PAID") \cap P("CANCELLED") = {} /\ P("OPEN") \cap P("EXPIRED") = {}
        /\ P("OPEN") \cap P("CANCELLED") = {} /\ P("EXPIRED") \cap P("CANCELLED") = {}
    BY <2>1
  <2> HIDE DEF P
  <2>3. Cardinality(P("PAID")) + Cardinality(P("OPEN")) + Cardinality(P("EXPIRED"))
            + Cardinality(P("CANCELLED")) = Cardinality(R)
    BY <1>1, <2>1, <2>2, FourClasses
  <2> QED BY <2>3 DEF P
<1>3. /\ M.paid = Cardinality(Reports!Of("PAID", R)) /\ M.open = Cardinality(Reports!Of("OPEN", R))
      /\ M.expired = Cardinality(Reports!Of("EXPIRED", R))
      /\ M.cancelled = Cardinality(Reports!Of("CANCELLED", R))
      /\ M.total = Cardinality(R)
  BY ReportsSets DEF Reports!workspaceMetrics, Reports!Dashboard
<1>4. O.total = Cardinality(A) /\ O.missingCreatedAt = Cardinality(Reports!Undated)
  BY AllTimeRows, ReportsSets DEF Reports!paymentAnalytics
<1>5. R = A \cup Reports!Undated /\ A \cap Reports!Undated = {}
  BY DEF Reports!Undated
<1>6. Cardinality(R) = Cardinality(A) + Cardinality(Reports!Undated)
  <2>1. IsFiniteSet(A) /\ IsFiniteSet(Reports!Undated)
    BY <1>1, <1>5, FS_Subset
  <2>2. Cardinality(A \cup Reports!Undated)
            = Cardinality(A) + Cardinality(Reports!Undated) - Cardinality(A \cap Reports!Undated)
    BY <2>1, FS_Union
  <2>3. Cardinality(A \cap Reports!Undated) = 0
    BY <1>5, FS_EmptySet
  <2>4. Cardinality(A) \in Nat /\ Cardinality(Reports!Undated) \in Nat
    BY <2>1, FS_CardinalityType
  <2> HIDE DEF A, R
  <2>5. Cardinality(A \cup Reports!Undated) = Cardinality(A) + Cardinality(Reports!Undated)
    BY <2>2, <2>3, <2>4
  <2> QED BY <1>5, <2>5
<1> HIDE DEF R, A, M, O
<1>7. M.paid + M.open + M.expired + M.cancelled = M.total
      /\ M.total = O.total + O.missingCreatedAt
  BY <1>2, <1>3, <1>4, <1>6
<1> QED BY <1>7 DEF M, O

LEMMA RowsByDay ==
    ASSUME ReportInv
    PROVE  Reports!SeriesTotal(Reports!CreatedByDay)
               = Reports!paymentAnalytics(Reports!AllTime).total
<1> DEFINE A == Reports!Rows \ Reports!Undated
           C == {rows[i].createdAt \div Day : i \in A}
           class == [i \in A |-> rows[i].createdAt \div Day]
<1>1. IsFiniteSet(A)
  BY RowSets, FS_Subset
<1>2. \A i \in A : rows[i].createdAt \in 0 .. MaxTime
  BY DEF ReportInv, Dated, Reports!Undated, Reports!Rows
<1>3. IsFiniteSet(C)
  <2>1. \A t \in 0 .. MaxTime : t \div Day \in 0 .. MaxTime
    BY ReportAssumptions
  <2>2. C \in SUBSET (0 .. MaxTime)
    BY <1>2, <2>1
  <2> QED BY <2>2, TimesAreFinite, ReportAssumptions
<1>4. \A i \in A : class[i] \in C
  OBVIOUS
<1>5. Reports!CreatedByDay
          = [d \in C |-> Reports!Cardinality({i \in A : class[i] = d})]
  <2>1. ASSUME NEW d \in C
        PROVE  {i \in A : rows[i].createdAt \div Day = d} = {i \in A : class[i] = d}
    OBVIOUS
  <2> QED BY <2>1, Zenon DEF Reports!CreatedByDay
<1>6. Reports!paymentAnalytics(Reports!AllTime).total = Cardinality(A)
  BY AllTimeRows, ReportsSets DEF Reports!paymentAnalytics
<1> HIDE DEF A, C, class
<1>7. Reports!SeriesTotal([d \in C |-> Reports!Cardinality({i \in A : class[i] = d})])
          = Cardinality(A)
  BY <1>1, <1>3, <1>4, ClassesCount
<1> QED BY <1>5, <1>6, <1>7

LEMMA PaymentsAgreeHere == ASSUME ReportInv PROVE Reports!PaymentsAgree
<1> DEFINE O == Reports!paymentAnalytics(Reports!AllTime)
           M == Reports!workspaceMetrics
<1>1. /\ M.received = Total(Amount, Reports!Of("PAID", Reports!Rows))
      /\ M.outstanding = Total(Amount, Reports!Of("OPEN", Reports!Rows))
  BY ReportsSets DEF Reports!workspaceMetrics, Reports!Dashboard
<1>2. /\ O.recordedPaidUnits
            = Total(Amount, Reports!Of("PAID", Reports!Rows \ Reports!Undated))
      /\ O.outstanding
            = Total(Amount, Reports!Of("OPEN", Reports!Rows \ Reports!Undated))
  BY AllTimeRows, ReportsSets DEF Reports!paymentAnalytics
<1>3. M.received = O.recordedPaidUnits
                       + Reports!Total(Amount, Reports!Of("PAID", Reports!Undated))
  BY <1>1, <1>2, PhaseTotals, ReportsSets
<1>4. M.outstanding = O.outstanding
                          + Reports!Total(Amount, Reports!Of("OPEN", Reports!Undated))
  BY <1>1, <1>2, PhaseTotals, ReportsSets
<1>5. \A i \in Reports!Rows :
          ("paid" \in Reports!Activity(i)) <=> ("receipt" \in Reports!ShareTargets(i))
  BY DEF Reports!Activity, Reports!ShareTargets, Reports!paymentLinkPhase
<1> QED
  BY <1>3, <1>4, <1>5, PaymentSeries, RowsAreCounted, RowsByDay, Zenon DEF Reports!PaymentsAgree

LEMMA IntentsAgreeHere == ASSUME ReportInv PROVE Reports!IntentsAgree
<1> DEFINE one == [i \in RequestId |-> 1]
           at == [i \in RequestId |-> intents[i].verifiedAt]
           V == Reports!VerifiedIntents
           Status == {"AWAITING_PAYMENT", "SUBMITTED", "VERIFIED", "FAILED", "EXPIRED"}
<1> SUFFICES ASSUME NEW range \in Reports!Ranges, NEW step \in {1, Day}
    PROVE  /\ Reports!SeriesTotal(Reports!timeseries(V, at, one, range, step))
                 = Reports!agentAnalytics(range).verified
           /\ Reports!SeriesTotal(Reports!timeseries(V, at, Amount, range, step))
                 = Reports!agentAnalytics(range).verifiedUnits
           /\ Reports!SeriesTotal(Reports!agentAnalytics(range).status)
                 = Reports!agentAnalytics(range).created
  BY Zenon DEF Reports!IntentsAgree
<1> DEFINE S == {x \in V : Reports!InRange(at[x], range)}
           created == {i \in RequestId : Reports!InRange(intents[i].createdAt, range)}
<1>1. range[1] \in Nat /\ range[2] \in Nat /\ step \in Nat \ {0}
  BY ReportAssumptions DEF Reports!Ranges
<1>2. V \in SUBSET RequestId
  BY DEF Reports!VerifiedIntents
<1>3. \A x \in V : one[x] = 1 /\ at[x] \in Reports!Time /\ Amount[x] \in Nat
  BY <1>2, ReportAssumptions DEF ReportInv, Reports!TypeOK
<1>4. IsFiniteSet(V) /\ IsFiniteSet(created)
  BY <1>2, RowSets
<1>5. S = {i \in V : Reports!InRange(intents[i].verifiedAt, range)}
  BY <1>2
<1>6. Reports!agentAnalytics(range).verified = Cardinality(S)
      /\ Reports!agentAnalytics(range).verifiedUnits = Total(Amount, S)
      /\ Reports!agentAnalytics(range).created = Cardinality(created)
  BY <1>5, ReportsSets DEF Reports!agentAnalytics
<1>7. \A i \in created : Reports!merchantIntents[i] \in Status
  BY DEF ReportInv, Reports!TypeOK, Dated, Reports!InRange, Reports!merchantIntents
<1>8. Reports!agentAnalytics(range).status
          = [s \in Status |-> Reports!Cardinality({i \in created : Reports!merchantIntents[i] = s})]
  BY Zenon DEF Reports!agentAnalytics
<1>9. IsFiniteSet(Status)
  <2>1. IsFiniteSet({"AWAITING_PAYMENT"})
    BY FS_Singleton
  <2>2. IsFiniteSet({"AWAITING_PAYMENT", "SUBMITTED"})
    BY <2>1, FS_AddElement
  <2>3. IsFiniteSet({"AWAITING_PAYMENT", "SUBMITTED", "VERIFIED"})
    BY <2>2, FS_AddElement
  <2>4. IsFiniteSet({"AWAITING_PAYMENT", "SUBMITTED", "VERIFIED", "FAILED"})
    BY <2>3, FS_AddElement
  <2> QED BY <2>4, FS_AddElement
<1> HIDE DEF one, at, V, Status, created
<1>10. Reports!SeriesTotal(Reports!timeseries(V, at, one, range, step)) = Cardinality(S)
  BY <1>1, <1>3, <1>4, SeriesCounts
<1>11. Reports!SeriesTotal(Reports!timeseries(V, at, Amount, range, step)) = Total(Amount, S)
  BY <1>1, <1>3, <1>4, SeriesAddsUp
<1>12. Reports!SeriesTotal([s \in Status |->
           Reports!Cardinality({i \in created : Reports!merchantIntents[i] = s})])
           = Cardinality(created)
  BY <1>4, <1>7, <1>9, ClassesCount
<1> HIDE DEF S
<1> QED BY <1>6, <1>8, <1>10, <1>11, <1>12, Zenon

(* A denial has reasons, finitely many, and each has a code and a policy,  *)
(* or none.                                                                *)
LEMMA DenialReasons ==
    ASSUME ReportInv, NEW d \in denials
    PROVE  /\ IsFiniteSet(d.reasons)
           /\ \E c \in Code : Reports!Giving(d, c) # {}
           /\ \/ \E p \in PolicyId : Reports!Naming(d, p) # {}
              \/ Reports!Naming(d, None) # {}
<1>1. d.reasons \in SUBSET Reports!Reason /\ d.reasons # {}
  <2>1. d.reasons \in Refusal
    BY DEF ReportInv, Dated
  <2>2. Refusal \subseteq (SUBSET Reports!Reason) \ {{}}
    BY ReportAssumptions
  <2> QED BY <2>1, <2>2
<1>2. IsFiniteSet(Reports!Reason)
  <2>1. IsFiniteSet(PolicyId \cup {None})
    BY ReportAssumptions, FS_AddElement
  <2> QED BY <2>1, ReportAssumptions, FS_Product DEF Reports!Reason
<1>3. PICK r \in d.reasons : r[1] \in Code /\ r[2] \in PolicyId \cup {None}
  BY <1>1 DEF Reports!Reason
<1>4. r \in Reports!Giving(d, r[1]) /\ r \in Reports!Naming(d, r[2])
  BY DEF Reports!Giving, Reports!Naming
<1> QED BY <1>1, <1>2, <1>3, <1>4, FS_Subset

(* What an overview counts of the denials in a range, and by codes.        *)
LEMMA CodesCover ==
    ASSUME ReportInv, NEW range, NEW D, D = {d \in denials : Reports!InRange(d.at, range)}
    PROVE  LET shown == Reports!policyAnalytics(range) IN
           /\ shown.total = Cardinality(D)
           /\ \A c \in Code : shown.byCode[c] <= Cardinality(D)
           /\ Cardinality(D) <= Reports!SeriesTotal(shown.byCode)
<1> DEFINE cover == [c \in Code |-> {d \in D : Reports!Giving(d, c) # {}}]
           size == [c \in Code |-> Cardinality(cover[c])]
<1>1. IsFiniteSet(D)
  BY FS_Subset DEF ReportInv, Dated
<1>2. /\ \A c \in Code : cover[c] \in SUBSET D
      /\ \A d \in D : \E c \in Code : d \in cover[c]
  BY DenialReasons
<1>3. /\ Reports!policyAnalytics(range).total = Cardinality(D)
      /\ Reports!policyAnalytics(range).byCode = size
  <2>1. Reports!policyAnalytics(range).total = Reports!Cardinality(D)
    BY DEF Reports!policyAnalytics
  <2>2. Reports!policyAnalytics(range).byCode
            = [c \in Code |-> Reports!Cardinality({d \in D : Reports!Giving(d, c) # {}})]
    BY DEF Reports!policyAnalytics
  <2>3. \A c \in Code : size[c] = Reports!Cardinality({d \in D : Reports!Giving(d, c) # {}})
    BY ReportsSets, Zenon
  <2> QED BY <2>1, <2>2, <2>3, ReportsSets, Zenon
<1> HIDE DEF cover
<1>4. \A c \in Code : size[c] <= Cardinality(D)
  BY <1>1, <1>2, FS_Subset
<1>5. Cardinality(D) <= Total(size, Code)
  BY <1>1, <1>2, ReportAssumptions, CoverCounts
<1>6. DOMAIN size = Code
  OBVIOUS
<1> HIDE DEF size
<1>7. Reports!SeriesTotal(size) = Total(size, Code)
  BY <1>6, ReportsSets DEF Reports!SeriesTotal
<1> QED BY <1>3, <1>4, <1>5, <1>7

(* By policies: a denial that names none has a reason that does not.       *)
LEMMA PoliciesCover ==
    ASSUME ReportInv, NEW range, NEW D, D = {d \in denials : Reports!InRange(d.at, range)}
    PROVE  LET shown == Reports!policyAnalytics(range) IN
           /\ \A p \in PolicyId : shown.byPolicy[p] <= Cardinality(D)
           /\ Cardinality(D) <= Reports!SeriesTotal(shown.byPolicy) + shown.unattributedReasons
<1> DEFINE cover == [p \in PolicyId |-> {d \in D : Reports!Naming(d, p) # {}}]
           size == [p \in PolicyId |-> Cardinality(cover[p])]
           A == {d \in D : \E p \in PolicyId : d \in cover[p]}
           B == D \ A
           one == [d \in B |-> 1]
           bare == [d \in D |-> Cardinality(Reports!Naming(d, None))]
<1>1. IsFiniteSet(D)
  BY FS_Subset DEF ReportInv, Dated
<1>2. /\ \A p \in PolicyId : cover[p] \in SUBSET A /\ cover[p] \in SUBSET D
      /\ \A d \in A : \E p \in PolicyId : d \in cover[p]
  OBVIOUS
<1>3. \A d \in D : bare[d] \in Nat /\ (d \in B => bare[d] # 0)
  <2> SUFFICES ASSUME NEW d \in D, NEW N, N = Reports!Naming(d, None)
      PROVE  Cardinality(N) \in Nat /\ (d \in B => Cardinality(N) # 0)
    OBVIOUS
  <2>1. IsFiniteSet(N)
    BY DenialReasons, FS_Subset DEF Reports!Naming
  <2>2. d \in B => N # {}
    BY DenialReasons
  <2> QED BY <2>1, <2>2, FS_CardinalityType, FS_EmptySet
<1>4. /\ Reports!policyAnalytics(range).byPolicy = size
      /\ Reports!policyAnalytics(range).unattributedReasons = Total(bare, D)
  <2>1. Reports!policyAnalytics(range).byPolicy
            = [p \in PolicyId |-> Reports!Cardinality({d \in D : Reports!Naming(d, p) # {}})]
    BY DEF Reports!policyAnalytics
  <2>2. Reports!policyAnalytics(range).unattributedReasons
            = Reports!Total([d \in D |-> Reports!Cardinality(Reports!Naming(d, None))], D)
    BY DEF Reports!policyAnalytics
  <2>3. \A p \in PolicyId :
            size[p] = Reports!Cardinality({d \in D : Reports!Naming(d, p) # {}})
    BY ReportsSets, Zenon
  <2>4. \A d \in D : bare[d] = Reports!Cardinality(Reports!Naming(d, None))
    BY ReportsSets, Zenon
  <2>5. [d \in D |-> Reports!Cardinality(Reports!Naming(d, None))] = bare
    BY <2>4, Zenon
  <2>6. [p \in PolicyId |-> Reports!Cardinality({d \in D : Reports!Naming(d, p) # {}})] = size
    BY <2>3, Zenon
  <2> QED BY <2>1, <2>2, <2>5, <2>6, ReportsSets, Zenon
<1>5. \A d \in B : one[d] \in Nat /\ one[d] = 1 /\ one[d] <= bare[d]
  BY <1>3
<1>6. /\ A \in SUBSET D /\ B \in SUBSET D /\ IsFiniteSet(A) /\ IsFiniteSet(B)
      /\ B = D \ A /\ D \cap A = A
  BY <1>1, FS_Subset
<1> HIDE DEF cover, A, B, one, bare
<1>7. \A p \in PolicyId : size[p] <= Cardinality(D)
  BY <1>1, <1>2, FS_Subset
<1>8. Cardinality(A) <= Total(size, PolicyId)
  <2>1. IsFiniteSet(PolicyId) /\ IsFiniteSet(A)
    BY <1>6, ReportAssumptions
  <2>2. \A p \in PolicyId : cover[p] \in SUBSET A
    BY <1>2
  <2>3. \A d \in A : \E p \in PolicyId : d \in cover[p]
    BY <1>2
  <2> QED BY <2>1, <2>2, <2>3, CoverCounts
<1>9. Cardinality(B) <= Total(bare, D)
  <2>1. Total(one, B) <= Total(bare, D)
    BY <1>1, <1>3, <1>5, <1>6, TotalGrows
  <2>2. Total(one, B) = Cardinality(B)
    BY <1>5, <1>6, CountIsTotal
  <2> QED BY <2>1, <2>2
<1>10. Cardinality(B) = Cardinality(D) - Cardinality(A)
  <2>1. Cardinality(D \ A) = Cardinality(D) - Cardinality(D \cap A)
    BY <1>1, FS_Difference
  <2> QED BY <2>1, <1>6
<1>11. /\ Cardinality(A) \in Nat /\ Cardinality(B) \in Nat /\ Cardinality(D) \in Nat
       /\ Total(bare, D) \in Nat /\ Total(size, PolicyId) \in Nat
  <2>1. \A p \in PolicyId : size[p] \in Nat
    BY <1>1, <1>2, FS_Subset, FS_CardinalityType
  <2> HIDE DEF size
  <2>2. Total(size, PolicyId) \in Nat
    BY <2>1, ReportAssumptions, TotalNat
  <2>3. Total(bare, D) \in Nat
    BY <1>1, <1>3, TotalNat
  <2> QED BY <1>1, <1>6, <2>2, <2>3, FS_CardinalityType
<1>12. DOMAIN size = PolicyId
  OBVIOUS
<1>13. Reports!SeriesTotal(size) = Total(size, PolicyId)
  BY <1>12, ReportsSets, Zenon DEF Reports!SeriesTotal
<1>14. Cardinality(D) <= Reports!SeriesTotal(size) + Total(bare, D)
  <2> HIDE DEF size
  <2> QED BY <1>8, <1>9, <1>10, <1>11, <1>13
<1> HIDE DEF size
<1> QED BY <1>4, <1>7, <1>14 DEF size

LEMMA DenialsAgreeHere == ASSUME ReportInv PROVE Reports!DenialsAgree
<1> DEFINE one == [d \in denials |-> 1]
           at == [d \in denials |-> d.at]
           shown(range) == Reports!policyAnalytics(range)
<1> SUFFICES ASSUME NEW range \in Reports!Ranges
    PROVE  LET total == Reports!buildOverview(range).agents.policyDenied IN
           /\ shown(range).total = total
           /\ \A step \in {1, Day} :
                  Reports!SeriesTotal(Reports!timeseries(denials, at, one, range, step)) = total
           /\ \A c \in Code : shown(range).byCode[c] <= total
           /\ total <= Reports!SeriesTotal(shown(range).byCode)
           /\ \A p \in PolicyId : shown(range).byPolicy[p] <= total
           /\ total <= Reports!SeriesTotal(shown(range).byPolicy)
                          + shown(range).unattributedReasons
  <2>1. \A range \in Reports!Ranges : Reports!buildPolicyDetail(range).policies = shown(range)
    BY DEF Reports!buildPolicyDetail
  <2> HIDE DEF shown
  <2> QED BY <2>1, Zenon DEF Reports!DenialsAgree
<1> DEFINE D == {d \in denials : Reports!InRange(d.at, range)}
           total == Reports!buildOverview(range).agents.policyDenied
<1>1. total = Cardinality(D)
  BY ReportsSets DEF Reports!buildOverview, Reports!agentAnalytics
<1>2. ASSUME NEW step \in {1, Day}
      PROVE  Reports!SeriesTotal(Reports!timeseries(denials, at, one, range, step))
                 = Cardinality(D)
  <2>1. range[1] \in Nat /\ range[2] \in Nat /\ step \in Nat \ {0}
    BY ReportAssumptions DEF Reports!Ranges
  <2>2. /\ IsFiniteSet(denials)
        /\ \A d \in denials : one[d] = 1 /\ at[d] = d.at /\ at[d] \in Reports!Time
    BY DEF ReportInv, Dated, Reports!Time
  <2>3. D = {d \in denials : Reports!InRange(at[d], range)}
    BY <2>2
  <2> HIDE DEF one, at, D
  <2> QED BY <2>1, <2>2, <2>3, SeriesCounts
<1> HIDE DEF one, at, total
<1>3. /\ shown(range).total = Cardinality(D)
      /\ \A c \in Code : shown(range).byCode[c] <= Cardinality(D)
      /\ Cardinality(D) <= Reports!SeriesTotal(shown(range).byCode)
  BY CodesCover
<1>4. /\ \A p \in PolicyId : shown(range).byPolicy[p] <= Cardinality(D)
      /\ Cardinality(D) <= Reports!SeriesTotal(shown(range).byPolicy)
                               + shown(range).unattributedReasons
  BY PoliciesCover
<1> HIDE DEF shown, D
<1> QED BY <1>1, <1>2, <1>3, <1>4 DEF total

(* Recovery only takes reservations away.                                  *)
LEMMA RecoveredRow ==
    ASSUME ReportInv, NEW i \in RequestId
    PROVE  LET doc == Reports!RecoverReservations(ledger, intents, reportNow) IN
           /\ doc[i] \in Reports!Reservation
           /\ doc[i].amount = ledger[i].amount
           /\ intents[i].status # "VERIFIED" =>
                  doc[i] = ledger[i] \/ doc[i].status \notin {"RESERVED", "CONSUMED"}
<1>1. ledger[i] \in Reports!Reservation /\ intents[i].verifiedAt \in Reports!Time
  BY DEF ReportInv, Reports!TypeOK
<1>2. \A t \in Reports!Time :
          /\ Reports!Consume(ledger[i], t) \in Reports!Reservation
          /\ Reports!Consume(ledger[i], t).amount = ledger[i].amount
  BY <1>1 DEF Reports!Consume, Reports!Reservation
<1>3. /\ Reports!Release(ledger[i]) \in Reports!Reservation
      /\ Reports!Release(ledger[i]).amount = ledger[i].amount
      /\ \/ Reports!Release(ledger[i]) = ledger[i]
         \/ Reports!Release(ledger[i]).status \notin {"RESERVED", "CONSUMED"}
  BY <1>1 DEF Reports!Release, Reports!Reservation, Reports!Time, Reports!Never
<1> QED BY <1>1, <1>2, <1>3 DEF Reports!RecoverReservations

LEMMA UtilizationIsHonestHere == ASSUME ReportInv PROVE Reports!UtilizationIsHonest
<1> DEFINE doc == Reports!RecoverReservations(ledger, intents, reportNow)
<1> SUFFICES ASSUME NEW p \in Policy
    PROVE  Reports!CommittedForCap(ledger, intents, Amount, reportNow, p.window)
               >= Reports!CommittedForCap(doc, intents, Amount, reportNow, p.window)
  BY Zenon DEF Reports!UtilizationIsHonest, Reports!buildPolicyDetail, Reports!utilization
<1> DEFINE Other == RequestId \ Reports!VerifiedSpend(intents)
           Held(d) == {i \in Other :
                         \/ d[i].status = "RESERVED"
                         \/ /\ d[i].status = "CONSUMED"
                            /\ Reports!InWindow(d[i].consumedAt, reportNow, p.window)}
           Spent == Reports!SpendInWindow(intents, Amount, reportNow, p.window)
           f == Reports!Reserved(doc)
           g == Reports!Reserved(ledger)
<1>1. \A i \in RequestId :
          /\ doc[i] \in Reports!Reservation /\ ledger[i] \in Reports!Reservation
          /\ doc[i].amount = ledger[i].amount
          /\ intents[i].status # "VERIFIED" =>
                 doc[i] = ledger[i] \/ doc[i].status \notin {"RESERVED", "CONSUMED"}
  BY RecoveredRow DEF ReportInv, Reports!TypeOK
<1>2. Held(doc) \in SUBSET Held(ledger) /\ Held(ledger) \in SUBSET RequestId
  <2> HIDE DEF doc
  <2> QED BY <1>1 DEF Reports!VerifiedSpend
<1>3. \A i \in RequestId : f[i] \in Nat /\ f[i] <= g[i] /\ g[i] \in Nat
  <2> HIDE DEF doc
  <2> QED BY <1>1 DEF Reports!Reserved, Reports!Reservation
<1>4. /\ Reports!CommittedForCap(ledger, intents, Amount, reportNow, p.window)
            = Spent + Total(g, Held(ledger))
      /\ Reports!CommittedForCap(doc, intents, Amount, reportNow, p.window)
            = Spent + Total(f, Held(doc))
  <2> HIDE DEF doc
  <2> QED BY ReportsSets, Zenon DEF Reports!CommittedForCap
<1>5. Spent \in Nat
  <2> DEFINE R == {i \in Reports!VerifiedSpend(intents) :
                      Reports!InWindow(intents[i].verifiedAt, reportNow, p.window)}
  <2>1. R \in SUBSET RequestId
    BY DEF Reports!VerifiedSpend
  <2>2. Spent = Total(Amount, R)
    BY ReportsSets, Zenon DEF Reports!SpendInWindow
  <2> HIDE DEF R, Spent
  <2>3. IsFiniteSet(R) /\ \A e \in R : Amount[e] \in Nat
    BY <2>1, RowSets, ReportAssumptions
  <2> QED BY <2>2, <2>3, TotalNat
<1>6. IsFiniteSet(Held(ledger)) /\ IsFiniteSet(Held(doc))
  BY <1>2, RowSets
<1> HIDE DEF Held, f, g, doc, Spent
<1>7. Total(f, Held(doc)) <= Total(g, Held(ledger))
  BY <1>2, <1>3, <1>6, TotalGrows
<1>8. Total(f, Held(doc)) \in Nat /\ Total(g, Held(ledger)) \in Nat
  BY <1>2, <1>3, <1>6, TotalNat
<1> QED BY <1>4, <1>5, <1>7, <1>8

LEMMA ReportsAgreeHere == ASSUME ReportInv PROVE Reports!ReportsAgree
  BY PaymentsAgreeHere, IntentsAgreeHere, DenialsAgreeHere, UtilizationIsHonestHere
  DEF Reports!ReportsAgree

LEMMA ReportInitKeeps == ASSUME Reports!Init PROVE ReportInv
<1>1. /\ reportNow = 0 /\ denials = {}
      /\ rows = [i \in RequestId |-> [Reports!NoRecord EXCEPT !.stored = i \in Legacy]]
      /\ intents = [i \in RequestId |-> Reports!NoIntent]
      /\ ledger = [i \in RequestId |-> Reports!NoReservation]
  BY DEF Reports!Init
<1>2. \A i \in RequestId : rows[i].createdAt = Reports!Never
  BY <1>1 DEF Reports!NoRecord
<1>3. rows \in [RequestId -> [stored : BOOLEAN, createdAt : Reports!Time, paid : BOOLEAN,
                              cancelled : BOOLEAN]]
  <2>1. \A b \in BOOLEAN : [Reports!NoRecord EXCEPT !.stored = b]
            \in [stored : BOOLEAN, createdAt : Reports!Time, paid : BOOLEAN, cancelled : BOOLEAN]
    BY DEF Reports!NoRecord, Reports!Time
  <2>2. \A i \in RequestId : (i \in Legacy) \in BOOLEAN
    OBVIOUS
  <2>3. \A i \in RequestId : rows[i]
            \in [stored : BOOLEAN, createdAt : Reports!Time, paid : BOOLEAN, cancelled : BOOLEAN]
    BY <1>1, <2>1, <2>2, Zenon
  <2>4. rows = [i \in RequestId |-> rows[i]]
    BY <1>1, Zenon
  <2> QED BY <2>3, <2>4, Zenon
<1>4. Reports!TypeOK
  BY <1>1, <1>3, ReportAssumptions
  DEF Reports!TypeOK, Reports!NoIntent, Reports!NoReservation, Reports!Reservation, Reports!Time
<1>5. Dated
  BY <1>1, <1>2, FS_EmptySet DEF Dated, Reports!NoIntent
<1> QED BY <1>4, <1>5 DEF ReportInv

LEMMA StampsInTime == ASSUME ReportInv, NEW at \in Reports!Stamps PROVE at \in 0 .. MaxTime
  BY ReportAssumptions DEF Reports!Stamps, ReportInv, Reports!TypeOK

(* Recovery writes reservations.                                           *)
LEMMA RecoveredTyped ==
    ASSUME ReportInv
    PROVE  Reports!RecoverReservations(ledger, intents, reportNow)
               \in [RequestId -> Reports!Reservation]
<1> DEFINE doc == Reports!RecoverReservations(ledger, intents, reportNow)
<1>1. \A i \in RequestId : doc[i] \in Reports!Reservation
  BY RecoveredRow
<1>2. doc = [i \in RequestId |-> doc[i]]
  BY Zenon DEF Reports!RecoverReservations
<1> HIDE DEF doc
<1>3. doc \in [RequestId -> Reports!Reservation]
  BY <1>1, <1>2
<1> QED BY <1>3 DEF doc

LEMMA RecordsKeep ==
    ASSUME ReportInv, UNCHANGED <<reportNow, intents, denials, ledger>>,
           NEW i \in RequestId, NEW row,
           row \in [stored : BOOLEAN, createdAt : Reports!Time, paid : BOOLEAN,
                     cancelled : BOOLEAN],
           row.createdAt \in (0 .. MaxTime) \cup {Reports!Never},
           rows' = [rows EXCEPT ![i] = row]
    PROVE  ReportInv'
<1>1. Reports!TypeOK'
  BY DEF ReportInv, Reports!TypeOK, Reports!Time, Reports!Never, Reports!Reservation
<1>2. Dated'
  BY DEF ReportInv, Reports!TypeOK, Dated, Reports!Never
<1> QED BY <1>1, <1>2 DEF ReportInv

LEMMA IntentsKeep ==
    ASSUME ReportInv, UNCHANGED <<reportNow, rows, denials, ledger>>,
           NEW i \in RequestId, NEW row,
           row \in [status : {"NONE", "AWAITING_PAYMENT", "SUBMITTED", "VERIFIED", "FAILED"},
                     createdAt : Reports!Time, verifiedAt : Reports!Time],
           row.createdAt # Reports!Never => row.status # "NONE",
           intents' = [intents EXCEPT ![i] = row]
    PROVE  ReportInv'
<1>1. Reports!TypeOK'
  BY DEF ReportInv, Reports!TypeOK, Reports!Time, Reports!Never, Reports!Reservation
<1>2. Dated'
  BY DEF ReportInv, Reports!TypeOK, Dated, Reports!Never
<1> QED BY <1>1, <1>2 DEF ReportInv

LEMMA LedgerKeeps ==
    ASSUME ReportInv, UNCHANGED <<reportNow, rows, intents, denials>>,
           ledger' \in [RequestId -> Reports!Reservation]
    PROVE  ReportInv'
<1>1. Reports!TypeOK'
  BY DEF ReportInv, Reports!TypeOK, Reports!Time, Reports!Never, Reports!Reservation
<1>2. Dated'
  BY DEF ReportInv, Dated, Reports!Never
<1> QED BY <1>1, <1>2 DEF ReportInv

LEMMA ReportStepKeeps ==
    ASSUME ReportInv, [Reports!Next]_(Reports!vars)
    PROVE  ReportInv'
<1>1. ASSUME NEW i \in RequestId, Reports!Register(i) PROVE ReportInv'
  <2>1. PICK at \in Reports!Stamps : rows' = [rows EXCEPT ![i] = Reports!NewRecord(at)]
    BY <1>1 DEF Reports!Register
  <2>2. at \in 0 .. MaxTime
    BY StampsInTime
  <2> DEFINE row == Reports!NewRecord(at)
  <2>3. /\ row \in [stored : BOOLEAN, createdAt : Reports!Time, paid : BOOLEAN,
                     cancelled : BOOLEAN]
        /\ row.createdAt \in (0 .. MaxTime) \cup {Reports!Never}
    BY <2>2, ReportAssumptions DEF Reports!NewRecord, Reports!Time
  <2>4. rows' = [rows EXCEPT ![i] = row]
    BY <2>1
  <2> HIDE DEF row
  <2> QED BY <1>1, <2>3, <2>4, RecordsKeep DEF Reports!Register
<1>2. ASSUME NEW i \in RequestId, Reports!Settle(i) PROVE ReportInv'
  <2> DEFINE row == [rows[i] EXCEPT !.paid = TRUE]
  <2>1. /\ row \in [stored : BOOLEAN, createdAt : Reports!Time, paid : BOOLEAN,
                     cancelled : BOOLEAN]
        /\ row.createdAt \in (0 .. MaxTime) \cup {Reports!Never}
    BY DEF ReportInv, Reports!TypeOK, Dated
  <2>2. rows' = [rows EXCEPT ![i] = row]
    BY <1>2 DEF Reports!Settle
  <2> HIDE DEF row
  <2> QED BY <1>2, <2>1, <2>2, RecordsKeep DEF Reports!Settle
<1>3. ASSUME NEW i \in RequestId, Reports!Cancel(i) PROVE ReportInv'
  <2> DEFINE row == [rows[i] EXCEPT !.cancelled = TRUE]
  <2>1. /\ row \in [stored : BOOLEAN, createdAt : Reports!Time, paid : BOOLEAN,
                     cancelled : BOOLEAN]
        /\ row.createdAt \in (0 .. MaxTime) \cup {Reports!Never}
    BY DEF ReportInv, Reports!TypeOK, Dated
  <2>2. rows' = [rows EXCEPT ![i] = row]
    BY <1>3 DEF Reports!Cancel
  <2> HIDE DEF row
  <2> QED BY <1>3, <2>1, <2>2, RecordsKeep DEF Reports!Cancel
<1>4. ASSUME NEW i \in RequestId, Reports!Reserve(i) PROVE ReportInv'
  <2> DEFINE doc == Reports!RecoverReservations(ledger, intents, reportNow)
  <2>1. doc \in [RequestId -> Reports!Reservation]
    BY RecoveredTyped
  <2>2. ledger' = [doc EXCEPT ![i] = Reports!NewReservation(Amount[i])]
    BY <1>4, Zenon DEF Reports!Reserve
  <2>3. Reports!NewReservation(Amount[i]) \in Reports!Reservation
    BY ReportAssumptions DEF Reports!NewReservation, Reports!Reservation, Reports!Time
  <2> HIDE DEF doc
  <2>4. ledger' \in [RequestId -> Reports!Reservation]
    BY <2>1, <2>2, <2>3
  <2> QED BY <1>4, <2>4, LedgerKeeps DEF Reports!Reserve
<1>5. ASSUME NEW i \in RequestId, Reports!StoreIntent(i) PROVE ReportInv'
  <2>1. PICK at \in Reports!Stamps : intents' = [intents EXCEPT ![i] = Reports!NewIntent(at)]
    BY <1>5 DEF Reports!StoreIntent
  <2>2. at \in 0 .. MaxTime
    BY StampsInTime
  <2> DEFINE row == Reports!NewIntent(at)
  <2>3. /\ row \in [status : {"NONE", "AWAITING_PAYMENT", "SUBMITTED", "VERIFIED", "FAILED"},
                     createdAt : Reports!Time, verifiedAt : Reports!Time]
        /\ row.status # "NONE"
    BY <2>2, ReportAssumptions DEF Reports!NewIntent, Reports!Time, Reports!Never
  <2>4. intents' = [intents EXCEPT ![i] = row]
    BY <2>1
  <2> HIDE DEF row
  <2> QED BY <1>5, <2>3, <2>4, IntentsKeep DEF Reports!StoreIntent
<1>6. ASSUME NEW i \in RequestId, Reports!Submit(i) PROVE ReportInv'
  <2>1. PICK s \in {"SUBMITTED", "VERIFIED", "FAILED"}, at \in Reports!Stamps :
            intents' = [intents EXCEPT ![i] =
                           [status |-> s, createdAt |-> intents[i].createdAt,
                            verifiedAt |-> IF s = "VERIFIED" THEN at ELSE Reports!Never]]
    BY <1>6 DEF Reports!Submit
  <2>2. at \in 0 .. MaxTime
    BY StampsInTime
  <2> DEFINE row == [status |-> s, createdAt |-> intents[i].createdAt,
                     verifiedAt |-> IF s = "VERIFIED" THEN at ELSE Reports!Never]
  <2>3. /\ row \in [status : {"NONE", "AWAITING_PAYMENT", "SUBMITTED", "VERIFIED", "FAILED"},
                     createdAt : Reports!Time, verifiedAt : Reports!Time]
        /\ row.status # "NONE"
    BY <2>2, ReportAssumptions DEF ReportInv, Reports!TypeOK, Reports!Time, Reports!Never
  <2> HIDE DEF row
  <2>4. intents' = [intents EXCEPT ![i] = row]
    BY <2>1 DEF row
  <2> QED BY <1>6, <2>3, <2>4, IntentsKeep DEF Reports!Submit
<1>7. ASSUME Reports!Recover PROVE ReportInv'
  BY <1>7, RecoveredTyped, LedgerKeeps DEF Reports!Recover
<1>8. ASSUME NEW reasons \in Refusal, Reports!Deny(reasons) PROVE ReportInv'
  <2> DEFINE row(at) == [at |-> at, reasons |-> reasons, n |-> Reports!Cardinality(denials)]
  <2>1. PICK at \in Reports!Stamps : denials' = denials \/ denials' = denials \cup {row(at)}
    BY <1>8, Zenon DEF Reports!Deny
  <2>2. at \in Nat /\ row(at).at = at /\ row(at).reasons = reasons
    BY StampsInTime, ReportAssumptions
  <2> HIDE DEF row
  <2>3. IsFiniteSet(denials') /\ \A d \in denials' : d.at \in Nat /\ d.reasons \in Refusal
    BY <2>1, <2>2, FS_AddElement DEF ReportInv, Dated
  <2>4. UNCHANGED <<reportNow, rows, intents, ledger>>
    BY <1>8 DEF Reports!Deny
  <2>5. Reports!TypeOK'
    BY <2>4 DEF ReportInv, Reports!TypeOK, Reports!Time, Reports!Never, Reports!Reservation
  <2> QED BY <2>3, <2>4, <2>5 DEF ReportInv, Dated, Reports!Never
<1>9. ASSUME Reports!Tick PROVE ReportInv'
  <2>1. UNCHANGED <<rows, intents, denials, ledger>> /\ reportNow' \in 0 .. MaxTime
    BY <1>9, ReportAssumptions DEF Reports!Tick, ReportInv, Reports!TypeOK
  <2>2. Reports!TypeOK'
    BY <2>1 DEF ReportInv, Reports!TypeOK, Reports!Time, Reports!Never, Reports!Reservation
  <2> QED BY <2>1, <2>2 DEF ReportInv, Dated, Reports!Never
<1>10. ASSUME UNCHANGED Reports!vars PROVE ReportInv'
  BY <1>10 DEF Reports!vars, ReportInv, Reports!TypeOK, Dated, Reports!Time, Reports!Never,
               Reports!Reservation
<1> QED
  <2>1. Agent \in SUBSET RequestId
    BY ReportAssumptions
  <2> QED
    BY <1>1, <1>2, <1>3, <1>4, <1>5, <1>6, <1>7, <1>8, <1>9, <1>10, <2>1, Zenon
    DEF Reports!Next

(* The report of the keys.                                                 *)
LEMMA KeyReportHere == ASSUME KeyShapes PROVE Keys!KeyReportIsTrue
<1> DEFINE S == Keys!Stored
           A == Keys!Active
           expired == {k \in A : Keys!Expired(keys[k], keyNow)}
           disabled == {k \in A \ expired : ~keys[k].enabled}
           active == {k \in A \ expired : keys[k].enabled}
           revoked == {k \in S : keys[k].revoked}
           shown == Keys!apiKeyAnalytics(keyNow)
<1>1. IsFiniteSet(S) /\ IsFiniteSet(A)
  BY KeyAssumptions, FS_Subset DEF Keys!Stored, Keys!Active
<1>2. /\ shown.total = Cardinality(S) /\ shown.revoked = Cardinality(revoked)
      /\ shown.expired = Cardinality(expired) /\ shown.disabled = Cardinality(disabled)
      /\ shown.active = Cardinality(active)
  BY KeysSets DEF Keys!apiKeyAnalytics
<1>3. active = {k \in S : \E s \in Keys!Secret : Keys!Matches(keys[k], s, keyNow)}
  <2>1. \A k \in S : keys[k].secret \in Keys!Secret
    BY KeyAssumptions DEF KeyShapes, Keys!TypeOK, Keys!Stored, Keys!Row
  <2> QED BY <2>1 DEF Keys!Matches, Keys!Active
<1>4. Cardinality(active) + Cardinality(expired) + Cardinality(disabled) + Cardinality({})
          = Cardinality(A)
  <2>1. A = active \cup expired \cup disabled \cup {}
    OBVIOUS
  <2>2. active \cap expired = {} /\ active \cap disabled = {} /\ expired \cap disabled = {}
    OBVIOUS
  <2> HIDE DEF A, active, expired, disabled
  <2> QED BY <1>1, <2>1, <2>2, FourClasses
<1>5. Cardinality(revoked) + Cardinality(A) + Cardinality({}) + Cardinality({}) = Cardinality(S)
  <2>1. S = revoked \cup A \cup {} \cup {} /\ revoked \cap A = {}
    BY DEF Keys!Active
  <2> HIDE DEF A, S, revoked
  <2> QED BY <1>1, <2>1, FourClasses
<1>6. Cardinality({}) = 0
  BY FS_EmptySet
<1>7. /\ Cardinality(A) \in Nat /\ Cardinality(active) \in Nat /\ Cardinality(expired) \in Nat
      /\ Cardinality(disabled) \in Nat /\ Cardinality(revoked) \in Nat
  <2>1. IsFiniteSet(active) /\ IsFiniteSet(expired) /\ IsFiniteSet(disabled)
        /\ IsFiniteSet(revoked)
    BY <1>1, FS_Subset
  <2> HIDE DEF A, active, expired, disabled, revoked
  <2> QED BY <1>1, <2>1, FS_CardinalityType
<1> HIDE DEF S, A, expired, disabled, active, revoked, shown
<1>8. /\ shown.active = Cardinality(active)
      /\ shown.active + shown.expired + shown.disabled = Cardinality(A)
      /\ shown.revoked + Cardinality(A) = shown.total
  BY <1>2, <1>4, <1>5, <1>6, <1>7
<1> QED BY <1>3, <1>8, KeysSets, Zenon DEF Keys!KeyReportIsTrue, shown, A, S

-----------------------------------------------------------------------------
(* The parts, each by its own specification.                               *)

LEMMA ApiSteps ==
    [ApiNext]_ApiVars => /\ [Next]_vars /\ [Keys!Next]_(Keys!vars)
                         /\ [Limits!Next]_(Limits!vars) /\ [Reports!Next]_(Reports!vars)
<1> SUFFICES ASSUME [ApiNext]_ApiVars
    PROVE  /\ [Next]_vars /\ [Keys!Next]_(Keys!vars)
           /\ [Limits!Next]_(Limits!vars) /\ [Reports!Next]_(Reports!vars)
  OBVIOUS
<1>1. ASSUME UNCHANGED keysVars PROVE UNCHANGED Keys!vars
  BY <1>1 DEF keysVars, Keys!vars, Keys!limits, Keys!history
<1>2. ASSUME UNCHANGED limitsVars PROVE UNCHANGED Limits!vars
  BY <1>2 DEF limitsVars, Limits!vars, Limits!limiter
<1>3. ASSUME UNCHANGED reportsVars PROVE UNCHANGED Reports!vars
  BY <1>3 DEF reportsVars, Reports!vars
<1>4. CASE UNCHANGED ApiVars
  BY <1>1, <1>2, <1>4, <1>3 DEF ApiVars
<1>5. CASE ApiNext
  BY <1>1, <1>2, <1>5, <1>3 DEF ApiNext
<1> QED BY <1>4, <1>5

LEMMA ApiStarts == ApiInit => Init /\ Keys!Init /\ Limits!Init /\ Reports!Init
  BY DEF ApiInit

(* The composition lets the policies, the keys, the limits and the store   *)
(* under the reports behave as their own specifications say.               *)
THEOREM ApiRunsItsParts == ApiSpec => Spec /\ Keys!Spec /\ Limits!Spec /\ Reports!Spec
  BY ApiSteps, ApiStarts, PTL DEF ApiSpec, Spec, Keys!Spec, Limits!Spec, Reports!Spec

LEMMA KeyInitQuota ==
    ASSUME Keys!Init PROVE KeyRatePaced /\ Keys!KeyRateIsBounded /\ Keys!KeysAreCapped
<1> USE KeyAssumptions
<1> DEFINE zero == [t \in 0 .. KeyTime |-> 0]
<1>1. /\ keyNow = 0
      /\ rate = [k \in Key |-> [c \in RouteClass |-> NoBucket]]
      /\ passed = [k \in Key |-> [c \in RouteClass |-> zero]]
  BY DEF Keys!Init, Keys!Time
<1>2. /\ Paced(zero, KeyTime, KeyWindow, KeyLimit, -KeyWindow, 0)
      /\ \A S \in SUBSET (0 .. KeyTime) : Total(zero, S) = 0
  <2>1. -KeyWindow \in Int /\ 0 \in Nat
    OBVIOUS
  <2> QED BY <2>1, NonePaced
<1> HIDE DEF zero
<1>3. -KeyWindow <= keyNow /\ 0 <= KeyLimit
  BY <1>1
<1>4. Opened(NoBucket).start = -KeyWindow /\ Opened(NoBucket).count = 0
  BY DEF Opened
<1>5. KeyPaced(zero, NoBucket, keyNow)
  BY <1>2, <1>3, <1>4 DEF KeyPaced
<1>6. KeyRatePaced
  BY <1>1, <1>5 DEF KeyRatePaced
<1>7. Keys!KeyRateIsBounded
  <2>1. 0 <= KeyLimit * (IF MaxDuration <= 1 THEN 2 ELSE 3)
    OBVIOUS
  <2> QED BY <1>1, <1>2, <2>1, KeysSets DEF Keys!KeyRateIsBounded, Keys!Time
<1>8. Keys!KeysAreCapped
  <2>1. PICK old \in SUBSET Key :
            /\ Cardinality(old) <= MaxStored
            /\ keys = [k \in Key |-> IF k \in old THEN Keys!RevokedBefore ELSE None]
    BY KeysSets DEF Keys!Init
  <2>2. Keys!RevokedBefore \in Keys!Row /\ Keys!RevokedBefore.revoked
    BY DEF Keys!RevokedBefore, Keys!Row, Keys!Secret
  <2>3. Keys!Stored = old /\ Keys!Active = {}
    <3> HIDE DEF Keys!RevokedBefore
    <3> QED BY <2>1, <2>2 DEF Keys!Stored, Keys!Active
  <2> QED BY <2>1, <2>3, KeysSets, FS_EmptySet DEF Keys!KeysAreCapped
<1> QED BY <1>6, <1>7, <1>8

LEMMA LimitInitQuota ==
    ASSUME Limits!Init PROVE SharedKept /\ LocalPaced /\ Limits!LocalQuotaHolds
<1> USE LimitAssumptions
<1> DEFINE zero == [t \in Limits!Time |-> 0]
<1>1. /\ limitNow = 0
      /\ byKey = [s \in Server |-> [c \in Client |-> NoBucket]]
      /\ counter = [c \in Client |-> [i \in Limits!Index |-> None]]
      /\ local = [s \in Server |-> [c \in Client |-> zero]]
      /\ shared = [c \in Client |-> [i \in Limits!Index |-> 0]]
  BY DEF Limits!Init
<1>2. /\ LimitPaced(zero, NoBucket, limitNow)
      /\ \A S \in SUBSET (0 .. MaxTime) : Total(zero, S) <= 2 * PerKey
  <2>1. limitNow \in Nat
    BY <1>1
  <2> QED BY <2>1, NothingPassed
<1> HIDE DEF zero
<1>3. SharedKept
  BY <1>1 DEF SharedKept, Kept
<1>4. LocalPaced
  BY <1>1, <1>2 DEF LocalPaced
<1>5. Limits!LocalQuotaHolds
  BY <1>1, <1>2, LimitsSets DEF Limits!LocalQuotaHolds, Limits!Passed, Limits!Time
<1> QED BY <1>3, <1>4, <1>5

KeyInv ==
    /\ KeyShapes /\ Keys!KeysAreCapped
    /\ KeyRatePaced /\ Keys!KeyRateIsBounded

LimitInv ==
    /\ LimitShapes /\ LocalPaced /\ Limits!LocalQuotaHolds
    /\ MaxDelay <= Grace => SharedKept

LEMMA KeyInvHolds == Keys!Spec => []KeyInv
<1>1. Keys!Init => KeyInv
  BY KeyInitShapes, KeyInitQuota DEF KeyInv
<1>2. KeyInv /\ [Keys!Next]_(Keys!vars) => KeyInv'
  BY KeyStepShapes, KeysCappedStep, KeyRateStep DEF KeyInv
<1> QED BY <1>1, <1>2, PTL DEF Keys!Spec

LEMMA LimitInvHolds == Limits!Spec => []LimitInv
<1>1. Limits!Init => LimitInv
  BY LimitInitShapes, LimitInitQuota DEF LimitInv
<1>2. LimitInv /\ [Limits!Next]_(Limits!vars) => LimitInv'
  <2> SUFFICES ASSUME LimitInv, [Limits!Next]_(Limits!vars) PROVE LimitInv'
    OBVIOUS
  <2>1. LimitShapes'
    BY LimitStepShapes DEF LimitInv
  <2>2. LocalPaced' /\ Limits!LocalQuotaHolds'
    BY <2>1, LocalStep DEF LimitInv
  <2>3. MaxDelay <= Grace => SharedKept'
    BY SharedStep DEF LimitInv
  <2> QED BY <2>1, <2>2, <2>3 DEF LimitInv
<1> QED BY <1>1, <1>2, PTL DEF Limits!Spec

LEMMA ReportInvHolds == Reports!Spec => []ReportInv
  BY ReportInitKeeps, ReportStepKeeps, PTL DEF Reports!Spec

(* The keys, the limits and the reported store keep the shape of their     *)
(* state.                                                                  *)
THEOREM ApiTypesHold == ApiSpec => [](Keys!TypeOK /\ Limits!TypeOK /\ Reports!TypeOK)
<1>1. KeyInv /\ LimitInv /\ ReportInv => Keys!TypeOK /\ Limits!TypeOK /\ Reports!TypeOK
  BY DEF KeyInv, LimitInv, ReportInv, KeyShapes, LimitShapes
<1> QED BY <1>1, KeyInvHolds, LimitInvHolds, ReportInvHolds, ApiRunsItsParts, PTL

(* No limit is passed, however requests race and windows change: not the   *)
(* caps on a merchant's keys (on active ones, by others than a stale row   *)
(* brought back), not the rate of a key, not the quota that the processes  *)
(* share, not that of one alone, and not the clients that it tracks.       *)
THEOREM ApiQuotasHold == ApiSpec => []QuotasHold
<1>1. KeyInv => Keys!KeysAreCapped /\ Keys!KeyRateIsBounded
  BY DEF KeyInv
<1>2. LimitInv => Limits!SharedQuotaHolds
  <2> SUFFICES ASSUME LimitInv, MaxDelay <= Grace, NEW c \in Client, NEW i \in Limits!Index
      PROVE  shared[c][i] <= PerKey
    BY DEF Limits!SharedQuotaHolds
  <2> QED BY DEF LimitInv, SharedKept, Kept
<1>3. LimitInv => Limits!LocalQuotaHolds
  BY DEF LimitInv
<1>4. LimitInv => Limits!TrackedKeysAreBounded
  BY LimitsSets DEF LimitInv, LimitShapes, StartsInTime, ServerInTime, Tracked,
                    Limits!TrackedKeysAreBounded
<1>5. KeyInv /\ LimitInv => QuotasHold
  BY <1>1, <1>2, <1>3, <1>4 DEF QuotasHold
<1> QED BY <1>5, KeyInvHolds, LimitInvHolds, ApiRunsItsParts, PTL

(* The reports agree: the buckets of a series with the overview, whatever  *)
(* the range and the width of the buckets; the dashboard with the overview *)
(* and the rows that no range has; the statuses with their total; the      *)
(* counts by code and by policy with the denials, which may have several,  *)
(* so that each is no more than the denials and together they are no less; *)
(* and no cap is shown less used than it is enforced.  What an overview    *)
(* shows of the keys is what opens something and what counts.              *)
THEOREM ApiReportsAgree == ApiSpec => []ReportsAgree
<1>1. KeyInv /\ ReportInv => ReportsAgree
  BY ReportsAgreeHere, KeyReportHere DEF KeyInv, ReportsAgree
<1> QED BY <1>1, KeyInvHolds, ReportInvHolds, ApiRunsItsParts, PTL

(* A secret that was revoked or rotated away matches no usable key again,  *)
(* whatever the requests still write that listed the keys before.          *)
THEOREM ApiDeadSecretStaysDead == ApiSpec => DeadSecretStaysDead
<1>1. KeyInv /\ [Keys!Next]_(Keys!vars) =>
          [part = "keys" => Keys!SecretStaysDead]_<<part, keysVars>>
  BY SecretStaysDeadStep DEF KeyInv
<1> QED BY <1>1, KeyInvHolds, ApiRunsItsParts, PTL DEF DeadSecretStaysDead, Keys!Spec

=============================================================================
