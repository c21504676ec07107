------------------------------- MODULE Policies ------------------------------
(***************************************************************************)
(* The payment policies of one merchant (src/src/lib/paymentPolicy.ts and  *)
(* paymentPolicies.ts): their creation, patches and deletion, each one     *)
(* mutation of the store, and what they decide about a machine payment     *)
(* before its request is created (agentPayments.ts, developerApi.ts).      *)
(*                                                                         *)
(* The policies and the creation of a request read the same body, each     *)
(* with parsers of its own: a field that the policies cannot read defers   *)
(* the decision to the parser that follows.  Reservations of spending are  *)
(* PolicyLedger's and AgentIntents', and so is the growth of what is       *)
(* verified; section policies.reservations of the store, which             *)
(* tightestSpendDenial also reads, is written by nothing.                  *)
(* The in-process queue of a merchant is left out: servers do not share it.*)
(***************************************************************************)
EXTENDS Integers, FiniteSetsExt

CONSTANTS
    PolicyId,     \* ids the server may draw
    Call,         \* creates of machine payments
    Body,         \* what their bodies say
    Post,         \* bodies of POST: whole policies
    Patch,        \* bodies of PATCH: some rules, enabled or None
    Verified,     \* payments verified so far: their amounts and times
    MaxPolicies,  \* MAX_POLICIES_PER_MERCHANT
    Merchant,     \* its address, the only recipient of a request
    Usdc, Arc,    \* USDC_ADDRESS, ARC_CHAIN_ID
    None,         \* no policy, no agent
    Absent,       \* a rule that is not set
    Null,         \* a rule that a patch removes
    Bad,          \* a value that no parser reads
    MaxTime       \* bound: the clock stops here

RuleKey == {"maxAmount", "maxSpend", "window", "recipients", "agents",
            "tokens", "chains"}

ASSUME PoliciesAssumption ==
    /\ MaxPolicies \in Nat \ {0} /\ MaxTime \in Nat
    /\ Verified \subseteq [amount : Nat, at : Int]
    /\ \A post \in Post : DOMAIN post.rules = RuleKey
    /\ \A patch \in Patch : DOMAIN patch.rules \subseteq RuleKey
    /\ \A body \in Body : body.expiry.at \in Int
    /\ Merchant # Bad

VARIABLES
    now,      \* nowSeconds
    records,  \* policies.records
    calls     \* each create: its body, the plan, its request

vars == <<now, records, calls>>

Idle == [pc |-> "idle", body |-> None, plan |-> None]

Init ==
    /\ now = 0
    /\ records = [p \in PolicyId |-> None]
    /\ calls = [c \in Call |-> Idle]

Stored == {p \in PolicyId : records[p] # None}

-----------------------------------------------------------------------------
(* Rules.                                                                  *)

HasConstraint(rules) == \E k \in RuleKey \ {"window"} : rules[k] # Absent

(* parsePolicyRules accepts a whole rules object or nothing of it.  Tokens *)
(* and chains admit only Arc's.                                            *)
IsPolicyRules(rules) ==
    /\ \A k \in RuleKey : rules[k] # Bad
    /\ rules["tokens"] \in {Absent, {}, {Usdc}}
    /\ rules["chains"] \in {Absent, {}, {Arc}}
    /\ rules["maxSpend"] = Absent <=> rules["window"] = Absent
    /\ HasConstraint(rules)

MergePolicyRules_Replaces(current, patch) ==
    [k \in RuleKey |->
        IF k \in DOMAIN patch /\ patch[k] # Null THEN patch[k] ELSE Absent]

(* Omitted keys stay, null removes, and either half of the spend window    *)
(* takes the other with it unless the patch sets that one.                 *)
MergePolicyRules(current, patch) ==
    LET Removed(k) == k \in DOMAIN patch /\ patch[k] = Null
        Halved(k, half) == Removed(half) /\ k \notin DOMAIN patch
    IN  [k \in RuleKey |->
            CASE Removed(k) -> Absent
              [] k = "window" /\ Halved(k, "maxSpend") -> Absent
              [] k = "maxSpend" /\ Halved(k, "window") -> Absent
              [] k \in DOMAIN patch /\ ~Removed(k) -> patch[k]
              [] OTHER -> current[k]]

CreatePolicy(p, post) ==
    /\ records[p] = None
    /\ IsPolicyRules(post.rules)
    /\ Cardinality(Stored) < MaxPolicies
    /\ records' = [records EXCEPT ![p] = post]
    /\ UNCHANGED <<now, calls>>

(* A field that the body leaves out is not touched.                        *)
UpdatePolicy(p, patch) ==
    LET merged == MergePolicyRules(records[p].rules, patch.rules) IN
    /\ records[p] # None
    /\ IsPolicyRules(merged)
    /\ records' = [records EXCEPT
           ![p] = [enabled |-> IF patch.enabled = None THEN @.enabled
                               ELSE patch.enabled,
                   rules |-> merged]]
    /\ UNCHANGED <<now, calls>>

DeletePolicy(p) ==
    /\ records[p] # None
    /\ records' = [records EXCEPT ![p] = None]
    /\ UNCHANGED <<now, calls>>

-----------------------------------------------------------------------------
(* The decision.                                                           *)

(* verifiedSpendFromIntents, spendInWindow.                                *)
SpentIn(window) ==
    LET Counted == {v \in Verified : now - window < v.at /\ v.at <= now}
    IN  MapThenSumSet(LAMBDA v : v.amount, Counted)

(* evaluatePaymentPolicy: the rules of a policy that deny a payment.       *)
Denying(rules, body) ==
    {k \in RuleKey :
        /\ rules[k] # Absent
        /\ \/ k = "maxAmount" /\ body.amount > rules[k]
           \/ k = "maxSpend" /\ SpentIn(rules["window"]) + body.amount > rules[k]
           \/ k = "recipients" /\ body.recipient \notin rules[k]
           \/ k = "agents" /\ body.agent \notin rules[k]
           \/ k = "tokens" /\ Usdc \notin rules[k]
           \/ k = "chains" /\ body.chain \notin rules[k]}

EnabledPolicies == {p \in Stored : records[p].enabled}

CapsSpending(p) == records[p].rules["maxSpend"] # Absent

(* machinePolicyInput: an expiry is read as Number reads it.               *)
PolicyReads(body) == Bad \notin {body.amount, body.chain, body.recipient}

PolicyExpiry(body) ==
    body.expiry.read \in {"number", "loosely"} /\ body.expiry.at > 0

(* decideMachinePolicy.  A capped payment needs what its reservation is    *)
(* keyed and released by, when the request is to be executed.              *)
Plan(body) ==
    LET reserve == body.signed /\ \E p \in EnabledPolicies : CapsSpending(p)
    IN  CASE EnabledPolicies = {} -> "skip"
          [] EnabledPolicies # {} /\ ~PolicyReads(body) -> "defer"
          [] /\ PolicyReads(body)
             /\ \E p \in EnabledPolicies : Denying(records[p].rules, body) # {}
                -> "deny"
          [] OTHER -> IF reserve /\ (body.id = Bad \/ ~PolicyExpiry(body))
                      THEN "defer" ELSE "allow"

Decide(c, body) ==
    /\ calls[c].pc = "idle"
    /\ calls' = [calls EXCEPT ![c] =
           [pc |-> IF Plan(body) = "deny" THEN "denied" ELSE "create",
            body |-> body, plan |-> Plan(body)]]
    /\ UNCHANGED <<now, records>>

(* parseDraft, with parsers of its own.                                    *)
DraftReads(body) ==
    Bad \notin {body.amount, body.chain} /\ body.expiry.read = "number"

(* validateFinalRequest: a request is Arc's, and pays its merchant.        *)
IsFinalRequest(body) ==
    body.chain = Arc /\ body.recipient = Merchant /\ body.id # Bad

(* assertFinalRequestActive.                                               *)
IsActive(body) == now < body.expiry.at

Accepts_Expired(body) == DraftReads(body) /\ IsFinalRequest(body)

(* What createPaymentRequest makes of a body.                              *)
Accepts(body) == DraftReads(body) /\ IsFinalRequest(body) /\ IsActive(body)

(* Without a signature only a preview is returned.                         *)
CreateRequest(c) ==
    /\ calls[c].pc = "create"
    /\ LET l == calls[c] IN
       calls' = [calls EXCEPT ![c] = [l EXCEPT !.pc =
           IF Accepts(l.body) /\ l.body.signed THEN "stored" ELSE "refused"]]
    /\ UNCHANGED <<now, records>>

Tick ==
    /\ now < MaxTime
    /\ now' = now + 1
    /\ UNCHANGED <<records, calls>>

Next ==
    \/ \E p \in PolicyId :
          \/ \E post \in Post : CreatePolicy(p, post)
          \/ \E patch \in Patch : UpdatePolicy(p, patch)
          \/ DeletePolicy(p)
    \/ \E c \in Call :
          \/ \E body \in Body : Decide(c, body)
          \/ CreateRequest(c)
    \/ Tick

Spec == Init /\ [][Next]_vars

-----------------------------------------------------------------------------
(* Properties.                                                             *)

(* Every stored policy constrains something, and its spend window is whole.*)
TypeOK ==
    /\ now \in 0 .. MaxTime
    /\ Cardinality(Stored) <= MaxPolicies
    /\ \A p \in Stored : IsPolicyRules(records[p].rules)
    /\ \A c \in Call :
          calls[c].pc \in {"idle", "denied", "create", "refused", "stored"}

(* "An omitted field is never turned into allow-all" (paymentPolicies.ts:  *)
(* 47-48): whatever a policy denied by a rule that a patch does not name   *)
(* it denies after the patch, by the same rule.  A patch of one half of    *)
(* the spend window speaks of both.                                        *)
Names(patch) ==
    DOMAIN patch.rules \cup
        IF {"maxSpend", "window"} \cap DOMAIN patch.rules = {} THEN {}
        ELSE {"maxSpend", "window"}

OmittedRulesStillDeny ==
    [][\A p \in Stored : p \in Stored' /\ records'[p].rules # records[p].rules =>
          \E patch \in Patch :
              /\ records'[p].rules = MergePolicyRules(records[p].rules, patch.rules)
              /\ \A body \in Body : PolicyReads(body) =>
                    Denying(records[p].rules, body) \ Names(patch)
                        = Denying(records'[p].rules, body) \ Names(patch)]_vars

(* No request is stored that the policies only deferred: what they cannot  *)
(* read, the parsers and the checks after them refuse (paymentPolicy.test  *)
(* .ts: "stays a validation failure, not a silent policy skip").           *)
StoredWasJudged ==
    \A c \in Call : calls[c].pc = "stored" =>
        calls[c].plan \in {"skip", "allow"}

=============================================================================
