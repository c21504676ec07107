---------------------------- MODULE MCMerchantApi ----------------------------
(* An instance of MerchantApi for TLC.                                     *)
EXTENDS MerchantApi, TLC

CONSTANTS
    Machine, Foreign,     \* an agent; a recipient or a chain that is not ours
    r1, r2,               \* a legacy request, and one that a machine makes
    p1, p2                \* policies

MCExpiry == (r1 :> 2) @@ (r2 :> 1)
MCAmount == (r1 :> 1) @@ (r2 :> 2)
MCPolicy == {[cap |-> 3, window |-> 1]}

(* A corrupt row denies, or two policies do, one of them by two rules.     *)
MCRefusal ==
    {{<<"INVALID_POLICY", None>>},
     {<<"AMOUNT_LIMIT_EXCEEDED", p1>>, <<"AGENT_NOT_ALLOWED", p1>>,
      <<"AMOUNT_LIMIT_EXCEEDED", p2>>}}

Symmetry == Permutations(Handler) \cup Permutations(Client)

(* The clock moves while at most one key is stored that was made here; two *)
(* of them meet within one second.  (Two keys share no bucket.)            *)
Bounded ==
    Cardinality({k \in Keys!Stored : keys[k].secret > 0}) > 1 => keyNow = 0

-----------------------------------------------------------------------------
(* The policies, and the bodies of their requests.                         *)

MCVerified == {[amount |-> 1, at |-> 0], [amount |-> 2, at |-> 1]}
NoRules == [k \in RuleKey |-> Absent]
Created(rules) == [enabled |-> TRUE, rules |-> rules]
MCPost ==
    {Created([NoRules EXCEPT !["maxAmount"] = 1]),
     Created([NoRules EXCEPT !["maxSpend"] = 2, !["window"] = 1]),
     [enabled |-> FALSE, rules |-> [NoRules EXCEPT !["tokens"] = {}]],
     Created([NoRules EXCEPT !["window"] = 1])}
Rule(k, v) == [enabled |-> None, rules |-> [key \in {k} |-> v]]
Enable(b) == [enabled |-> b, rules |-> [key \in {} |-> 0]]
MCPatch ==
    {Enable(FALSE), Rule("maxAmount", Null), Rule("maxAmount", Bad),
     Rule("maxSpend", 3), Rule("maxSpend", Null), Rule("window", Null),
     Rule("agents", {}), Rule("chains", {Foreign})}
Plain == [agent |-> Machine, recipient |-> Merchant, amount |-> 1, chain |-> Arc,
          id |-> 1, expiry |-> [read |-> "number", at |-> 2], signed |-> TRUE]
MCBody ==
    {Plain,
     [Plain EXCEPT !.amount = 2, !.agent = None],
     [Plain EXCEPT !.amount = Bad],
     [Plain EXCEPT !.chain = Bad],
     [Plain EXCEPT !.chain = Foreign],
     [Plain EXCEPT !.recipient = Bad],
     [Plain EXCEPT !.recipient = Foreign],
     [Plain EXCEPT !.id = Bad],
     [Plain EXCEPT !.signed = FALSE],
     [Plain EXCEPT !.expiry.at = 0],
     [Plain EXCEPT !.expiry.read = "loosely"],
     [Plain EXCEPT !.expiry.read = "not"]}

=============================================================================
