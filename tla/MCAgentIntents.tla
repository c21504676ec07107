--------------------------- MODULE MCAgentIntents ---------------------------
(* Instances of AgentIntents for TLC.                                      *)
EXTENDS AgentIntents, TLC

CONSTANTS i1, i2, t1, k1, k2, k3

OneCap == {[cap |-> 2, window |-> 1]}

(* Both intents fit under the cap if they ask for 1.  Under k1 either is   *)
(* created, under k2 the second one, with the same terms or with others.   *)
NewOf(i, a) == [id |-> i, amount |-> a]
CreateKeys ==
    [k \in Key |-> CASE k = k1 -> {NewOf(i1, 1), NewOf(i2, 1)}
                     [] k = k2 -> {NewOf(i2, 1), NewOf(i2, 2)}
                     [] OTHER  -> {}]
SubmitKeys == [k \in Key |-> IF k = k3 THEN {[id |-> i1, tx |-> t1]} ELSE {}]

OneTick == [i \in Id |-> 1]

PaysFirst == t1 :> i1

Symmetric == Permutations(Call)

=============================================================================
