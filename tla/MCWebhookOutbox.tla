--------------------------- MODULE MCWebhookOutbox ---------------------------
(* Instances of WebhookOutbox for TLC: every delay is one tick.            *)
EXTENDS WebhookOutbox, TLC

OneTick == [n \in 1 .. MaxAttempts - 1 |-> 1]

Symmetric == Permutations(Worker)

=============================================================================
