------------------------------ MODULE MCEscrow -------------------------------
(* Constants for model-checking EscrowService.                             *)
EXTENDS EscrowService, TLC

CONSTANTS p, r

MCAccount == {p, r}
MCPayer == [e \in Escrow |-> p]
MCRecipient == [e \in Escrow |-> r]
MCAmount == [e \in Escrow |-> 1]
MCExpiresAt == [e \in Escrow |-> 1]
MCSupply == [a \in MCAccount |-> IF a = p THEN 1 ELSE 0]

Symmetric == Permutations(Handler) \cup Permutations(Nonce)

=============================================================================
