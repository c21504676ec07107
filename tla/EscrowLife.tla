----------------------------- MODULE EscrowLife ------------------------------
(***************************************************************************)
(* What an escrow agreement promises, whoever keeps it: it is opened,      *)
(* funded and then either released or refunded, and it can be cancelled    *)
(* as long as no money is in it.  The contract and the stored row are both *)
(* shown to live this life.                                                *)
(***************************************************************************)
EXTENDS Naturals

CONSTANT Escrow

VARIABLE state

States == {"CREATED", "OPEN", "FUNDED", "RELEASED", "REFUNDED", "CANCELLED"}

(* The steps of a life.                                                    *)
Step == {<<"CREATED", "OPEN">>, <<"OPEN", "FUNDED">>,
         <<"FUNDED", "RELEASED">>, <<"FUNDED", "REFUNDED">>,
         <<"CREATED", "CANCELLED">>, <<"OPEN", "CANCELLED">>}

(* States a life can still come to, the present one included.              *)
Ahead(s) ==
    {s} \cup
    (IF s = "CREATED" THEN States
     ELSE IF s = "OPEN" THEN {"FUNDED", "RELEASED", "REFUNDED", "CANCELLED"}
     ELSE IF s = "FUNDED" THEN {"RELEASED", "REFUNDED"} ELSE {})

Init == state = [e \in Escrow |-> "CREATED"]

Move(e, s) ==
    /\ <<state[e], s>> \in Step
    /\ state' = [state EXCEPT ![e] = s]

Next == \E e \in Escrow, s \in States : Move(e, s)

Spec == Init /\ [][Next]_state

=============================================================================
