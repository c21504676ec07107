--------------------------- MODULE MCPayStoreCas ---------------------------
(***************************************************************************)
(* Instances of PayStoreCas for TLC: a store that has a row or has not, so *)
(* that it can return to a value another writer has read, and mutators     *)
(* that write the row, drop it, or throw when it is there already.         *)
(***************************************************************************)
EXTENDS PayStoreCas

Stores == {{}, {"row"}}

Mutators == {"upsert", "drop", "create"}

Effects ==
    [m \in Mutators |-> [b \in Stores |->
        IF m = "drop" THEN {}
        ELSE IF m = "create" /\ b # {} THEN Threw
        ELSE {"row"}]]

=============================================================================
