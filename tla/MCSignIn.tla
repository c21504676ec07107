------------------------------ MODULE MCSignIn -------------------------------
(* An instance of SignIn for TLC.                                          *)
EXTENDS SignIn, TLC

Symmetric == Permutations(Handler) \cup Permutations(Merchant)

=============================================================================
