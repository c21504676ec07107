----------------------------- MODULE MCCheckout ------------------------------
(* Checkout with the constants of Checkout.cfg: a V2 link, two             *)
(* transactions, one reload.                                               *)
EXTENDS Checkout, TLC

=============================================================================
