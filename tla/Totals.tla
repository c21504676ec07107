------------------------------- MODULE Totals -------------------------------
(***************************************************************************)
(* The total of an amount over a finite set: of the money of a set of      *)
(* escrows, of what is spent and held under a policy.                      *)
(***************************************************************************)
EXTENDS Integers, FiniteSetsExt

Total(amount, S) == MapThenSumSet(LAMBDA e : amount[e], S)

=============================================================================
