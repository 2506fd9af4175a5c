-------------------------- MODULE MCPayPalBilling --------------------------
(* The checkouts of one organization; they are interchangeable.            *)
EXTENDS PayPalBilling, TLC
Symmetry == Permutations(Subs)
=============================================================================
