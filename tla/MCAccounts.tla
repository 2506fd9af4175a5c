------------------------------ MODULE MCAccounts ------------------------------
(* Instance checked by Accounts.cfg; logins are interchangeable. *)
EXTENDS Accounts, TLC
Symmetry == Permutations(Logins)
=============================================================================
