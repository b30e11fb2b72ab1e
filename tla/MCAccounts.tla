------------------------------ MODULE MCAccounts ------------------------------
(* Accounts, addresses, usernames, passwords and requests are each           *)
(* interchangeable.                                                          *)
EXTENDS Accounts, TLC

Symmetry == Permutations(Account) \cup Permutations(Email)
            \cup Permutations(Username) \cup Permutations(Password)
            \cup Permutations(Request)
=============================================================================
