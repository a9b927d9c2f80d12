------------------------------ MODULE MCAccounts ------------------------------
(* Accounts for TLC; the numbers are in the .cfg files.                       *)
EXTENDS Accounts, TLC

Symmetry == Permutations(User) \cup Permutations(Password)
              \cup Permutations(Tab) \cup Permutations(Call)
=============================================================================
