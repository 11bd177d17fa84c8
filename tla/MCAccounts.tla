------------------------------ MODULE MCAccounts ------------------------------
(***************************************************************************)
(* Small instances of Accounts.                                             *)
(***************************************************************************)
EXTENDS Accounts, TLC

(* rows and slots are alike until they are used *)
Alike == Permutations(Users) \cup Permutations(Invites) \cup Permutations(Calls)
             \cup Permutations(Accounts)
=============================================================================
