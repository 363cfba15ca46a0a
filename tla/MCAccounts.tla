----------------------------- MODULE MCAccounts ----------------------------
(* Instances of Accounts for TLC. *)
EXTENDS Accounts, TLC

TwoTokens == [reset |-> {1, 2}, session |-> {1}]
ClientSymmetry == Permutations(Clients)
=============================================================================
