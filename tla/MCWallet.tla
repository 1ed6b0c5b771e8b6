------------------------------ MODULE MCWallet ------------------------------
(* Wallet on a small instance. *)
EXTENDS Wallet, TLC

\* One credit that more than empties the opening balance, and one that does not.
MCCreditAmounts == {-5, 3}

Symmetry == Permutations(Users) \cup Permutations(Requests) \cup Permutations(Withdrawals)
=============================================================================
