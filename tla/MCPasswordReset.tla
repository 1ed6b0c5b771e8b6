-------------------------- MODULE MCPasswordReset --------------------------
(* PasswordReset, with the sessions it ends, on a small instance. *)
EXTENDS PasswordReset, TLC

Symmetry ==
    Permutations(Users) \cup Permutations(Requests) \cup Permutations(Tokens)
        \cup Permutations(Resets) \cup Permutations(Otps)
=============================================================================
