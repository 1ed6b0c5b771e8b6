---------------------------- MODULE MCSessions ----------------------------
(* Sessions on a small instance. *)
EXTENDS Sessions, TLC

Symmetry == Permutations(Users) \cup Permutations(Requests) \cup Permutations(Tokens)
=============================================================================
