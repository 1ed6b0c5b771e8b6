---------------------------- MODULE MCTaskReview ----------------------------
(* TaskReview on a small instance. *)
EXTENDS TaskReview, TLC

CONSTANTS t1, t2

MCReward == [t \in Tasks |-> IF t = t1 THEN 2 ELSE 3]

Symmetry == Permutations(Users) \cup Permutations(Requests) \cup Permutations(Completions)
=============================================================================
