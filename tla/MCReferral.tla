---------------------------- MODULE MCReferral ----------------------------
(* Referral on a small instance. *)
EXTENDS Referral

MCMilestoneBonus == [m \in Milestones |-> m + 3]
=============================================================================
