----------------------------- MODULE MCCampaigns -----------------------------
(* Campaigns with model values for TLC. *)
EXTENDS Campaigns, TLC

(* Subscribers and administrators are interchangeable. *)
Symmetry == Permutations(Subscriber) \cup Permutations(Admin)
=============================================================================
