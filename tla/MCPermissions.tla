----------------------------- MODULE MCPermissions -----------------------------
(* Permissions with model values for TLC. *)
EXTENDS Permissions, TLC

(* Replicas, roles and requests are interchangeable. *)
Symmetry == Permutations(Replica) \cup Permutations(Role) \cup Permutations(Handler)
=============================================================================
