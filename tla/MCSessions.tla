------------------------------ MODULE MCSessions ------------------------------
(* Sessions with model values for TLC. *)
EXTENDS Sessions, TLC

(* Requests and session ids are interchangeable. *)
Symmetry == Permutations(Handler) \cup Permutations(Sid)
=============================================================================
