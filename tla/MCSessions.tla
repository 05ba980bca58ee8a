----------------------------- MODULE MCSessions -----------------------------
(* Instances of Sessions for TLC. *)
EXTENDS Sessions, TLC

(* Users and workers are compared for equality only. *)
Symmetry == Permutations(Users) \cup Permutations(Workers)

=============================================================================
