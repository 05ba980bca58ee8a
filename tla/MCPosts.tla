------------------------------ MODULE MCPosts ------------------------------
(* Instances of Posts for TLC. *)
EXTENDS Posts, TLC

(* Authors and workers are compared for equality only. *)
Symmetry == Permutations(Authors) \cup Permutations(Workers)

=============================================================================
