--------------------------- MODULE MCLoginLimiter ---------------------------
(* Instances of LoginLimiter for TLC. *)
EXTENDS LoginLimiter, TLC

(* Workers, addresses and identifiers are compared for equality only. *)
Symmetry ==
  Permutations(Workers) \cup Permutations(Ips) \cup Permutations(Identifiers)

=============================================================================
