----------------------------- MODULE MCAccounts -----------------------------
(* Instances of Accounts for TLC. *)
EXTENDS Accounts, TLC

(* Ids, names, passwords and workers are compared for equality only, and   *)
(* none of the properties checked with it names one of them.               *)
Symmetry ==
  Permutations(Users) \cup Permutations(Emails) \cup Permutations(Names)
    \cup Permutations(Passwords) \cup Permutations(Workers)

=============================================================================
