------------------------------ MODULE MCListings ------------------------------
(* Instances of Listings for TLC. *)
EXTENDS Listings, TLC

(* A query as the posts each source finds, best first. *)
Places(found) ==
  [s \in Sources |-> [x \in Ids |->
    IF \E i \in DOMAIN found[s] : found[s][i] = x
    THEN CHOOSE i \in DOMAIN found[s] : found[s][i] = x ELSE 0]]

(* Post 5 is third for two sources and better, in sum, than any other. *)
Consensus == {Places([en |-> <<1, 2, 5>>, ko |-> <<>>, semantic |-> <<3, 4, 5>>])}

(* Whatever each source finds among the posts there are, in any order. *)
Rankings ==
  {r \in [Ids -> 0 .. Stock] :
     /\ \A x \in Ids : x > Stock => r[x] = 0
     /\ \A x, y \in Ids : r[x] = r[y] /\ r[x] # 0 => x = y
     /\ \A x \in Ids : r[x] > 1 => \E y \in Ids : r[y] = r[x] - 1}
AllQueries == [Sources -> Rankings]

(* Users and usernames are compared for equality only. *)
Symmetry == Permutations(Owners) \cup Permutations(Names)

=============================================================================
