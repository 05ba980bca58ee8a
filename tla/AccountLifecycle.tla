-------------------------- MODULE AccountLifecycle --------------------------
(***************************************************************************)
(* What the account handlers promise about one account at a time: it is    *)
(* pending until its owner follows a link, it has at most one live link,   *)
(* a new link replaces the old one, a link works once, a pending account   *)
(* always has a link to follow, and an id is used for one account only.    *)
(***************************************************************************)
EXTENDS Naturals

CONSTANT Users

VARIABLES
  stage,   \* "none", "pending", "active" or "gone", of each id
  link,    \* the live link of each id, 0 when it has none
  last     \* the number of links ever made

lifeVars == <<stage, link, last>>

Init ==
  /\ stage = [u \in Users |-> "none"]
  /\ link = [u \in Users |-> 0]
  /\ last = 0

SignUp(u) ==
  /\ stage[u] = "none"
  /\ last' = last + 1
  /\ stage' = [stage EXCEPT ![u] = "pending"]
  /\ link' = [link EXCEPT ![u] = last']

(* A link is made for an account, which may be gone by then. *)
NewLink(u) ==
  /\ stage[u] # "none"
  /\ last' = last + 1
  /\ link' = IF stage[u] = "gone" THEN link ELSE [link EXCEPT ![u] = last']
  /\ UNCHANGED stage

Follow(u) ==
  /\ stage[u] \in {"pending", "active"} /\ link[u] # 0
  /\ stage' = [stage EXCEPT ![u] = "active"]
  /\ link' = [link EXCEPT ![u] = 0]
  /\ UNCHANGED last

Close(u) ==
  /\ stage[u] \in {"pending", "active"}
  /\ stage' = [stage EXCEPT ![u] = "gone"]
  /\ link' = [link EXCEPT ![u] = 0]
  /\ UNCHANGED last

(* The clean-up takes any number of pending accounts in one statement. *)
Purge(S) ==
  /\ \A u \in S : stage[u] = "pending"
  /\ stage' = [u \in Users |-> IF u \in S THEN "gone" ELSE stage[u]]
  /\ link' = [u \in Users |-> IF u \in S THEN 0 ELSE link[u]]
  /\ UNCHANGED last

Next ==
  \/ \E u \in Users : SignUp(u) \/ NewLink(u) \/ Follow(u) \/ Close(u)
  \/ \E S \in SUBSET Users : Purge(S)

Spec == Init /\ [][Next]_lifeVars

=============================================================================
