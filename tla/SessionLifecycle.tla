-------------------------- MODULE SessionLifecycle --------------------------
(***************************************************************************)
(* What the session handlers promise about the session of a user: it is    *)
(* opened by a login and ends by itself after Age seconds, or earlier.     *)
(* Access is granted by the login, or by a ticket that only a running      *)
(* session gives out.  A ticket is good for one grant, as of the second of *)
(* its use, and stays good when the session ends.  What was granted is not *)
(* taken back.                                                             *)
(***************************************************************************)
EXTENDS Naturals

CONSTANTS Users, Tickets, Age

VARIABLES
  clock,
  left,      \* the seconds each user's session has left, 0 for none
  admitted,  \* the tickets each user's sessions gave out, not yet used
  granted    \* the seconds at which each user was granted access

sessionVars == <<clock, left, admitted, granted>>

Init ==
  /\ clock = 0
  /\ left = [u \in Users |-> 0]
  /\ admitted = [u \in Users |-> {}]
  /\ granted = [u \in Users |-> {}]

Grant(u, s) == granted' = [granted EXCEPT ![u] = @ \cup {s}]

TakeBack(u, k) ==
  /\ k \in admitted[u]
  /\ admitted' = [admitted EXCEPT ![u] = @ \ {k}]

(* A login grants access as of the second at which it was checked, which   *)
(* may be past; the session it opens replaces the one that runs.           *)
Open(u, s) ==
  /\ left' = [left EXCEPT ![u] = Age]
  /\ Grant(u, s)
  /\ UNCHANGED <<clock, admitted>>

Admit(u, k) ==
  /\ left[u] > 0
  /\ \A v \in Users : k \notin admitted[v]
  /\ admitted' = [admitted EXCEPT ![u] = @ \cup {k}]
  /\ UNCHANGED <<clock, left, granted>>

Extend(u, k) ==
  /\ TakeBack(u, k)
  /\ Grant(u, clock)
  /\ UNCHANGED <<clock, left>>

Drop(u, k) ==
  /\ TakeBack(u, k)
  /\ UNCHANGED <<clock, left, granted>>

Close(u) ==
  /\ left[u] > 0
  /\ left' = [left EXCEPT ![u] = 0]
  /\ UNCHANGED <<clock, admitted, granted>>

Second ==
  /\ clock' = clock + 1
  /\ left' = [u \in Users |-> IF left[u] = 0 THEN 0 ELSE left[u] - 1]
  /\ UNCHANGED <<admitted, granted>>

Next ==
  \/ \E u \in Users, s \in 0 .. clock : Open(u, s)
  \/ \E u \in Users, k \in Tickets : Admit(u, k) \/ Extend(u, k) \/ Drop(u, k)
  \/ \E u \in Users : Close(u)
  \/ Second

Spec == Init /\ [][Next]_sessionVars

=============================================================================
