---------------------------- MODULE PostLifecycle ----------------------------
(***************************************************************************)
(* What the post handlers and the tasks they spawn promise about posts: a  *)
(* text is shown from the moment it is stored; it is enriched at most once,*)
(* into the post and language it was submitted for, its summary and its    *)
(* embedding in one step; a post that is gone shows nothing, whatever is   *)
(* still due for it; and an id is used for one post only.                  *)
(***************************************************************************)
EXTENDS Naturals

CONSTANTS Ids, Langs

VARIABLES
  stage,   \* "none", "public" or "gone", of each id
  shown,   \* what a reader gets of each id
  due,     \* the texts whose enrichment may still come
  last     \* the number of texts ever submitted

lifeVars == <<stage, shown, due, last>>

Blank ==
  [text |-> [l \in Langs |-> 0], summary |-> [l \in Langs |-> 0], embedding |-> 0]

Due(p, l, v) == [post |-> p, lang |-> l, text |-> v]

(* One summary is of one language, the embedding of all. *)
Enriched(s, l, v) ==
  [text |-> s.text, summary |-> [s.summary EXCEPT ![l] = v], embedding |-> v]

Init ==
  /\ stage = [p \in Ids |-> "none"]
  /\ shown = [p \in Ids |-> Blank]
  /\ due = {}
  /\ last = 0

(* A new post shows its text in every language. *)
Publish(p, l) ==
  /\ stage[p] = "none"
  /\ last' = last + 1
  /\ stage' = [stage EXCEPT ![p] = "public"]
  /\ shown' = [shown EXCEPT ![p] = [Blank EXCEPT !.text = [x \in Langs |-> last']]]
  /\ due' = due \cup {Due(p, l, last')}

Rewrite(p, l) ==
  /\ stage[p] = "public"
  /\ last' = last + 1
  /\ shown' = [shown EXCEPT ![p].text[l] = last']
  /\ due' = due \cup {Due(p, l, last')}
  /\ UNCHANGED stage

Enrich(d) ==
  /\ d \in due
  /\ due' = due \ {d}
  /\ shown' = IF stage[d.post] = "public"
              THEN [shown EXCEPT ![d.post] = Enriched(@, d.lang, d.text)]
              ELSE shown
  /\ UNCHANGED <<stage, last>>

(* Enrichments that fail, or are cut off, are not made up for: any number  *)
(* of them at a time, when the process stops.                              *)
Lose ==
  /\ due' \subseteq due
  /\ UNCHANGED <<stage, shown, last>>

(* A post, or all those of an author. *)
Withdraw(S) ==
  /\ \A p \in S : stage[p] = "public"
  /\ stage' = [p \in Ids |-> IF p \in S THEN "gone" ELSE stage[p]]
  /\ shown' = [p \in Ids |-> IF p \in S THEN Blank ELSE shown[p]]
  /\ UNCHANGED <<due, last>>

Next ==
  \/ Lose
  \/ \E p \in Ids, l \in Langs : Publish(p, l) \/ Rewrite(p, l)
  \/ \E d \in due : Enrich(d)
  \/ \E S \in SUBSET Ids : Withdraw(S)

Spec == Init /\ [][Next]_lifeVars

=============================================================================
