----------------------------- MODULE PostsProofs -----------------------------
(***************************************************************************)
(* Theorems about Posts, for every set of authors and workers and every    *)
(* bound on posts and texts.                                               *)
(***************************************************************************)
EXTENDS Posts, SequenceTheorems, TLAPS

(* What submitting one more text does.                                     *)
LEMMA AppendText ==
  ASSUME texts \in Seq(TextInfo), NEW x \in TextInfo, texts' = Append(texts, x)
  PROVE  /\ texts' \in Seq(TextInfo)
         /\ Len(texts') = Len(texts) + 1
         /\ Texts' = Texts \cup {NewText}
         /\ NewText \in Nat \ {0} /\ NewText \notin Texts
         /\ texts'[NewText] = x
         /\ \A v \in Texts : texts'[v] = texts[v]
<1>1. /\ texts' \in Seq(TextInfo)
      /\ Len(texts) \in Nat
      /\ Len(texts') = Len(texts) + 1
      /\ texts'[Len(texts) + 1] = x
      /\ \A v \in 1 .. Len(texts) : texts'[v] = texts[v]
  OBVIOUS
<1>2. Texts' = Texts \cup {NewText}
  BY <1>1 DEF Texts, NewText
<1>. QED BY <1>1, <1>2 DEF Texts, NewText

(* What a text is.                                                         *)
LEMMA TextFields ==
  ASSUME TypeOK, NEW v \in Texts
  PROVE  /\ v \in Nat \ {0}
         /\ texts[v] \in TextInfo
         /\ texts[v].post \in 1 .. MaxPosts /\ texts[v].lang \in Langs
         /\ texts[v] = Submitted(texts[v].post, texts[v].lang)
<1>1. texts[v] \in TextInfo /\ v \in Nat \ {0}
  BY DEF TypeOK, Texts
<1>. QED BY <1>1 DEF TextInfo, Submitted

-----------------------------------------------------------------------------
(* Type correctness.                                                       *)

(* What a request carries, by the step it is at.                           *)
LEMMA Carried ==
  ASSUME TypeOK, NEW w \in Workers
  PROVE  /\ req[w] \in Request
         /\ req[w].pc = "create" => req[w].user \in Authors /\ req[w].lang \in Langs
         /\ req[w].pc = "edit" =>
              /\ req[w].user \in Authors /\ req[w].lang \in Langs
              /\ req[w].post \in 1 .. MaxPosts
         /\ req[w].pc = "delete" => req[w].user \in Authors /\ req[w].post \in 1 .. MaxPosts
         /\ req[w].pc = "spawn" => req[w].text \in Texts
<1>1. req[w] \in Request
  BY DEF TypeOK
<1>. QED BY <1>1 DEF Request, Idle

LEMMA TaskText ==
  ASSUME TypeOK, NEW t \in tasks
  PROVE  t.text \in Texts
  BY DEF TypeOK, Task

LEMMA TypeInit == Init => TypeOK
<1>. SUFFICES ASSUME Init PROVE TypeOK
  OBVIOUS
<1>1. posts \in [DOMAIN posts -> Row] /\ DOMAIN posts = {}
  BY DEF Init
<1>2. texts \in Seq(TextInfo) /\ Len(texts) = 0
  BY DEF Init
<1>3. req \in [Workers -> Request]
  BY DEF Init, Request, Idle
<1>. QED BY <1>1, <1>2, <1>3, PostsAssumption DEF Init, TypeOK

(* The sets of rows, tasks and requests only depend on the texts.          *)
LEMMA SetsKept ==
  ASSUME UNCHANGED texts
  PROVE  Texts' = Texts /\ Row' = Row /\ Task' = Task /\ Request' = Request
<1>1. Texts' = Texts
  BY DEF Texts
<1>. QED BY <1>1 DEF Row, Task, Request, Idle

LEMMA SetsGrow ==
  ASSUME Texts \subseteq Texts'
  PROVE  Row \subseteq Row' /\ Task \subseteq Task' /\ Request \subseteq Request'
<1>1. Row \subseteq Row'
  BY DEF Row
<1>2. ASSUME NEW t \in Task PROVE t \in Task'
  BY DEF Task
<1>3. ASSUME NEW r \in Request PROVE r \in Request'
  BY DEF Request, Idle
<1>. QED BY <1>1, <1>2, <1>3

(* A step without a new text, whatever else it changes.                    *)
LEMMA TypeKept ==
  ASSUME TypeOK, UNCHANGED <<serial, texts, raced>>,
         users' \subseteq users,
         DOMAIN posts' \subseteq DOMAIN posts,
         posts' \in [DOMAIN posts' -> Row],
         tasks' \subseteq Task,
         req' \in [Workers -> Request],
         lost' \subseteq Texts
  PROVE  TypeOK'
<1>1. Texts' = Texts /\ Row' = Row /\ Task' = Task /\ Request' = Request
  BY SetsKept
<1>. QED BY <1>1 DEF TypeOK

(* A step that stores a text and leaves its worker about to spawn.         *)
LEMMA TypeStore ==
  ASSUME TypeOK, NEW w \in Workers, NEW x \in TextInfo,
         texts' = Append(texts, x), NewText <= MaxTexts,
         Goto(w, [pc |-> "spawn", text |-> NewText]),
         UNCHANGED <<users, tasks, lost>>,
         raced' \subseteq raced \cup {NewText},
         serial' \in 0 .. MaxPosts, DOMAIN posts' \subseteq 1 .. serial',
         posts' \in [DOMAIN posts' -> Row']
  PROVE  TypeOK'
<1>1. /\ texts' \in Seq(TextInfo) /\ Len(texts') = NewText
      /\ Texts' = Texts \cup {NewText}
  BY AppendText DEF TypeOK, NewText
<1>2. Task \subseteq Task' /\ Request \subseteq Request'
  BY <1>1, SetsGrow
<1>3. [pc |-> "spawn", text |-> NewText] \in Request'
  BY <1>1 DEF Request
<1>4. req' \in [Workers -> Request']
  BY <1>2, <1>3 DEF TypeOK, Goto
<1>. QED BY <1>1, <1>2, <1>4 DEF TypeOK

(* The rows the statements leave are rows.                                 *)
LEMMA RowsKept ==
  ASSUME TypeOK
  PROVE  /\ \A P : /\ DeletePosts(P) \in [DOMAIN DeletePosts(P) -> Row]
                   /\ DOMAIN DeletePosts(P) = DOMAIN posts \ P
         /\ \A v \in Texts : SetEnrichment(v) \in [DOMAIN posts -> Row]
<1>1. ASSUME NEW v \in Texts PROVE SetEnrichment(v) \in [DOMAIN posts -> Row]
  <2>. SUFFICES ASSUME NEW p \in DOMAIN posts, p = texts[v].post
                PROVE  [posts[p] EXCEPT !.summary[texts[v].lang] = v,
                                        !.embedding = v] \in Row
    BY DEF SetEnrichment, TypeOK
  <2>1. posts[p] \in Row /\ texts[v].lang \in Langs
    BY TextFields DEF TypeOK
  <2>. QED BY <2>1 DEF Row
<1>2. \A P : /\ DeletePosts(P) \in [DOMAIN DeletePosts(P) -> Row]
             /\ DOMAIN DeletePosts(P) = DOMAIN posts \ P
  BY DEF DeletePosts, TypeOK
<1>. QED BY <1>1, <1>2

LEMMA TypeNext == TypeOK /\ [Next]_vars => TypeOK'
<1>. SUFFICES ASSUME TypeOK, [Next]_vars PROVE TypeOK'
  OBVIOUS
<1>idle. Idle \in Request
  BY DEF Request
<1>1. ASSUME NEW w \in Workers, NEW r \in Request, Authorize(w, r) PROVE TypeOK'
  <2>1. req' \in [Workers -> Request]
    BY <1>1 DEF Authorize, Goto, TypeOK
  <2>. QED BY <1>1, <2>1, TypeKept DEF Authorize, TypeOK
<1>2. ASSUME NEW w \in Workers, CreatePost(w) PROVE TypeOK'
  <2>. DEFINE r == req[w]
  <2>1. r.user \in Authors /\ r.lang \in Langs
    BY <1>2, Carried DEF CreatePost
  <2>2. serial \in Nat /\ serial' = serial + 1 /\ serial' \in 1 .. MaxPosts
        /\ NextPostId = serial'
    BY <1>2, PostsAssumption DEF CreatePost, NextPostId, TypeOK
  <2>3. Submitted(NextPostId, r.lang) \in TextInfo
    BY <2>1, <2>2 DEF Submitted, TextInfo
  <2>4. Texts' = Texts \cup {NewText}
    BY <1>2, <2>3, AppendText DEF CreatePost, TypeOK
  <2>5. NewRow(r.user, NewText, r.lang) \in Row' /\ Row \subseteq Row'
    BY <2>1, <2>4, SetsGrow DEF NewRow, Row
  <2>6. /\ DOMAIN posts' = DOMAIN posts \cup {NextPostId}
        /\ posts' \in [DOMAIN posts' -> Row']
    BY <1>2, <2>5 DEF CreatePost, TypeOK
  <2>7. DOMAIN posts' \subseteq 1 .. serial'
    BY <2>2, <2>6 DEF TypeOK
  <2>8. serial' \in 0 .. MaxPosts
    BY <2>2
  <2>9. /\ texts' = Append(texts, Submitted(NextPostId, r.lang)) /\ NewText <= MaxTexts
        /\ Goto(w, [pc |-> "spawn", text |-> NewText])
        /\ UNCHANGED <<users, tasks, lost, raced>>
    BY <1>2 DEF CreatePost
  <2>. QED BY <2>3, <2>6, <2>7, <2>8, <2>9, TypeStore
<1>3. ASSUME NEW w \in Workers, EditPost(w) PROVE TypeOK'
  <2>. DEFINE r == req[w]
  <2>1. r.lang \in Langs /\ r.post \in 1 .. MaxPosts /\ r.post \in DOMAIN posts
    BY <1>3, Carried DEF EditPost, Owns
  <2>2. Submitted(r.post, r.lang) \in TextInfo
    BY <2>1 DEF Submitted, TextInfo
  <2>3. Texts' = Texts \cup {NewText}
    BY <1>3, <2>2, AppendText DEF EditPost, TypeOK
  <2>4. /\ \A p \in DOMAIN posts : posts[p] \in Row'
        /\ [posts[r.post] EXCEPT !.text[r.lang] = NewText] \in Row'
    <3>1. \A p \in DOMAIN posts : posts[p] \in Row'
      BY <2>3, SetsGrow DEF TypeOK
    <3>. QED BY <2>1, <2>3, <3>1 DEF Row
  <2>5. /\ DOMAIN posts' = DOMAIN posts
        /\ posts' \in [DOMAIN posts' -> Row']
    <3>1. posts' = [posts EXCEPT ![r.post] = [posts[r.post] EXCEPT !.text[r.lang] = NewText]]
      BY <1>3 DEF EditPost, SetText
    <3>. QED BY <2>4, <3>1 DEF TypeOK
  <2>. QED BY <1>3, <2>2, <2>5, TypeStore DEF EditPost, TypeOK
<1>4. ASSUME NEW w \in Workers, Spawn(w) PROVE TypeOK'
  <2>1. tasks' \subseteq Task
    BY <1>4, Carried DEF Spawn, Task, TypeOK
  <2>2. req' \in [Workers -> Request]
    BY <1>4, <1>idle DEF Spawn, Done, Goto, TypeOK
  <2>. QED BY <1>4, <2>1, <2>2, TypeKept DEF Spawn, TypeOK
<1>5. ASSUME NEW w \in Workers, DeletePost(w) PROVE TypeOK'
  <2>1. req' \in [Workers -> Request]
    BY <1>5, <1>idle DEF DeletePost, Done, Goto, TypeOK
  <2>. QED BY <1>5, <2>1, RowsKept, TypeKept DEF DeletePost, TypeOK
<1>6. ASSUME NEW w \in Workers, Abort(w) PROVE TypeOK'
  <2>1. req' \in [Workers -> Request]
    BY <1>6, <1>idle DEF Abort, Done, Goto, TypeOK
  <2>2. lost' \subseteq Texts
    BY <1>6, Carried DEF Abort, TypeOK
  <2>. QED BY <1>6, <2>1, <2>2, TypeKept DEF Abort, TypeOK
<1>7. ASSUME NEW t \in tasks, GetSummary(t) PROVE TypeOK'
  <2>1. \A ok \in BOOLEAN :
          [text |-> t.text, pc |-> "embedding", summarized |-> ok] \in Task
    BY TaskText DEF Task
  <2>2. tasks' \subseteq Task
    BY <1>7, <2>1 DEF GetSummary, Become, TypeOK
  <2>. QED BY <1>7, <2>2, TypeKept DEF GetSummary, TypeOK
<1>8. ASSUME NEW t \in tasks, GetEmbedding(t) PROVE TypeOK'
  <2>1. [text |-> t.text, pc |-> "update"] \in Task
    BY TaskText DEF Task
  <2>2. tasks' \subseteq Task
    BY <1>8, <2>1 DEF GetEmbedding, Become, TypeOK
  <2>. QED BY <1>8, <2>2, TypeKept DEF GetEmbedding, TypeOK
<1>9. ASSUME NEW t \in tasks, UpdateSummaryAndEmbedding(t) PROVE TypeOK'
  <2>1. posts' \in [DOMAIN posts -> Row]
    BY <1>9, TaskText, RowsKept DEF UpdateSummaryAndEmbedding
  <2>2. tasks' \subseteq Task
    BY <1>9 DEF UpdateSummaryAndEmbedding, Become, TypeOK
  <2>. QED BY <1>9, <2>1, <2>2, TypeKept DEF UpdateSummaryAndEmbedding, TypeOK
<1>10. ASSUME NEW t \in tasks, GiveUp(t) PROVE TypeOK'
  <2>1. tasks' \subseteq Task /\ lost' \subseteq Texts
    BY <1>10, TaskText DEF GiveUp, Become, TypeOK
  <2>. QED BY <1>10, <2>1, TypeKept DEF GiveUp, TypeOK
<1>11. ASSUME Crash PROVE TypeOK'
  <2>1. Pending \subseteq Texts
    BY Carried, TaskText DEF Pending
  <2>2. req' \in [Workers -> Request]
    BY <1>11, <1>idle DEF Crash
  <2>. QED BY <1>11, <2>1, <2>2, TypeKept DEF Crash, TypeOK
<1>12. ASSUME NEW u \in Authors, DeleteUser(u) PROVE TypeOK'
  BY <1>12, RowsKept, TypeKept DEF DeleteUser, TypeOK
<1>13. CASE UNCHANGED vars
  <2>1. Texts' = Texts /\ Row' = Row /\ Task' = Task /\ Request' = Request
    BY <1>13, SetsKept DEF vars
  <2>. QED BY <1>13, <2>1 DEF vars, TypeOK
<1>. QED
  BY <1>1, <1>2, <1>3, <1>4, <1>5, <1>6, <1>7, <1>8, <1>9, <1>10, <1>11, <1>12, <1>13
     DEF Next, Serve, Enrich

(* Rows, tasks and requests only name texts that were submitted.           *)
THEOREM TypeCorrect == Spec => []TypeOK
<1>. QED BY TypeInit, TypeNext, PTL DEF Spec

-----------------------------------------------------------------------------
(* What the steps do to the rows.                                          *)

(* The texts a row names.                                                  *)
LEMMA RowFields ==
  ASSUME TypeOK, NEW p \in DOMAIN posts
  PROVE  /\ posts[p] \in Row
         /\ posts[p].first \in Texts
         /\ p \in Nat /\ p <= serial
         /\ \A l \in Langs : /\ posts[p].text[l] \in Texts
                             /\ posts[p].summary[l] \in {Placeholder} \cup Texts
         /\ posts[p].embedding \in {Placeholder} \cup Texts
<1>1. posts[p] \in Row /\ p \in 1 .. serial
  BY DEF TypeOK
<1>. QED BY <1>1 DEF Row, TypeOK

(* What the UPDATE of a task leaves in the row of its post.                *)
LEMMA EnrichedRow ==
  ASSUME TypeOK, NEW v \in Texts, NEW p \in DOMAIN posts, posts' = SetEnrichment(v)
  PROVE  /\ p # texts[v].post => posts'[p] = posts[p]
         /\ p = texts[v].post =>
              /\ posts'[p].first = posts[p].first
              /\ posts'[p].text = posts[p].text
              /\ posts'[p].embedding = v
              /\ \A l \in Langs : posts'[p].summary[l] =
                   IF l = texts[v].lang THEN v ELSE posts[p].summary[l]
<1>1. posts[p] \in Row /\ texts[v].lang \in Langs
  BY RowFields, TextFields
<1>2. posts'[p] = IF p = texts[v].post
                  THEN [posts[p] EXCEPT !.summary[texts[v].lang] = v, !.embedding = v]
                  ELSE posts[p]
  BY DEF SetEnrichment
<1>. QED BY <1>1, <1>2 DEF Row

(* What the UPDATE of an edit leaves in the row of its post.               *)
LEMMA EditedRow ==
  ASSUME TypeOK, NEW p \in DOMAIN posts, NEW l \in Langs, NEW n,
         posts' = SetText(p, l, n)
  PROVE  /\ DOMAIN posts' = DOMAIN posts
         /\ \A q \in DOMAIN posts \ {p} : posts'[q] = posts[q]
         /\ posts'[p].first = posts[p].first
         /\ posts'[p].summary = posts[p].summary
         /\ posts'[p].embedding = posts[p].embedding
         /\ \A m \in Langs :
              posts'[p].text[m] = IF m = l THEN n ELSE posts[p].text[m]
<1>1. posts[p] \in Row
  BY RowFields
<1>2. /\ DOMAIN posts' = DOMAIN posts
      /\ \A q \in DOMAIN posts \ {p} : posts'[q] = posts[q]
      /\ posts'[p] = [posts[p] EXCEPT !.text[l] = n]
  BY DEF SetText
<1>. QED BY <1>1, <1>2 DEF Row

(* Steps that take rows away, or none, and leave the others as they are.   *)
RowsOnlyDeleted ==
  /\ DOMAIN posts' \subseteq DOMAIN posts
  /\ \A p \in DOMAIN posts' : posts'[p] = posts[p]

LEMMA OtherSteps ==
  ASSUME \/ \E w \in Workers : \/ \E r \in Request : Authorize(w, r)
                               \/ Spawn(w) \/ DeletePost(w) \/ Abort(w)
         \/ \E t \in tasks : GetSummary(t) \/ GetEmbedding(t) \/ GiveUp(t)
         \/ \E u \in Authors : DeleteUser(u)
         \/ Crash
         \/ UNCHANGED vars
  PROVE  RowsOnlyDeleted /\ UNCHANGED <<texts, serial, raced>>
<1>1. /\ UNCHANGED <<texts, serial, raced>>
      /\ UNCHANGED posts \/ \E P : posts' = DeletePosts(P)
  BY DEF Authorize, Spawn, DeletePost, Abort, GetSummary, GetEmbedding,
         GiveUp, DeleteUser, Crash, vars
<1>. QED BY <1>1 DEF DeletePosts, RowsOnlyDeleted

-----------------------------------------------------------------------------
(* Whose texts a post shows.                                               *)

(* The strengthening of EnrichmentFromOwnText: the texts a task may still  *)
(* write were, as long as their post is there, submitted since it was      *)
(* created, because no post will ever have the id of an older text.        *)
LateText(v) ==
  /\ texts[v].post <= serial
  /\ texts[v].post \in DOMAIN posts => v >= posts[texts[v].post].first

OwnInv ==
  /\ EnrichmentFromOwnText
  /\ \A v \in Texts : LateText(v)

(* A row whose texts, old or new, are its own.                             *)
OwnRow(p) ==
  /\ \A l \in Langs :
       /\ OwnText(p, posts[p].text[l])
       /\ posts[p].summary[l] # Placeholder =>
            /\ OwnText(p, posts[p].summary[l])
            /\ texts[posts[p].summary[l]].lang = l
  /\ posts[p].embedding # Placeholder => OwnText(p, posts[p].embedding)

LEMMA OwnRows == EnrichmentFromOwnText <=> \A p \in DOMAIN posts : OwnRow(p)
  BY DEF EnrichmentFromOwnText, OwnRow

(* A row that stays as it is, while texts are only added.                  *)
LEMMA OwnRowKept ==
  ASSUME TypeOK, NEW p \in DOMAIN posts, OwnRow(p), posts'[p] = posts[p],
         \A v \in Texts : texts'[v] = texts[v]
  PROVE  OwnRow(p)'
<1>1. \A v \in Texts : OwnText(p, v) => OwnText(p, v)'
  BY DEF OwnText
<1>. QED BY <1>1, RowFields DEF OwnRow

(* A step that takes rows away, or none, and adds no text.                 *)
LEMMA OwnKept ==
  ASSUME TypeOK, OwnInv, UNCHANGED <<texts, serial>>,
         DOMAIN posts' \subseteq DOMAIN posts,
         \A p \in DOMAIN posts' : posts'[p] = posts[p]
  PROVE  OwnInv'
<1>1. EnrichmentFromOwnText'
  <2>1. \A p \in DOMAIN posts' : OwnRow(p)'
    BY OwnRows, OwnRowKept DEF OwnInv
  <2>. QED BY <2>1 DEF EnrichmentFromOwnText, OwnRow
<1>. QED BY <1>1 DEF OwnInv, LateText, Texts

(* The new text has number n, is p's, and the others stay.                 *)
TextAdded(p, l, n) ==
  /\ n \in Nat \ {0} /\ n \notin Texts
  /\ Texts' = Texts \cup {n}
  /\ texts'[n].post = p /\ texts'[n].lang = l
  /\ \A v \in Texts : texts'[v] = texts[v] /\ n >= v

LEMMA SubmittedText ==
  ASSUME TypeOK, NEW p \in 1 .. MaxPosts, NEW l \in Langs,
         NEW n, n = NewText, texts' = Append(texts, Submitted(p, l))
  PROVE  TextAdded(p, l, n)
<1>1. Submitted(p, l) \in TextInfo
  BY DEF Submitted, TextInfo
<1>2. /\ Texts' = Texts \cup {n} /\ n \in Nat \ {0} /\ n \notin Texts
      /\ texts'[n] = Submitted(p, l)
      /\ \A v \in Texts : texts'[v] = texts[v]
  BY <1>1, AppendText DEF TypeOK
<1>3. Len(texts) \in Nat
  BY DEF TypeOK
<1>4. \A v \in Texts : n >= v
  BY <1>3 DEF Texts, NewText
<1>5. Submitted(p, l).post = p /\ Submitted(p, l).lang = l
  BY DEF Submitted
<1>6. texts'[n].post = p /\ texts'[n].lang = l
  BY <1>2, <1>5, Zenon
<1>. QED BY <1>2, <1>4, <1>6 DEF TextAdded

(* A step that submits a text for post p and leaves the others alone.      *)
LEMMA OwnSubmitted ==
  ASSUME TypeOK, OwnInv, NEW p, NEW l, NEW n, TextAdded(p, l, n),
         serial \in Nat, serial' \in Nat, serial <= serial', p <= serial',
         p \in DOMAIN posts \/ p = serial + 1,
         DOMAIN posts' = DOMAIN posts \cup {p},
         \A q \in DOMAIN posts \ {p} : posts'[q] = posts[q],
         p \in DOMAIN posts => posts'[p].first = posts[p].first,
         p \notin DOMAIN posts => posts'[p].first = n,
         OwnRow(p)'
  PROVE  OwnInv'
<1>1. EnrichmentFromOwnText'
  <2>1. \A q \in DOMAIN posts' : OwnRow(q)'
    BY OwnRows, OwnRowKept DEF OwnInv, TextAdded
  <2>. QED BY <2>1 DEF EnrichmentFromOwnText, OwnRow
<1>2. ASSUME NEW v \in Texts PROVE LateText(v)'
  <2>1. /\ texts'[v] = texts[v] /\ texts[v].post \in Nat
        /\ texts[v].post <= serial
    BY TextFields, PostsAssumption DEF OwnInv, LateText, TextAdded
  <2>2. texts[v].post \in DOMAIN posts' => texts[v].post \in DOMAIN posts
    BY <2>1
  <2>3. texts[v].post \in DOMAIN posts =>
          /\ v >= posts[texts[v].post].first
          /\ posts'[texts[v].post].first = posts[texts[v].post].first
    BY DEF OwnInv, LateText
  <2>4. texts'[v].post <= serial'
    BY <2>1
  <2>. QED BY <2>1, <2>2, <2>3, <2>4 DEF LateText
<1>3. texts'[n].post = p /\ n >= posts'[p].first
  <2>1. ASSUME p \in DOMAIN posts PROVE n >= posts'[p].first
    BY <2>1, RowFields DEF TextAdded
  <2>2. ASSUME p \notin DOMAIN posts PROVE n >= posts'[p].first
    BY <2>2 DEF TextAdded
  <2>. QED BY <2>1, <2>2 DEF TextAdded
<1>4. LateText(n)'
  BY <1>3 DEF LateText
<1>5. \A v \in Texts' : v \in Texts \/ v = n
  BY DEF TextAdded
<1>. QED BY <1>1, <1>2, <1>4, <1>5 DEF OwnInv

(* create_post: the row shows nothing but the new text.                    *)
LEMMA OwnCreated ==
  ASSUME TypeOK, OwnInv, NEW p, NEW l, NEW n, TextAdded(p, l, n), NEW u,
         p = serial + 1, serial' = serial + 1,
         DOMAIN posts' = DOMAIN posts \cup {p},
         \A q \in DOMAIN posts : posts'[q] = posts[q],
         posts'[p] = NewRow(u, n, l)
  PROVE  OwnInv'
<1>1. /\ posts'[p].first = n /\ posts'[p].embedding = Placeholder
      /\ \A m \in Langs : /\ posts'[p].text[m] = n
                          /\ posts'[p].summary[m] = Placeholder
  BY DEF NewRow
<1>2. OwnRow(p)'
  BY <1>1 DEF OwnRow, OwnText, TextAdded
<1>3. serial \in Nat /\ serial' \in Nat /\ serial <= serial' /\ p <= serial'
      /\ p \notin DOMAIN posts
  BY PostsAssumption DEF TypeOK
<1>. QED BY <1>1, <1>2, <1>3, OwnSubmitted

(* edit_post: the new text is the post's own.                              *)
LEMMA OwnEdited ==
  ASSUME TypeOK, OwnInv, NEW p \in DOMAIN posts, NEW l \in Langs,
         NEW n, TextAdded(p, l, n),
         UNCHANGED serial, posts' = SetText(p, l, n)
  PROVE  OwnInv'
<1>1. DOMAIN posts' = DOMAIN posts /\ \A q \in DOMAIN posts \ {p} : posts'[q] = posts[q]
  BY EditedRow
<1>2. /\ posts'[p].first = posts[p].first
      /\ posts'[p].summary = posts[p].summary
      /\ posts'[p].embedding = posts[p].embedding
      /\ \A m \in Langs :
           posts'[p].text[m] = IF m = l THEN n ELSE posts[p].text[m]
  BY EditedRow
<1>3. OwnRow(p)'
  <2>1. OwnRow(p) /\ posts[p].first \in Texts
    BY OwnRows, RowFields DEF OwnInv
  <2>2. \A v \in Texts : texts[v].post = p /\ v >= posts[p].first
          => texts'[v].post = p /\ v >= posts'[p].first
    BY <1>2 DEF TextAdded
  <2>3. texts'[n].post = p /\ n >= posts'[p].first
    BY <1>2, <2>1 DEF TextAdded
  <2>4. \A m \in Langs : texts'[posts'[p].text[m]].post = p
                         /\ posts'[p].text[m] >= posts'[p].first
    <3>1. \A m \in Langs : /\ posts[p].text[m] \in Texts
                           /\ texts[posts[p].text[m]].post = p
                           /\ posts[p].text[m] >= posts[p].first
      BY <2>1, RowFields DEF OwnRow, OwnText
    <3>. QED BY <1>2, <2>2, <2>3, <3>1
  <2>5. \A m \in Langs : posts[p].summary[m] # Placeholder =>
          /\ texts'[posts[p].summary[m]].post = p
          /\ posts[p].summary[m] >= posts'[p].first
          /\ texts'[posts[p].summary[m]].lang = m
    BY <2>1, <2>2, RowFields DEF OwnRow, OwnText, TextAdded
  <2>6. posts[p].embedding # Placeholder =>
          /\ texts'[posts[p].embedding].post = p
          /\ posts[p].embedding >= posts'[p].first
    BY <2>1, <2>2, RowFields DEF OwnRow, OwnText
  <2>. QED BY <1>2, <2>4, <2>5, <2>6 DEF OwnRow, OwnText
<1>4. serial \in Nat /\ serial' \in Nat /\ serial <= serial' /\ p <= serial'
  BY RowFields, PostsAssumption DEF TypeOK
<1>5. DOMAIN posts' = DOMAIN posts \cup {p}
  <2>1. DOMAIN posts = DOMAIN posts \cup {p}
    OBVIOUS
  <2>. QED BY <1>1, <2>1, Zenon
<1>6. /\ p \in DOMAIN posts => posts'[p].first = posts[p].first
      /\ p \notin DOMAIN posts => posts'[p].first = n
  BY <1>2
<1>. QED BY <1>1, <1>3, <1>4, <1>5, <1>6, OwnSubmitted

LEMMA OwnInit == Init => OwnInv
  BY DEF Init, OwnInv, EnrichmentFromOwnText, Texts

LEMMA OwnNext == TypeOK /\ OwnInv /\ [Next]_vars => OwnInv'
<1>. SUFFICES ASSUME TypeOK, OwnInv, [Next]_vars PROVE OwnInv'
  OBVIOUS
<1>1. ASSUME NEW w \in Workers, CreatePost(w) PROVE OwnInv'
  <2>1. PICK p, l, n, u : /\ p = NextPostId /\ l = req[w].lang
                          /\ n = NewText /\ u = req[w].user
    OBVIOUS
  <2>2. /\ l \in Langs /\ serial < MaxPosts /\ serial' = serial + 1
        /\ p = serial + 1
        /\ texts' = Append(texts, Submitted(p, l))
        /\ posts' = [q \in DOMAIN posts \cup {p} |->
                      IF q = p THEN NewRow(u, n, l) ELSE posts[q]]
    BY <1>1, <2>1, Carried DEF CreatePost, NextPostId
  <2>3. p \in 1 .. MaxPosts /\ p \notin DOMAIN posts
    BY <2>2, PostsAssumption DEF TypeOK
  <2>4. TextAdded(p, l, n)
    BY <2>1, <2>2, <2>3, SubmittedText
  <2>. QED BY <2>2, <2>3, <2>4, OwnCreated
<1>2. ASSUME NEW w \in Workers, EditPost(w) PROVE OwnInv'
  <2>1. PICK p, l, n : p = req[w].post /\ l = req[w].lang /\ n = NewText
    OBVIOUS
  <2>2. /\ l \in Langs /\ p \in 1 .. MaxPosts /\ p \in DOMAIN posts
        /\ texts' = Append(texts, Submitted(p, l)) /\ serial' = serial
        /\ posts' = SetText(p, l, n)
    BY <1>2, <2>1, Carried DEF EditPost, Owns
  <2>3. TextAdded(p, l, n)
    BY <2>1, <2>2, SubmittedText
  <2>. QED BY <2>2, <2>3, OwnEdited
<1>3. ASSUME NEW t \in tasks, UpdateSummaryAndEmbedding(t) PROVE OwnInv'
  <2>1. PICK v, p : v = t.text /\ p = texts[v].post
    OBVIOUS
  <2>2. /\ v \in Texts /\ v \in Nat \ {0} /\ posts' = SetEnrichment(v)
        /\ UNCHANGED <<texts, serial>>
    BY <1>3, <2>1, TaskText, TextFields DEF UpdateSummaryAndEmbedding
  <2>3. /\ DOMAIN posts' = DOMAIN posts
        /\ \A q \in DOMAIN posts : posts'[q].first = posts[q].first
        /\ \A q \in DOMAIN posts : q # p => posts'[q] = posts[q]
    <3>1. DOMAIN posts' = DOMAIN posts
      BY <2>2 DEF SetEnrichment
    <3>2. \A q \in DOMAIN posts : q # p => posts'[q] = posts[q]
      BY <2>1, <2>2, EnrichedRow
    <3>3. p \in DOMAIN posts => posts'[p].first = posts[p].first
      BY <2>1, <2>2, EnrichedRow
    <3>. QED BY <3>1, <3>2, <3>3
  <2>4. ASSUME p \in DOMAIN posts PROVE OwnRow(p)'
    <3>1. /\ posts'[p].text = posts[p].text /\ posts'[p].embedding = v
          /\ \A l \in Langs : posts'[p].summary[l] =
               IF l = texts[v].lang THEN v ELSE posts[p].summary[l]
      BY <2>1, <2>2, <2>4, EnrichedRow
    <3>2. OwnText(p, v) /\ OwnRow(p)
      BY <2>1, <2>2, <2>4, OwnRows DEF OwnInv, LateText, OwnText
    <3>3. \A x : OwnText(p, x) => OwnText(p, x)'
      BY <2>2, <2>3, <2>4 DEF OwnText
    <3>. QED BY <2>2, <3>1, <3>2, <3>3 DEF OwnRow
  <2>5. \A q \in DOMAIN posts' : OwnRow(q)'
    BY <2>2, <2>3, <2>4, OwnRows, OwnRowKept DEF OwnInv
  <2>6. EnrichmentFromOwnText'
    BY <2>5 DEF EnrichmentFromOwnText, OwnRow
  <2>. QED BY <2>2, <2>3, <2>6 DEF OwnInv, LateText, Texts
<1>4. CASE \/ \E w \in Workers : \/ \E r \in Request : Authorize(w, r)
                                 \/ Spawn(w) \/ DeletePost(w) \/ Abort(w)
           \/ \E t \in tasks : GetSummary(t) \/ GetEmbedding(t) \/ GiveUp(t)
           \/ \E u \in Authors : DeleteUser(u)
           \/ Crash
           \/ UNCHANGED vars
  BY <1>4, OtherSteps, OwnKept DEF RowsOnlyDeleted
<1>. QED BY <1>1, <1>2, <1>3, <1>4 DEF Next, Serve, Enrich

(* However late a task writes, and whatever became of the post, a post     *)
(* only shows what was submitted for it.                                   *)
THEOREM EnrichmentAlwaysFromOwnText == Spec => []EnrichmentFromOwnText
<1>1. OwnInv => EnrichmentFromOwnText
  BY DEF OwnInv
<1>. QED BY <1>1, OwnInit, OwnNext, TypeCorrect, PTL DEF Spec

-----------------------------------------------------------------------------
(* The embedding of a post and its summaries.                              *)

LEMMA EmbeddingInit == Init => EmbeddingHasSummary
  BY DEF Init, EmbeddingHasSummary

LEMMA EmbeddingNext == TypeOK /\ EmbeddingHasSummary /\ [Next]_vars => EmbeddingHasSummary'
<1>. SUFFICES ASSUME TypeOK, EmbeddingHasSummary, [Next]_vars,
                     NEW p \in DOMAIN posts', posts'[p].embedding # Placeholder
              PROVE  \E l \in Langs : posts'[p].summary[l] = posts'[p].embedding
  BY DEF EmbeddingHasSummary
<1>0. ASSUME p \in DOMAIN posts, posts'[p].summary = posts[p].summary,
             posts'[p].embedding = posts[p].embedding
      PROVE  \E l \in Langs : posts'[p].summary[l] = posts'[p].embedding
  BY <1>0 DEF EmbeddingHasSummary
<1>1. ASSUME NEW w \in Workers, CreatePost(w)
      PROVE  \E l \in Langs : posts'[p].summary[l] = posts'[p].embedding
  <2>1. CASE p = NextPostId
    BY <1>1, <2>1 DEF CreatePost, NewRow
  <2>2. CASE p # NextPostId
    BY <1>0, <1>1, <2>2 DEF CreatePost
  <2>. QED BY <2>1, <2>2
<1>2. ASSUME NEW w \in Workers, EditPost(w)
      PROVE  \E l \in Langs : posts'[p].summary[l] = posts'[p].embedding
  <2>1. PICK q, l, n : /\ q \in DOMAIN posts /\ l \in Langs
                       /\ posts' = SetText(q, l, n)
    BY <1>2, Carried DEF EditPost, Owns
  <2>2. /\ p \in DOMAIN posts /\ posts'[p].summary = posts[p].summary
        /\ posts'[p].embedding = posts[p].embedding
    BY <2>1, EditedRow
  <2>. QED BY <1>0, <2>2
<1>3. ASSUME NEW t \in tasks, UpdateSummaryAndEmbedding(t)
      PROVE  \E l \in Langs : posts'[p].summary[l] = posts'[p].embedding
  <2>1. t.text \in Texts /\ posts' = SetEnrichment(t.text) /\ p \in DOMAIN posts
        /\ texts[t.text].lang \in Langs
    BY <1>3, TaskText, TextFields DEF UpdateSummaryAndEmbedding, SetEnrichment
  <2>2. CASE p = texts[t.text].post
    BY <2>1, <2>2, EnrichedRow
  <2>3. CASE p # texts[t.text].post
    BY <1>0, <2>1, <2>3, EnrichedRow
  <2>. QED BY <2>2, <2>3
<1>4. CASE \/ \E w \in Workers : \/ \E r \in Request : Authorize(w, r)
                                 \/ Spawn(w) \/ DeletePost(w) \/ Abort(w)
           \/ \E t \in tasks : GetSummary(t) \/ GetEmbedding(t) \/ GiveUp(t)
           \/ \E u \in Authors : DeleteUser(u)
           \/ Crash
           \/ UNCHANGED vars
  BY <1>0, <1>4, OtherSteps DEF RowsOnlyDeleted
<1>. QED BY <1>1, <1>2, <1>3, <1>4 DEF Next, Serve, Enrich

(* Semantic search never finds a post by a text none of whose summaries    *)
(* the post shows.                                                         *)
THEOREM EmbeddingAlwaysHasSummary == Spec => []EmbeddingHasSummary
<1>. QED BY EmbeddingInit, EmbeddingNext, TypeCorrect, PTL DEF Spec

-----------------------------------------------------------------------------
(* Fresh summaries.                                                        *)

(* The texts waiting for their enrichment, when a request moves, ...       *)
LEMMA PendingGoto ==
  ASSUME TypeOK, NEW w \in Workers, NEW r, Goto(w, r), UNCHANGED tasks
  PROVE  /\ r.pc = "spawn" => r.text \in Pending'
         /\ \A x \in Pending' : x \in Pending \/ (r.pc = "spawn" /\ x = r.text)
         /\ \A x \in Pending :
              x \in Pending' \/ (req[w].pc = "spawn" /\ x = req[w].text)
<1>1. \A x \in Workers : req'[x] = IF x = w THEN r ELSE req[x]
  BY DEF Goto, TypeOK
<1>2. ASSUME r.pc = "spawn" PROVE r.text \in Pending'
  BY <1>1, <1>2 DEF Pending
<1>3. ASSUME NEW x \in Pending' PROVE x \in Pending \/ (r.pc = "spawn" /\ x = r.text)
  BY <1>1, <1>3 DEF Pending
<1>4. ASSUME NEW x \in Pending
      PROVE  x \in Pending' \/ (req[w].pc = "spawn" /\ x = req[w].text)
  BY <1>1, <1>4 DEF Pending
<1>. QED BY <1>2, <1>3, <1>4

(* ... and when a task does.                                               *)
LEMMA PendingBecome ==
  ASSUME NEW t \in tasks, NEW new, Become(t, new), UNCHANGED req
  PROVE  /\ \A n \in new : n.text \in Pending'
         /\ \A x \in Pending' : x \in Pending \/ \E n \in new : x = n.text
         /\ \A x \in Pending : x \in Pending' \/ x = t.text
<1>1. \A n \in new : n.text \in Pending'
  BY DEF Pending, Become
<1>2. ASSUME NEW x \in Pending' PROVE x \in Pending \/ \E n \in new : x = n.text
  BY <1>2 DEF Pending, Become
<1>3. ASSUME NEW x \in Pending PROVE x \in Pending' \/ x = t.text
  BY <1>3 DEF Pending, Become
<1>. QED BY <1>1, <1>2, <1>3

LEMMA PendingTexts ==
  ASSUME TypeOK
  PROVE  Pending \subseteq Texts
BY Carried, TaskText DEF Pending

(* Why a summary is fresh: the text of the post is being enriched or is    *)
(* shown, and no other text is on its way to the same summary.             *)
Fresh(p, l) ==
  LET v == posts[p].text[l] IN
    texts[v].lang = l /\ v \notin lost \cup raced =>
      /\ v \in Pending \/ posts[p].summary[l] = v
      /\ \A x \in Pending : texts[x].post = p /\ texts[x].lang = l => x = v

FreshInv == \A p \in DOMAIN posts, l \in Langs : Fresh(p, l)

(* A step that only ends the enrichment of texts that are lost by it, or   *)
(* of none.                                                                *)
LEMMA FreshKept ==
  ASSUME TypeOK, FreshInv, RowsOnlyDeleted, UNCHANGED <<texts, raced>>,
         Pending' \subseteq Pending, Pending \subseteq Pending' \cup lost',
         lost \subseteq lost'
  PROVE  FreshInv'
  BY DEF FreshInv, Fresh, RowsOnlyDeleted

(* A step that leaves a row alone, while a text is added for another row   *)
(* or for another language.                                                *)
LEMMA FreshOther ==
  ASSUME TypeOK, NEW p \in DOMAIN posts, NEW l \in Langs, Fresh(p, l),
         NEW q, NEW m, NEW n, TextAdded(q, m, n), q # p \/ m # l,
         posts'[p].text[l] = posts[p].text[l],
         posts'[p].summary[l] = posts[p].summary[l],
         Pending \subseteq Pending', Pending' \subseteq Pending \cup {n},
         UNCHANGED lost, raced \subseteq raced'
  PROVE  Fresh(p, l)'
<1>1. posts[p].text[l] \in Texts /\ Pending \subseteq Texts
  BY RowFields, PendingTexts
<1>. QED BY <1>1 DEF Fresh, TextAdded

LEMMA FreshInit == Init => FreshInv
  BY DEF Init, FreshInv

LEMMA FreshNext == TypeOK /\ OwnInv /\ FreshInv /\ [Next]_vars => FreshInv'
<1>. SUFFICES ASSUME TypeOK, OwnInv, FreshInv, [Next]_vars PROVE FreshInv'
  OBVIOUS
<1>1. ASSUME NEW w \in Workers, CreatePost(w) PROVE FreshInv'
  <2>1. PICK p, m, n, u : /\ p = NextPostId /\ m = req[w].lang
                          /\ n = NewText /\ u = req[w].user
    OBVIOUS
  <2>2. /\ m \in Langs /\ serial < MaxPosts /\ p = serial + 1
        /\ texts' = Append(texts, Submitted(p, m))
        /\ posts' = [q \in DOMAIN posts \cup {p} |->
                      IF q = p THEN NewRow(u, n, m) ELSE posts[q]]
        /\ Goto(w, [pc |-> "spawn", text |-> n])
        /\ UNCHANGED <<tasks, lost, raced>> /\ req[w].pc # "spawn"
    BY <1>1, <2>1, Carried DEF CreatePost, NextPostId
  <2>3. p \in 1 .. MaxPosts /\ p \notin DOMAIN posts
    BY <2>2, PostsAssumption DEF TypeOK
  <2>4. TextAdded(p, m, n)
    BY <2>1, <2>2, <2>3, SubmittedText
  <2>5. n \in Pending' /\ Pending' \subseteq Pending \cup {n} /\ Pending \subseteq Pending'
    BY <2>2, PendingGoto
  <2>6. ASSUME NEW l \in Langs PROVE Fresh(p, l)'
    <3>1. posts'[p].text[l] = n
      BY <2>2 DEF NewRow
    <3>2. \A x \in Pending : texts'[x].post # p
      <4>. SUFFICES ASSUME NEW x \in Pending PROVE texts'[x].post # p
        OBVIOUS
      <4>1. x \in Texts /\ texts'[x] = texts[x] /\ texts[x].post \in Nat
            /\ texts[x].post <= serial /\ serial \in Nat
        BY <2>4, PendingTexts, TextFields, PostsAssumption
           DEF OwnInv, LateText, TextAdded, TypeOK
      <4>2. p = serial + 1
        BY <2>2
      <4>3. texts[x].post # p
        BY <4>1, <4>2
      <4>. QED BY <4>1, <4>3
    <3>. QED BY <2>5, <3>1, <3>2 DEF Fresh
  <2>7. ASSUME NEW q \in DOMAIN posts, NEW l \in Langs PROVE Fresh(q, l)'
    <3>1. posts'[q] = posts[q] /\ q # p /\ Fresh(q, l)
      BY <2>2, <2>3 DEF FreshInv
    <3>. QED BY <2>2, <2>4, <2>5, <3>1, FreshOther
  <2>8. DOMAIN posts' = DOMAIN posts \cup {p}
    BY <2>2
  <2>. QED BY <2>6, <2>7, <2>8 DEF FreshInv
<1>2. ASSUME NEW w \in Workers, EditPost(w) PROVE FreshInv'
  <2>1. PICK p, m, n : p = req[w].post /\ m = req[w].lang /\ n = NewText
    OBVIOUS
  <2>2. /\ m \in Langs /\ p \in 1 .. MaxPosts /\ p \in DOMAIN posts
        /\ texts' = Append(texts, Submitted(p, m))
        /\ posts' = SetText(p, m, n)
        /\ raced' = IF \E v \in Pending : texts[v] = Submitted(p, m)
                    THEN raced \cup {n} ELSE raced
        /\ Goto(w, [pc |-> "spawn", text |-> n])
        /\ UNCHANGED <<tasks, lost>> /\ req[w].pc # "spawn"
    BY <1>2, <2>1, Carried DEF EditPost, Owns
  <2>3. TextAdded(p, m, n)
    BY <2>1, <2>2, SubmittedText
  <2>4. n \in Pending' /\ Pending' \subseteq Pending \cup {n} /\ Pending \subseteq Pending'
    BY <2>2, PendingGoto
  <2>5. Fresh(p, m)'
    <3>1. posts'[p].text[m] = n
      BY <2>2, EditedRow
    <3>2. ASSUME n \notin raced', NEW x \in Pending
          PROVE  ~ (texts'[x].post = p /\ texts'[x].lang = m)
      <4>1. x \in Texts /\ texts'[x] = texts[x]
            /\ texts[x] = Submitted(texts[x].post, texts[x].lang)
        BY <2>3, PendingTexts, TextFields DEF TextAdded
      <4>2. texts[x] # Submitted(p, m)
        BY <2>2, <3>2
      <4>. QED BY <4>1, <4>2
    <3>. QED BY <2>4, <3>1, <3>2 DEF Fresh
  <2>6. ASSUME NEW q \in DOMAIN posts, NEW l \in Langs, q # p \/ l # m
        PROVE  Fresh(q, l)'
    <3>1. /\ posts'[q].text[l] = posts[q].text[l]
          /\ posts'[q].summary[l] = posts[q].summary[l]
      BY <2>2, <2>6, EditedRow
    <3>2. Fresh(q, l) /\ raced \subseteq raced'
      BY <2>2 DEF FreshInv
    <3>. QED BY <2>2, <2>3, <2>4, <2>6, <3>1, <3>2, FreshOther
  <2>7. DOMAIN posts' = DOMAIN posts
    BY <2>2, EditedRow
  <2>. QED BY <2>5, <2>6, <2>7 DEF FreshInv
<1>3. ASSUME NEW t \in tasks, UpdateSummaryAndEmbedding(t) PROVE FreshInv'
  <2>1. PICK v : v = t.text
    OBVIOUS
  <2>2. /\ v \in Texts /\ posts' = SetEnrichment(v) /\ DOMAIN posts' = DOMAIN posts
        /\ Become(t, {}) /\ UNCHANGED <<texts, req, lost, raced>>
    BY <1>3, <2>1, TaskText DEF UpdateSummaryAndEmbedding, SetEnrichment
  <2>3. Pending' \subseteq Pending /\ Pending \subseteq Pending' \cup {v}
        /\ v \in Pending
    BY <2>1, <2>2, PendingBecome DEF Pending
  <2>4. ASSUME NEW p \in DOMAIN posts, NEW l \in Langs PROVE Fresh(p, l)'
    <3>1. Fresh(p, l) /\ posts[p].text[l] \in Texts
      BY RowFields DEF FreshInv
    <3>2. texts[posts[p].text[l]].post = p
      BY OwnRows DEF OwnInv, OwnRow, OwnText
    <3>3. posts'[p].text[l] = posts[p].text[l]
      BY <2>2, EnrichedRow
    <3>4. CASE texts[v].post = p /\ texts[v].lang = l
      <4>1. posts'[p].summary[l] = v
        BY <2>2, <3>4, EnrichedRow
      <4>. QED BY <2>2, <2>3, <3>1, <3>3, <3>4, <4>1 DEF Fresh
    <3>5. CASE ~ (texts[v].post = p /\ texts[v].lang = l)
      <4>1. posts'[p].summary[l] = posts[p].summary[l]
        BY <2>2, <3>5, EnrichedRow
      <4>. QED BY <2>2, <2>3, <3>1, <3>2, <3>3, <3>5, <4>1 DEF Fresh
    <3>. QED BY <3>4, <3>5
  <2>. QED BY <2>2, <2>4 DEF FreshInv
<1>4. ASSUME NEW w \in Workers, NEW r \in Request, Authorize(w, r) PROVE FreshInv'
  <2>1. /\ r.pc # "spawn" /\ req[w].pc # "spawn" /\ Goto(w, r)
        /\ UNCHANGED <<tasks, lost>>
    BY <1>4 DEF Authorize, Idle
  <2>2. Pending' \subseteq Pending /\ Pending \subseteq Pending'
    BY <2>1, PendingGoto
  <2>. QED BY <1>4, <2>1, <2>2, OtherSteps, FreshKept
<1>5. ASSUME NEW w \in Workers, Spawn(w) PROVE FreshInv'
  <2>1. \A x \in Workers : req'[x] = IF x = w THEN Idle ELSE req[x]
    BY <1>5 DEF Spawn, Done, Goto, TypeOK
  <2>2. /\ req[w].pc = "spawn" /\ UNCHANGED lost
        /\ tasks' = tasks \cup {[text |-> req[w].text, pc |-> "summary"]}
    BY <1>5 DEF Spawn
  <2>3. Pending' \subseteq Pending
    BY <2>1, <2>2 DEF Pending, Idle
  <2>4. ASSUME NEW x \in Pending PROVE x \in Pending'
    <3>1. CASE \E t \in tasks : x = t.text
      BY <2>2, <3>1 DEF Pending
    <3>2. CASE \E y \in Workers : req[y].pc = "spawn" /\ x = req[y].text
      <4>1. PICK y \in Workers : req[y].pc = "spawn" /\ x = req[y].text
        BY <3>2
      <4>2. CASE y = w
        <5>1. [text |-> x, pc |-> "summary"] \in tasks'
          BY <2>2, <4>1, <4>2
        <5>. QED BY <5>1 DEF Pending
      <4>3. CASE y # w
        BY <2>1, <4>1, <4>3 DEF Pending
      <4>. QED BY <4>2, <4>3
    <3>. QED BY <2>4, <3>1, <3>2 DEF Pending
  <2>. QED BY <1>5, <2>2, <2>3, <2>4, OtherSteps, FreshKept
<1>6. ASSUME NEW w \in Workers, DeletePost(w) \/ Abort(w) PROVE FreshInv'
  <2>1. /\ Goto(w, Idle) /\ Idle.pc # "spawn" /\ UNCHANGED tasks
        /\ lost \subseteq lost'
        /\ req[w].pc = "spawn" => req[w].text \in lost'
    BY <1>6 DEF DeletePost, Abort, Done, Idle
  <2>2. Pending' \subseteq Pending /\ Pending \subseteq Pending' \cup lost'
    BY <2>1, PendingGoto
  <2>. QED BY <1>6, <2>1, <2>2, OtherSteps, FreshKept
<1>7. ASSUME NEW t \in tasks, GetSummary(t) \/ GetEmbedding(t) PROVE FreshInv'
  <2>1. PICK n : Become(t, {n}) /\ n.text = t.text /\ UNCHANGED <<req, lost>>
    BY <1>7 DEF GetSummary, GetEmbedding
  <2>2. t.text \in Pending
    BY DEF Pending
  <2>3. Pending' \subseteq Pending /\ Pending \subseteq Pending'
    BY <2>1, <2>2, PendingBecome
  <2>. QED BY <1>7, <2>1, <2>3, OtherSteps, FreshKept
<1>8. ASSUME NEW t \in tasks, GiveUp(t) PROVE FreshInv'
  <2>1. Become(t, {}) /\ UNCHANGED req /\ lost' = lost \cup {t.text}
    BY <1>8 DEF GiveUp
  <2>2. Pending' \subseteq Pending /\ Pending \subseteq Pending' \cup lost'
    BY <2>1, PendingBecome
  <2>. QED BY <1>8, <2>1, <2>2, OtherSteps, FreshKept
<1>9. CASE Crash
  <2>1. Pending' = {} /\ lost' = lost \cup Pending
    BY <1>9 DEF Crash, Pending, Idle
  <2>. QED BY <1>9, <2>1, OtherSteps, FreshKept
<1>10. CASE (\E u \in Authors : DeleteUser(u)) \/ UNCHANGED vars
  <2>1. UNCHANGED <<tasks, req, lost>>
    BY <1>10 DEF DeleteUser, vars
  <2>2. Pending' = Pending
    BY <2>1 DEF Pending
  <2>. QED BY <1>10, <2>1, <2>2, OtherSteps, FreshKept
<1>. QED BY <1>1, <1>2, <1>3, <1>4, <1>5, <1>6, <1>7, <1>8, <1>9, <1>10
         DEF Next, Serve, Enrich

(* A summary is stale only while its text is being enriched, when that     *)
(* enrichment was lost, or when it was raced by that of an older text.     *)
THEOREM SettledAlwaysFresh == Spec => []SettledIsFresh
<1>1. FreshInv => SettledIsFresh
  BY DEF FreshInv, Fresh, SettledIsFresh
<1>. QED BY <1>1, FreshInit, FreshNext, OwnInit, OwnNext, TypeCorrect, PTL DEF Spec

=============================================================================
