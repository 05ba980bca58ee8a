------------------------- MODULE PostLifecycleProofs -------------------------
(***************************************************************************)
(* The post handlers and their tasks implement PostLifecycle, for every    *)
(* set of authors and workers and every bound on posts and texts: the      *)
(* initial states correspond, and every statement or service call is one   *)
(* step of the life of the posts, or no step at all.                       *)
(***************************************************************************)
EXTENDS PostsProofs

-----------------------------------------------------------------------------
(* One enrichment per text.                                                *)

Spawning(w) == req[w].pc = "spawn"

(* A text has one task, or one worker about to spawn it, and never both:   *)
(* when that one is done or gives up, nothing is due for the text any more.*)
OneEach ==
  /\ \A s, t \in tasks : s.text = t.text => s = t
  /\ \A w, x \in Workers :
       Spawning(w) /\ Spawning(x) /\ req[w].text = req[x].text => w = x
  /\ \A t \in tasks, w \in Workers : Spawning(w) => t.text # req[w].text

LEMMA OneEachInit == Init => OneEach
  BY DEF Init, OneEach, Spawning, Idle

(* A request that goes on to something else than a spawn.                  *)
LEMMA OneEachLeft ==
  ASSUME TypeOK, OneEach, NEW w \in Workers, NEW r, r.pc # "spawn",
         Goto(w, r), UNCHANGED tasks
  PROVE  OneEach'
<1>1. \A x \in Workers : req'[x] = IF x = w THEN r ELSE req[x]
  BY DEF Goto, TypeOK
<1>. QED BY <1>1 DEF OneEach, Spawning

(* A request that has stored a text nobody else knows of.                  *)
LEMMA OneEachStored ==
  ASSUME TypeOK, OneEach, NEW w \in Workers, NEW n, n \notin Texts,
         Goto(w, [pc |-> "spawn", text |-> n]), UNCHANGED tasks
  PROVE  OneEach'
<1>1. \A x \in Workers : req'[x] = IF x = w THEN [pc |-> "spawn", text |-> n] ELSE req[x]
  BY DEF Goto, TypeOK
<1>2. /\ \A t \in tasks : t.text # n
      /\ \A x \in Workers : Spawning(x) => req[x].text # n
  BY Carried, TaskText DEF Spawning
<1>. QED BY <1>1, <1>2 DEF OneEach, Spawning

(* A task that goes on with the same text, or ends.                        *)
LEMMA OneEachTask ==
  ASSUME OneEach, NEW t \in tasks, NEW new, Become(t, new), UNCHANGED req,
         \A n \in new : n.text = t.text,
         \A m, n \in new : m = n
  PROVE  OneEach'
<1>1. \A s \in tasks' : s \in new \/ (s \in tasks /\ s # t)
  BY DEF Become
<1>2. \A s \in tasks' : (s.text = t.text => s \in new) /\ \E x \in tasks : x.text = s.text
  BY <1>1 DEF OneEach
<1>. QED BY <1>1, <1>2 DEF OneEach, Spawning

LEMMA OneEachNext == TypeOK /\ OneEach /\ [Next]_vars => OneEach'
<1>. SUFFICES ASSUME TypeOK, OneEach, [Next]_vars PROVE OneEach'
  OBVIOUS
<1>1. ASSUME NEW w \in Workers, CreatePost(w) \/ EditPost(w) PROVE OneEach'
  <2>1. NewText \notin Texts
    BY DEF NewText, Texts, TypeOK
  <2>. QED BY <1>1, <2>1, OneEachStored DEF CreatePost, EditPost
<1>2. ASSUME NEW w \in Workers, Spawn(w) PROVE OneEach'
  <2>1. \A x \in Workers : req'[x] = IF x = w THEN Idle ELSE req[x]
    BY <1>2 DEF Spawn, Done, Goto, TypeOK
  <2>2. Spawning(w) /\ tasks' = tasks \cup {[text |-> req[w].text, pc |-> "summary"]}
    BY <1>2 DEF Spawn, Spawning
  <2>. QED BY <2>1, <2>2 DEF OneEach, Spawning, Idle
<1>3. ASSUME NEW w \in Workers,
             (\E r \in Request : Authorize(w, r)) \/ DeletePost(w) \/ Abort(w)
      PROVE  OneEach'
  <2>1. PICK r : r.pc # "spawn" /\ Goto(w, r) /\ UNCHANGED tasks
    BY <1>3 DEF Authorize, DeletePost, Abort, Done, Idle
  <2>. QED BY <2>1, OneEachLeft
<1>4. ASSUME NEW t \in tasks, Enrich(t) PROVE OneEach'
  <2>1. PICK new : /\ Become(t, new) /\ UNCHANGED req
                   /\ \A n \in new : n.text = t.text
                   /\ \A m, n \in new : m = n
    <3>1. ASSUME GetSummary(t) \/ GetEmbedding(t)
          PROVE  \E n : Become(t, {n}) /\ n.text = t.text /\ UNCHANGED req
      BY <3>1 DEF GetSummary, GetEmbedding
    <3>2. CASE \E n : Become(t, {n}) /\ n.text = t.text /\ UNCHANGED req
      BY <3>2
    <3>3. CASE Become(t, {}) /\ UNCHANGED req
      BY <3>3
    <3>. QED BY <1>4, <3>1, <3>2, <3>3 DEF Enrich, UpdateSummaryAndEmbedding, GiveUp
  <2>. QED BY <2>1, OneEachTask
<1>5. CASE Crash
  BY <1>5 DEF Crash, OneEach, Spawning, Idle
<1>6. CASE (\E u \in Authors : DeleteUser(u)) \/ UNCHANGED vars
  BY <1>6 DEF DeleteUser, vars, OneEach, Spawning
<1>. QED BY <1>1, <1>2, <1>3, <1>4, <1>5, <1>6 DEF Next, Serve

-----------------------------------------------------------------------------
(* What is due after a step: exactly, because no text is carried twice.    *)

LEMMA PendingOf ==
  ASSUME NEW x
  PROVE  x \in Pending <=> \/ \E t \in tasks : x = t.text
                           \/ \E w \in Workers : Spawning(w) /\ x = req[w].text
  BY DEF Pending, Spawning

LEMMA PendingEnds ==
  ASSUME TypeOK, OneEach
  PROVE  /\ \A w \in Workers : \A r :
              Goto(w, r) /\ r.pc # "spawn" /\ UNCHANGED tasks =>
                Pending' = IF Spawning(w) THEN Pending \ {req[w].text} ELSE Pending
         /\ \A t \in tasks : Become(t, {}) /\ UNCHANGED req => Pending' = Pending \ {t.text}
<1>1. ASSUME NEW w \in Workers, NEW r, Goto(w, r), r.pc # "spawn", UNCHANGED tasks
      PROVE  Pending' = IF Spawning(w) THEN Pending \ {req[w].text} ELSE Pending
  <2>1. \A x \in Workers : req'[x] = IF x = w THEN r ELSE req[x]
    BY <1>1 DEF Goto, TypeOK
  <2>2. Pending' \subseteq Pending /\ \A x \in Pending :
          x \in Pending' \/ (Spawning(w) /\ x = req[w].text)
    BY <1>1, PendingGoto DEF Spawning
  <2>3. Spawning(w) => req[w].text \notin Pending'
    BY <1>1, <2>1 DEF OneEach, Spawning, Pending
  <2>. QED BY <2>2, <2>3
<1>2. ASSUME NEW t \in tasks, Become(t, {}), UNCHANGED req
      PROVE  Pending' = Pending \ {t.text}
  <2>1. Pending' \subseteq Pending /\ \A x \in Pending : x \in Pending' \/ x = t.text
    BY <1>2, PendingBecome
  <2>2. t.text \notin Pending'
    BY <1>2 DEF OneEach, Spawning, Pending, Become
  <2>. QED BY <2>1, <2>2
<1>. QED BY <1>1, <1>2

(* The view of a step that submits no text.                                *)
LEMMA DueKept ==
  ASSUME UNCHANGED texts, Pending' = Pending
  PROVE  due' = due
  BY DEF due, DueText

LEMMA DueLess ==
  ASSUME UNCHANGED texts, NEW v \in Pending, Pending' = Pending \ {v}
  PROVE  DueText(v) \in due /\ due' = due \ {DueText(v)}
<1>1. \A x, y : DueText(x) = DueText(y) => x = y
  BY DEF DueText
<1>2. due' = {DueText(x) : x \in Pending \ {v}}
  BY DEF due, DueText
<1>. QED BY <1>1, <1>2 DEF due

LEMMA DueMore ==
  ASSUME TypeOK, NEW p, NEW l, NEW n, TextAdded(p, l, n), Pending' = Pending \cup {n}
  PROVE  due' = due \cup {Lifecycle!Due(p, l, n)}
<1>1. \A v \in Pending : DueText(v)' = DueText(v)
  BY PendingTexts DEF TextAdded, DueText
<1>2. DueText(n)' = Lifecycle!Due(p, l, n)
  BY DEF TextAdded, DueText, Lifecycle!Due
<1>3. due' = {DueText(v)' : v \in Pending \cup {n}}
  BY DEF due
<1>. QED BY <1>1, <1>2, <1>3 DEF due

-----------------------------------------------------------------------------
(* One statement, seen from the life of the posts.                         *)

LEMMA PublicIds ==
  ASSUME TypeOK
  PROVE  /\ DOMAIN posts \subseteq PostIds
         /\ \A p \in DOMAIN posts : stage[p] = "public"
         /\ \A p \in PostIds : stage[p] = "public" => p \in DOMAIN posts
<1>1. DOMAIN posts \subseteq PostIds
  BY PostsAssumption DEF TypeOK, PostIds
<1>. QED BY <1>1 DEF stage

LEMMA NoStep ==
  ASSUME UNCHANGED <<posts, serial, texts>>, Pending' = Pending
  PROVE  UNCHANGED <<stage, shown, due, Len(texts)>>
  BY DueKept DEF stage, shown, Nothing

LEMMA CreatePublishes ==
  ASSUME TypeOK, NEW w \in Workers, CreatePost(w)
  PROVE  \E p \in PostIds, l \in Langs : Lifecycle!Publish(p, l)
<1>1. PICK p, l, n, u : /\ p = NextPostId /\ l = req[w].lang
                        /\ n = NewText /\ u = req[w].user
  OBVIOUS
<1>2. /\ l \in Langs /\ serial < MaxPosts /\ p = serial + 1 /\ serial' = serial + 1
      /\ texts' = Append(texts, Submitted(p, l))
      /\ posts' = [q \in DOMAIN posts \cup {p} |->
                    IF q = p THEN NewRow(u, n, l) ELSE posts[q]]
      /\ Goto(w, [pc |-> "spawn", text |-> n])
      /\ UNCHANGED tasks /\ req[w].pc # "spawn"
  BY <1>1, Carried DEF CreatePost, NextPostId
<1>3. p \in 1 .. MaxPosts /\ p \in PostIds /\ p \notin DOMAIN posts /\ ~ p <= serial
      /\ serial \in Nat
  BY <1>2, PostsAssumption DEF TypeOK, PostIds
<1>4. TextAdded(p, l, n) /\ n = Len(texts) + 1 /\ Len(texts') = n
  <2>1. Submitted(p, l) \in TextInfo
    BY <1>2, <1>3 DEF Submitted, TextInfo
  <2>. QED BY <1>1, <1>2, <1>3, <2>1, SubmittedText, AppendText DEF NewText, TypeOK
<1>5. Pending' = Pending \cup {n}
  <2>1. n \in Pending' /\ Pending' \subseteq Pending \cup {n} /\ Pending \subseteq Pending'
    BY <1>2, PendingGoto
  <2>. QED BY <2>1
<1>6. due' = due \cup {Lifecycle!Due(p, l, n)}
  BY <1>4, <1>5, DueMore
<1>7. stage[p] = "none" /\ stage' = [stage EXCEPT ![p] = "public"]
  <2>1. stage[p] = "none"
    BY <1>3 DEF stage
  <2>2. \A q \in PostIds : q # p => (q \in DOMAIN posts' <=> q \in DOMAIN posts)
                                 /\ (q <= serial' <=> q <= serial)
    BY <1>2, <1>3, PostsAssumption DEF PostIds
  <2>3. p \in DOMAIN posts'
    BY <1>2
  <2>. QED BY <2>1, <2>2, <2>3 DEF stage
<1>8. shown' = [shown EXCEPT ![p] = [Lifecycle!Blank EXCEPT !.text = [x \in Langs |-> n]]]
  <2>1. \A q \in DOMAIN posts : q # p /\ posts'[q] = posts[q]
    BY <1>2, <1>3
  <2>2. [text |-> posts'[p].text, summary |-> posts'[p].summary,
         embedding |-> posts'[p].embedding]
          = [Lifecycle!Blank EXCEPT !.text = [x \in Langs |-> n]]
    BY <1>2 DEF NewRow, Placeholder, Lifecycle!Blank
  <2>3. DOMAIN posts' = DOMAIN posts \cup {p}
    BY <1>2
  <2>. QED BY <1>3, <2>1, <2>2, <2>3 DEF shown, Nothing
<1>. QED BY <1>2, <1>3, <1>4, <1>6, <1>7, <1>8 DEF Lifecycle!Publish

LEMMA EditRewrites ==
  ASSUME TypeOK, NEW w \in Workers, EditPost(w)
  PROVE  \E p \in PostIds, l \in Langs : Lifecycle!Rewrite(p, l)
<1>1. PICK p, l, n : p = req[w].post /\ l = req[w].lang /\ n = NewText
  OBVIOUS
<1>2. /\ l \in Langs /\ p \in 1 .. MaxPosts /\ p \in DOMAIN posts
      /\ texts' = Append(texts, Submitted(p, l))
      /\ posts' = SetText(p, l, n)
      /\ Goto(w, [pc |-> "spawn", text |-> n])
      /\ UNCHANGED <<tasks, serial>> /\ req[w].pc # "spawn"
  BY <1>1, Carried DEF EditPost, Owns
<1>3. TextAdded(p, l, n) /\ n = Len(texts) + 1 /\ Len(texts') = n
  <2>1. Submitted(p, l) \in TextInfo
    BY <1>2 DEF Submitted, TextInfo
  <2>. QED BY <1>1, <1>2, <2>1, SubmittedText, AppendText DEF NewText, TypeOK
<1>4. Pending' = Pending \cup {n}
  <2>1. n \in Pending' /\ Pending' \subseteq Pending \cup {n} /\ Pending \subseteq Pending'
    BY <1>2, PendingGoto
  <2>. QED BY <2>1
<1>5. due' = due \cup {Lifecycle!Due(p, l, n)}
  BY <1>3, <1>4, DueMore
<1>6. /\ DOMAIN posts' = DOMAIN posts
      /\ \A q \in DOMAIN posts : q # p => posts'[q] = posts[q]
      /\ posts'[p] = [posts[p] EXCEPT !.text[l] = n]
  BY <1>2 DEF SetText
<1>7. stage[p] = "public" /\ stage' = stage
  BY <1>2, <1>6, PublicIds DEF stage
<1>8. shown' = [shown EXCEPT ![p].text[l] = n]
  <2>1. [text |-> posts'[p].text, summary |-> posts'[p].summary,
         embedding |-> posts'[p].embedding] = [shown[p] EXCEPT !.text[l] = n]
    <3>1. posts[p] \in Row
      BY <1>2, RowFields
    <3>2. shown[p] = [text |-> posts[p].text, summary |-> posts[p].summary,
                      embedding |-> posts[p].embedding]
      BY <1>2, PublicIds DEF shown
    <3>. QED BY <1>6, <3>1, <3>2 DEF Row
  <2>. QED BY <1>2, <1>6, <2>1, PublicIds DEF shown, Nothing
<1>9. p \in PostIds
  BY <1>2 DEF PostIds
<1>. QED BY <1>2, <1>3, <1>5, <1>7, <1>8, <1>9 DEF Lifecycle!Rewrite

LEMMA UpdateEnriches ==
  ASSUME TypeOK, OwnInv, OneEach, NEW t \in tasks, UpdateSummaryAndEmbedding(t)
  PROVE  \E d \in due : Lifecycle!Enrich(d)
<1>1. PICK v : v = t.text
  OBVIOUS
<1>2. PICK d : d = DueText(v)
  OBVIOUS
<1>3. /\ v \in Texts /\ v \in Pending /\ posts' = SetEnrichment(v)
      /\ Become(t, {}) /\ UNCHANGED <<texts, req, serial>>
  BY <1>1, TaskText DEF UpdateSummaryAndEmbedding, Pending
<1>4. Pending' = Pending \ {v}
  BY <1>1, <1>3, PendingEnds
<1>5. d \in due /\ due' = due \ {d}
  BY <1>2, <1>3, <1>4, DueLess
<1>6. d.post = texts[v].post /\ d.lang = texts[v].lang /\ d.text = v
  BY <1>2 DEF DueText
<1>7. d.post \in PostIds
  BY <1>3, <1>6, TextFields DEF PostIds
<1>8. DOMAIN posts' = DOMAIN posts
      /\ \A p \in DOMAIN posts : posts'[p] = IF p = d.post
           THEN [posts[p] EXCEPT !.summary[d.lang] = v, !.embedding = v]
           ELSE posts[p]
  BY <1>3, <1>6 DEF SetEnrichment
<1>9. stage' = stage
  BY <1>3, <1>8 DEF stage
<1>10. shown' = IF stage[d.post] = "public"
                THEN [shown EXCEPT ![d.post] =
                       Lifecycle!Enriched(shown[d.post], d.lang, v)]
                ELSE shown
  <2>1. CASE d.post \in DOMAIN posts
    <3>1. posts[d.post] \in Row
      BY <2>1, RowFields
    <3>2. shown[d.post] = [text |-> posts[d.post].text, summary |-> posts[d.post].summary,
                           embedding |-> posts[d.post].embedding]
      BY <1>7, <2>1 DEF shown
    <3>3. [text |-> posts'[d.post].text, summary |-> posts'[d.post].summary,
           embedding |-> posts'[d.post].embedding]
            = Lifecycle!Enriched(shown[d.post], d.lang, v)
      <4>1. posts'[d.post] = [posts[d.post] EXCEPT !.summary[d.lang] = v, !.embedding = v]
        BY <1>8, <2>1
      <4>2. /\ posts'[d.post].text = posts[d.post].text
            /\ posts'[d.post].summary = [posts[d.post].summary EXCEPT ![d.lang] = v]
            /\ posts'[d.post].embedding = v
        BY <3>1, <4>1 DEF Row
      <4>. QED BY <3>2, <4>2 DEF Lifecycle!Enriched
    <3>4. stage[d.post] = "public"
      BY <2>1, PublicIds
    <3>. QED BY <1>7, <1>8, <2>1, <3>3, <3>4 DEF shown, Nothing
  <2>2. CASE d.post \notin DOMAIN posts
    <3>1. stage[d.post] # "public"
      BY <1>7, <2>2, PublicIds
    <3>. QED BY <1>8, <2>2, <3>1 DEF shown, Nothing
  <2>. QED BY <2>1, <2>2
<1>. QED BY <1>3, <1>5, <1>6, <1>9, <1>10 DEF Lifecycle!Enrich

(* Requests and tasks that end without an UPDATE, one or all of them.      *)
LEMMA EndsLose ==
  ASSUME TypeOK, OneEach,
         \/ \E w \in Workers : Abort(w)
         \/ \E t \in tasks : GiveUp(t)
         \/ Crash
  PROVE  Lifecycle!Lose
<1>1. UNCHANGED <<posts, serial, texts>>
  BY DEF Abort, GiveUp, Crash
<1>2. UNCHANGED <<stage, shown, Len(texts)>>
  BY <1>1 DEF stage, shown, Nothing
<1>3. ASSUME NEW D, due' = due \ D PROVE Lifecycle!Lose
  BY <1>2, <1>3 DEF Lifecycle!Lose
<1>4. ASSUME NEW w \in Workers, Abort(w)
      PROVE  Lifecycle!Lose
  <2>1. Pending' = IF Spawning(w) THEN Pending \ {req[w].text} ELSE Pending
    BY <1>4, PendingEnds DEF Abort, Done, Idle
  <2>2. Spawning(w) => req[w].text \in Pending
    BY DEF Spawning, Pending
  <2>3. CASE Spawning(w)
    <3>1. PICK v : v = req[w].text
      OBVIOUS
    <3>2. DueText(v) \in due /\ due' = due \ {DueText(v)}
      BY <1>1, <2>1, <2>2, <2>3, <3>1, DueLess
    <3>. QED BY <1>3, <3>2
  <2>4. CASE ~Spawning(w)
    BY <1>1, <2>1, <2>4, NoStep DEF Lifecycle!Lose
  <2>. QED BY <2>3, <2>4
<1>5. ASSUME NEW t \in tasks, GiveUp(t)
      PROVE  Lifecycle!Lose
  <2>1. PICK v : v = t.text
    OBVIOUS
  <2>2. Pending' = Pending \ {v} /\ v \in Pending
    BY <1>5, <2>1, PendingEnds DEF GiveUp, Pending
  <2>3. DueText(v) \in due /\ due' = due \ {DueText(v)}
    BY <1>1, <2>2, DueLess
  <2>. QED BY <1>3, <2>3
<1>6. ASSUME Crash PROVE Lifecycle!Lose
  <2>1. Pending' = {}
    BY <1>6 DEF Crash, Pending, Idle
  <2>2. due' = due \ due
    BY <2>1 DEF due
  <2>. QED BY <1>3, <2>2
<1>. QED BY <1>4, <1>5, <1>6

(* The author deletes one post, or is deleted with all of them.            *)
LEMMA DeletesWithdraw ==
  ASSUME TypeOK,
         (\E w \in Workers : DeletePost(w)) \/ (\E u \in Authors : DeleteUser(u))
  PROVE  \E S \in SUBSET PostIds : Lifecycle!Withdraw(S)
<1>1. PICK S : S \subseteq DOMAIN posts /\ posts' = DeletePosts(S)
  BY DEF DeletePost, DeleteUser, Owns
<1>2. DOMAIN posts' = DOMAIN posts \ S /\ \A p \in DOMAIN posts' : posts'[p] = posts[p]
  BY <1>1 DEF DeletePosts
<1>3. UNCHANGED <<texts, serial>> /\ Pending' = Pending
  <2>1. ASSUME NEW w \in Workers, DeletePost(w) PROVE Pending' = Pending
    <3>1. Idle.pc # "spawn" /\ req[w].pc # "spawn" /\ Goto(w, Idle) /\ UNCHANGED tasks
      BY <2>1 DEF DeletePost, Done, Idle
    <3>2. Pending' \subseteq Pending /\ Pending \subseteq Pending'
      BY <3>1, PendingGoto
    <3>. QED BY <3>2
  <2>2. ASSUME NEW u \in Authors, DeleteUser(u) PROVE Pending' = Pending
    BY <2>2 DEF DeleteUser, Pending
  <2>. QED BY <2>1, <2>2 DEF DeletePost, DeleteUser
<1>4. due' = due
  BY <1>3, DueKept
<1>5. S \in SUBSET PostIds /\ \A p \in S : stage[p] = "public"
  BY <1>1, PublicIds
<1>6. stage' = [p \in PostIds |-> IF p \in S THEN "gone" ELSE stage[p]]
  <2>1. \A p \in S : p <= serial
    BY <1>1, RowFields
  <2>. QED BY <1>1, <1>2, <1>3, <2>1 DEF stage
<1>7. shown' = [p \in PostIds |-> IF p \in S THEN Lifecycle!Blank ELSE shown[p]]
  <2>1. Lifecycle!Blank = Nothing
    BY DEF Lifecycle!Blank, Nothing
  <2>. QED BY <1>1, <1>2, <2>1 DEF shown, Nothing
<1>8. Len(texts)' = Len(texts)
  BY <1>3
<1>. QED BY <1>4, <1>5, <1>6, <1>7, <1>8 DEF Lifecycle!Withdraw

(* The steps nobody outside sees.                                          *)
LEMMA HiddenSteps ==
  ASSUME TypeOK,
         \/ \E w \in Workers : (\E r \in Request : Authorize(w, r)) \/ Spawn(w)
         \/ \E t \in tasks : GetSummary(t) \/ GetEmbedding(t)
         \/ UNCHANGED vars
  PROVE  UNCHANGED <<stage, shown, due, Len(texts)>>
<1>1. UNCHANGED <<posts, serial, texts>>
  BY DEF Authorize, Spawn, GetSummary, GetEmbedding, vars
<1>2. ASSUME NEW w \in Workers, NEW r \in Request, Authorize(w, r) PROVE Pending' = Pending
  <2>1. r.pc # "spawn" /\ req[w].pc # "spawn" /\ Goto(w, r) /\ UNCHANGED tasks
    BY <1>2 DEF Authorize, Idle
  <2>2. Pending' \subseteq Pending /\ Pending \subseteq Pending'
    BY <2>1, PendingGoto
  <2>. QED BY <2>2
<1>3. ASSUME NEW w \in Workers, Spawn(w) PROVE Pending' = Pending
  <2>1. \A x \in Workers : req'[x] = IF x = w THEN Idle ELSE req[x]
    BY <1>3 DEF Spawn, Done, Goto, TypeOK
  <2>2. /\ req[w].pc = "spawn"
        /\ tasks' = tasks \cup {[text |-> req[w].text, pc |-> "summary"]}
    BY <1>3 DEF Spawn
  <2>3. Pending' \subseteq Pending
    BY <2>1, <2>2 DEF Pending, Idle
  <2>4. ASSUME NEW x \in Pending PROVE x \in Pending'
    <3>1. CASE \E t \in tasks : x = t.text
      BY <2>2, <3>1 DEF Pending
    <3>2. CASE \E y \in Workers : req[y].pc = "spawn" /\ x = req[y].text
      <4>1. PICK y \in Workers : req[y].pc = "spawn" /\ x = req[y].text
        BY <3>2
      <4>2. CASE y = w
        <5>1. [text |-> x, pc |-> "summary"] \in tasks'
          BY <2>2, <4>1, <4>2
        <5>. QED BY <5>1 DEF Pending
      <4>3. CASE y # w
        BY <2>1, <4>1, <4>3 DEF Pending
      <4>. QED BY <4>2, <4>3
    <3>. QED BY <2>4, <3>1, <3>2 DEF Pending
  <2>. QED BY <2>3, <2>4
<1>4. ASSUME NEW t \in tasks, GetSummary(t) \/ GetEmbedding(t) PROVE Pending' = Pending
  <2>1. PICK n : Become(t, {n}) /\ n.text = t.text /\ UNCHANGED req
    BY <1>4 DEF GetSummary, GetEmbedding
  <2>2. t.text \in Pending
    BY DEF Pending
  <2>3. Pending' \subseteq Pending /\ Pending \subseteq Pending'
    BY <2>1, <2>2, PendingBecome
  <2>. QED BY <2>3
<1>5. ASSUME UNCHANGED vars PROVE Pending' = Pending
  BY <1>5 DEF vars, Pending
<1>6. Pending' = Pending
  BY <1>2, <1>3, <1>4, <1>5
<1>. QED BY <1>1, <1>6, NoStep

LEMMA StepOfLife ==
  TypeOK /\ OwnInv /\ OneEach /\ [Next]_vars => [Lifecycle!Next]_(Lifecycle!lifeVars)
<1>. SUFFICES ASSUME TypeOK, OwnInv, OneEach, [Next]_vars
              PROVE  Lifecycle!Next \/ UNCHANGED <<stage, shown, due, Len(texts)>>
  BY DEF Lifecycle!lifeVars
<1>1. ASSUME NEW w \in Workers, CreatePost(w) PROVE Lifecycle!Next
  BY <1>1, CreatePublishes DEF Lifecycle!Next
<1>2. ASSUME NEW w \in Workers, EditPost(w) PROVE Lifecycle!Next
  BY <1>2, EditRewrites DEF Lifecycle!Next
<1>3. ASSUME NEW t \in tasks, UpdateSummaryAndEmbedding(t) PROVE Lifecycle!Next
  BY <1>3, UpdateEnriches DEF Lifecycle!Next
<1>4. CASE \/ \E w \in Workers : Abort(w)
           \/ \E t \in tasks : GiveUp(t)
           \/ Crash
  BY <1>4, EndsLose DEF Lifecycle!Next
<1>5. CASE (\E w \in Workers : DeletePost(w)) \/ (\E u \in Authors : DeleteUser(u))
  BY <1>5, DeletesWithdraw DEF Lifecycle!Next
<1>6. CASE \/ \E w \in Workers : (\E r \in Request : Authorize(w, r)) \/ Spawn(w)
           \/ \E t \in tasks : GetSummary(t) \/ GetEmbedding(t)
           \/ UNCHANGED vars
  BY <1>6, HiddenSteps
<1>. QED BY <1>1, <1>2, <1>3, <1>4, <1>5, <1>6 DEF Next, Serve, Enrich

(* Whatever requests and tasks are interleaved, aborted, failing, late or  *)
(* killed with the process, a post is published, rewritten, enriched once  *)
(* per text at most, and withdrawn for good: no state of the handlers is   *)
(* outside the life PostLifecycle gives it.                                *)
THEOREM AlwaysImplementsPostLifecycle == Spec => ImplementsPostLifecycle
<1>1. Init => Lifecycle!Init
  <2>. SUFFICES ASSUME Init PROVE Lifecycle!Init
    OBVIOUS
  <2>1. DOMAIN posts = {} /\ serial = 0 /\ Len(texts) = 0 /\ Pending = {}
    BY DEF Init, Pending, Idle
  <2>2. \A p \in PostIds : ~ p <= serial
    BY <2>1, PostsAssumption DEF PostIds
  <2>3. stage = [p \in PostIds |-> "none"] /\ due = {}
    BY <2>1, <2>2 DEF stage, due
  <2>4. shown = [p \in PostIds |-> Lifecycle!Blank]
    BY <2>1 DEF shown, Nothing, Lifecycle!Blank
  <2>. QED BY <2>1, <2>3, <2>4 DEF Lifecycle!Init
<1>2. Spec => []TypeOK
  BY TypeCorrect
<1>3. Spec => []OwnInv
  BY OwnInit, OwnNext, TypeCorrect, PTL DEF Spec
<1>4. Spec => []OneEach
  BY OneEachInit, OneEachNext, TypeCorrect, PTL DEF Spec
<1>. QED BY <1>1, <1>2, <1>3, <1>4, StepOfLife, PTL
     DEF Spec, ImplementsPostLifecycle, Lifecycle!Spec

=============================================================================
