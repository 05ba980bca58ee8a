-------------------------------- MODULE Posts --------------------------------
(***************************************************************************)
(* Posts and their enrichment (handler/post.rs, db/post.rs, http.rs,       *)
(* grpc.rs): creating or editing a post stores its text at once and spawns *)
(* a task that asks two services for a summary and an embedding of that    *)
(* text and writes both into the post by a later UPDATE.  Nothing orders   *)
(* the tasks of one post, and nothing restarts one that failed or died     *)
(* with the process.                                                       *)
(*                                                                         *)
(* One action is one SQL statement or service call with the code up to the *)
(* next await.  A text is the number of the request that submitted it; the *)
(* summary and the embedding made from a text are named by the same number.*)
(***************************************************************************)
EXTENDS Integers, Sequences, FiniteSets

CONSTANTS
  Authors,     \* the users with the role admin; no route changes a role
  Workers,     \* requests served at the same time
  MaxPosts,    \* bound on the posts ever created
  MaxTexts     \* bound on the texts ever submitted

ASSUME PostsAssumption == MaxPosts \in Nat /\ MaxTexts \in Nat

VARIABLES
  users,       \* the authors whose row in the table users exists
  posts,       \* the table post: id |-> row
  serial,      \* the sequence behind the SERIAL column id
  texts,       \* the texts submitted so far, in order
  tasks,       \* the enrichment tasks that are running
  req,         \* what each worker is in the middle of
  lost,        \* history: the texts whose enrichment failed or was cut off
  raced        \* history: the texts submitted while an older one of the same
               \* post and language was still being enriched

vars == <<users, posts, serial, texts, tasks, req, lost, raced>>

-----------------------------------------------------------------------------
(* Data.                                                                   *)

(* Lang: which columns a request writes, and what the summary is written   *)
(* in.                                                                     *)
Langs == {"en", "ko"}

(* The summary "" and the embedding of zeros of a new post. *)
Placeholder == 0

Texts == 1 .. Len(texts)
NewText == Len(texts) + 1

(* The post a text was submitted for, and the language its task works in.  *)
TextInfo == [post : 1 .. MaxPosts, lang : Langs]

(* first is the text the row was created with (history). *)
Row == [owner : Authors,
        first : Texts,
        text : [Langs -> Texts],
        summary : [Langs -> {Placeholder} \cup Texts],
        embedding : {Placeholder} \cup Texts]

Task == [text : Texts, pc : {"summary"}]
        \cup [text : Texts, pc : {"embedding"}, summarized : BOOLEAN]
        \cup [text : Texts, pc : {"update"}]

Idle == [pc |-> "idle"]

Request ==
  {Idle}
  \cup [pc : {"create"}, user : Authors, lang : Langs]
  \cup [pc : {"edit"}, user : Authors, lang : Langs, post : 1 .. MaxPosts]
  \cup [pc : {"delete"}, user : Authors, post : 1 .. MaxPosts]
  \cup [pc : {"spawn"}, text : Texts]

Init ==
  /\ users = Authors
  /\ posts = [p \in {} |-> {}]
  /\ serial = 0
  /\ texts = <<>>
  /\ tasks = {}
  /\ req = [w \in Workers |-> Idle]
  /\ lost = {}
  /\ raced = {}

(* Texts stored in their post whose enrichment has not come to an end. *)
Pending ==
  {t.text : t \in tasks}
  \cup {req[w].text : w \in {x \in Workers : req[x].pc = "spawn"}}

Submitted(p, l) == [post |-> p, lang |-> l]

-----------------------------------------------------------------------------
(* The statements of db/post.rs.                                           *)

(* DEFAULT nextval(..): an id is never handed out twice. *)
NextPostId_Reused ==
  CHOOSE p \in 1 .. MaxPosts + 1 :
    p \notin DOMAIN posts /\ \A q \in 1 .. MaxPosts : q < p => q \in DOMAIN posts
NextPostId == serial + 1

(* create_post: one text for the columns of both languages. *)
NewRow_OneLanguage(u, v, l) ==
  [owner |-> u, first |-> v, text |-> [x \in {l} |-> v],
   summary |-> [x \in Langs |-> Placeholder], embedding |-> Placeholder]
NewRow(u, v, l) ==
  [owner |-> u, first |-> v, text |-> [x \in Langs |-> v],
   summary |-> [x \in Langs |-> Placeholder], embedding |-> Placeholder]

(* edit_post: the columns of one language; summary and embedding stay. *)
SetText(p, l, v) == [posts EXCEPT ![p].text[l] = v]

(* update_post_summary_and_embedding: by id only, whatever the post says   *)
(* by now; the embedding is the same column for both languages, and a post *)
(* that is gone is no error.                                               *)
SetEnrichment_FirstEmbedding(v) ==
  [p \in DOMAIN posts |->
    IF p = texts[v].post
    THEN [posts[p] EXCEPT !.summary[texts[v].lang] = v,
                          !.embedding = IF @ = Placeholder THEN v ELSE @]
    ELSE posts[p]]
SetEnrichment_English(v) ==
  [p \in DOMAIN posts |->
    IF p = texts[v].post
    THEN [posts[p] EXCEPT !.summary["en"] = v, !.embedding = v]
    ELSE posts[p]]
SetEnrichment(v) ==
  [p \in DOMAIN posts |->
    IF p = texts[v].post
    THEN [posts[p] EXCEPT !.summary[texts[v].lang] = v, !.embedding = v]
    ELSE posts[p]]

(* DELETE FROM post, and what is left of post when S is deleted from users.*)
DeletePosts(P) == [p \in DOMAIN posts \ P |-> posts[p]]

(* WHERE id = .. AND user_id = .. *)
Owns(u, p) == p \in DOMAIN posts /\ posts[p].owner = u

-----------------------------------------------------------------------------
(* Requests.                                                               *)

Goto(w, r) == req' = [req EXCEPT ![w] = r]
Done(w) == Goto(w, Idle)

(* The middlewares auth and role_check read the row of the user; what the  *)
(* handler does with it comes later.  Clients may name any id handed out;  *)
(* they start nothing the bounds would keep from being stored.             *)
Authorize(w, r) ==
  /\ req[w] = Idle
  /\ r.pc \in {"create", "edit", "delete"} /\ r.user \in users
  /\ r.pc \in {"edit", "delete"} => r.post \in 1 .. serial
  /\ r.pc \in {"create", "edit"} => NewText <= MaxTexts
  /\ r.pc = "create" => serial < MaxPosts
  /\ Goto(w, r)
  /\ UNCHANGED <<users, posts, serial, texts, tasks, lost, raced>>

(* create_post: INSERT; the foreign key wants the user to be there still. *)
CreatePost(w) ==
  LET r == req[w] IN
  /\ r.pc = "create"
  /\ r.user \in users
  /\ NewText <= MaxTexts /\ serial < MaxPosts
  /\ texts' = Append(texts, Submitted(NextPostId, r.lang))
  /\ posts' = [p \in DOMAIN posts \cup {NextPostId} |->
                IF p = NextPostId THEN NewRow(r.user, NewText, r.lang) ELSE posts[p]]
  /\ serial' = serial + 1
  /\ Goto(w, [pc |-> "spawn", text |-> NewText])
  /\ UNCHANGED <<users, tasks, lost, raced>>

(* edit_post: UPDATE .. WHERE id AND user_id. *)
EditPost(w) ==
  LET r == req[w] IN
  /\ r.pc = "edit"
  /\ Owns(r.user, r.post)
  /\ NewText <= MaxTexts
  /\ texts' = Append(texts, Submitted(r.post, r.lang))
  /\ posts' = SetText(r.post, r.lang, NewText)
  /\ raced' = IF \E v \in Pending : texts[v] = Submitted(r.post, r.lang)
              THEN raced \cup {NewText} ELSE raced
  /\ Goto(w, [pc |-> "spawn", text |-> NewText])
  /\ UNCHANGED <<users, serial, tasks, lost>>

(* The rest of both handlers: tokio::spawn, then the answer. *)
Spawn(w) ==
  /\ req[w].pc = "spawn"
  /\ tasks' = tasks \cup {[text |-> req[w].text, pc |-> "summary"]}
  /\ Done(w)
  /\ UNCHANGED <<users, posts, serial, texts, lost, raced>>

(* delete_post. *)
DeletePost(w) ==
  LET r == req[w] IN
  /\ r.pc = "delete"
  /\ Owns(r.user, r.post)
  /\ posts' = DeletePosts({r.post})
  /\ Done(w)
  /\ UNCHANGED <<users, serial, texts, tasks, lost, raced>>

(* A request ends at an await: its statement fails or matches no row, or   *)
(* the client is gone, maybe after the text was stored.                    *)
Abort(w) ==
  /\ req[w] # Idle
  /\ Done(w)
  /\ lost' = lost \cup (IF req[w].pc = "spawn" THEN {req[w].text} ELSE {})
  /\ UNCHANGED <<users, posts, serial, texts, tasks, raced>>

-----------------------------------------------------------------------------
(* The tasks.                                                              *)

Become_Repeats(t, new) == tasks' = tasks \cup new
Become(t, new) == tasks' = (tasks \ {t}) \cup new

(* get_summary: Ok or Err, the task goes on to the other service. *)
GetSummary(t) ==
  /\ t.pc = "summary"
  /\ \E ok \in BOOLEAN :
       Become(t, {[text |-> t.text, pc |-> "embedding", summarized |-> ok]})
  /\ UNCHANGED <<users, posts, serial, texts, req, lost, raced>>

(* get_embedding_docs: only when both are Ok is there an UPDATE. *)
GetEmbedding(t) ==
  /\ t.pc = "embedding" /\ t.summarized
  /\ Become(t, {[text |-> t.text, pc |-> "update"]})
  /\ UNCHANGED <<users, posts, serial, texts, req, lost, raced>>

UpdateSummaryAndEmbedding(t) ==
  /\ t.pc = "update"
  /\ posts' = SetEnrichment(t.text)
  /\ Become(t, {})
  /\ UNCHANGED <<users, serial, texts, req, lost, raced>>

(* One of the services failed, or the UPDATE did; an error in the log. *)
GiveUp(t) ==
  /\ t.pc \in {"embedding", "update"}
  /\ Become(t, {})
  /\ lost' = lost \cup {t.text}
  /\ UNCHANGED <<users, posts, serial, texts, req, raced>>

-----------------------------------------------------------------------------

(* The process stops and starts again: tasks and requests are gone. *)
Crash ==
  /\ tasks # {} \/ \E w \in Workers : req[w] # Idle
  /\ tasks' = {}
  /\ req' = [w \in Workers |-> Idle]
  /\ lost' = lost \cup Pending
  /\ UNCHANGED <<users, posts, serial, texts, raced>>

(* An account is deleted (Accounts), and ON DELETE CASCADE its posts. *)
DeleteUser(u) ==
  /\ u \in users
  /\ users' = users \ {u}
  /\ posts' = DeletePosts({p \in DOMAIN posts : posts[p].owner = u})
  /\ UNCHANGED <<serial, texts, tasks, req, lost, raced>>

Serve(w) ==
  \/ \E r \in Request : Authorize(w, r)
  \/ CreatePost(w)
  \/ EditPost(w)
  \/ Spawn(w)
  \/ DeletePost(w)
  \/ Abort(w)

Enrich(t) ==
  GetSummary(t) \/ GetEmbedding(t) \/ UpdateSummaryAndEmbedding(t) \/ GiveUp(t)

Next ==
  \/ \E w \in Workers : Serve(w)
  \/ \E t \in tasks : Enrich(t)
  \/ \E u \in Authors : DeleteUser(u)
  \/ Crash

Spec == Init /\ [][Next]_vars

-----------------------------------------------------------------------------
(* Properties.                                                             *)

(* Every variable stays in its set; a row has a text in both languages.    *)
TypeOK ==
  /\ users \subseteq Authors
  /\ serial \in 0 .. MaxPosts
  /\ DOMAIN posts \subseteq 1 .. serial
  /\ texts \in Seq(TextInfo) /\ Len(texts) <= MaxTexts
  /\ posts \in [DOMAIN posts -> Row]
  /\ tasks \subseteq Task
  /\ req \in [Workers -> Request]
  /\ lost \subseteq Texts
  /\ raced \subseteq Texts

(* What a post shows was submitted for that very post, and its summary for *)
(* that language: a task writes by id long after the request, when the     *)
(* post may have been deleted and others created.                          *)
OwnText(p, v) == texts[v].post = p /\ v >= posts[p].first

EnrichmentFromOwnText ==
  \A p \in DOMAIN posts :
    /\ \A l \in Langs :
         /\ OwnText(p, posts[p].text[l])
         /\ posts[p].summary[l] # Placeholder =>
              /\ OwnText(p, posts[p].summary[l])
              /\ texts[posts[p].summary[l]].lang = l
    /\ posts[p].embedding # Placeholder => OwnText(p, posts[p].embedding)

(* The one embedding of a post was made from a text whose summary the post *)
(* still shows: however the tasks of two texts and two languages overtake  *)
(* each other, search finds the post by something it displays.             *)
EmbeddingHasSummary ==
  \A p \in DOMAIN posts :
    posts[p].embedding # Placeholder =>
      \E l \in Langs : posts[p].summary[l] = posts[p].embedding

(* A summary is stale only for a reason: when the text of a post, in the   *)
(* language it was submitted in, is neither being enriched, nor lost, nor  *)
(* was submitted while an older one was being enriched, the summary shown  *)
(* is the one of that text.                                                *)
SettledIsFresh ==
  \A p \in DOMAIN posts, l \in Langs :
    LET v == posts[p].text[l] IN
      texts[v].lang = l /\ v \notin Pending \cup lost \cup raced =>
        posts[p].summary[l] = v

(* models.rs says raw_text is "used for full-text search, semantic         *)
(* embedding, summary".  Read when no enrichment is running and none was   *)
(* lost: the summary is the one of the text, in the language the text was  *)
(* submitted in.                                                           *)
SummaryOfRawText ==
  Pending = {} /\ lost = {} =>
    \A p \in DOMAIN posts, l \in Langs :
      texts[posts[p].text[l]].lang = l =>
        posts[p].summary[l] = posts[p].text[l]

-----------------------------------------------------------------------------
(* What the handlers and their tasks implement: PostLifecycle.             *)

PostIds == 1 .. MaxPosts

stage ==
  [p \in PostIds |->
    IF p \in DOMAIN posts THEN "public" ELSE IF p <= serial THEN "gone" ELSE "none"]

Nothing ==
  [text |-> [l \in Langs |-> 0], summary |-> [l \in Langs |-> 0], embedding |-> 0]

shown ==
  [p \in PostIds |->
    IF p \in DOMAIN posts
    THEN [text |-> posts[p].text, summary |-> posts[p].summary,
          embedding |-> posts[p].embedding]
    ELSE Nothing]

DueText(v) == [post |-> texts[v].post, lang |-> texts[v].lang, text |-> v]

due == {DueText(v) : v \in Pending}

Lifecycle == INSTANCE PostLifecycle WITH Ids <- PostIds, last <- Len(texts)

(* Seen from outside, the steps of a request, of its task and of the two   *)
(* service calls are one enrichment or none: whatever is aborted, fails,   *)
(* crashes or comes late, no text is enriched twice and none elsewhere.    *)
ImplementsPostLifecycle == Lifecycle!Spec

=============================================================================
