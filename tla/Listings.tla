------------------------------- MODULE Listings -------------------------------
(***************************************************************************)
(* Lists read page by page while their table is written: the comments of a *)
(* post (handler/comment.rs), the posts of an author (get_posts), the      *)
(* users (get_users), and the posts a search finds (handler/search.rs and  *)
(* the SQL function hybrid_search).                                        *)
(*                                                                         *)
(* A page is a SELECT with LIMIT and OFFSET, and a SELECT COUNT after it;  *)
(* nothing ties the two, or one page and the next, to one state of the     *)
(* table.  A behaviour has one client, which reads one list from one page  *)
(* on, and any number of writers.  A row is written by one statement; an   *)
(* INSERT stamps it with NOW(), the time it started, so that rows may      *)
(* become visible in another order than that of their stamps.              *)
(***************************************************************************)
EXTENDS Integers, FiniteSets

CONSTANTS
  Owners,      \* users who write rows
  Post,        \* the post the comments are about
  Names,       \* usernames
  Nobody,      \* no username: where a request gives none
  Limits,      \* values clients give for limit,
  Firsts,      \* for the first page they read
  Queries,     \* and for q, see Query
  Stock,       \* rows in the table when the client begins
  MaxRows,     \* bound on the rows ever inserted
  MaxEdits,    \* bound on the rows edited since they were inserted
  MaxInt,      \* the largest i32
  Scale        \* the 1.0 of a score, in units that make scores integers

RrfK == 50

Lists == {"comments", "posts", "users", "search"}
Ids == 1 .. MaxRows
Sources == {"en", "ko", "semantic"}

(* What a query finds: the place of each row in the order of each source,  *)
(* 0 where it does not match.  No two share a place: id breaks ties.       *)
Query ==
  {q \in [Sources -> [Ids -> Nat]] :
     \A s \in Sources, x, y \in Ids : q[s][x] = q[s][y] /\ q[s][x] # 0 => x = y}

NoQuery == [s \in Sources |-> [x \in Ids |-> 0]]

ASSUME ListingsAssumption ==
  /\ Post \notin Owners /\ Nobody \notin Names
  /\ Limits \subseteq Int /\ Firsts \subseteq Int
  /\ Queries \subseteq Query
  /\ MaxRows \in Nat /\ MaxEdits \in Nat /\ Stock \in 0 .. MaxRows
  /\ MaxInt \in Nat /\ Scale \in Nat
  /\ \A k \in Limits : MaxRows + k <= MaxInt

VARIABLES
  list,        \* which list is read
  ask,         \* the request, but for the page
  there,       \* users and posts that rows refer to and that exist
  name,        \* the usernames of the users, of the gone ones their last
  rows,        \* the table: id |-> row
  writing,     \* INSERTs that have their stamp and are not visible yet
  serial,      \* ids handed out
  now,         \* the clock of the database
  read,        \* what the client is in the middle of
  seen,        \* the rows it was shown,
  twice,       \* those it was shown on two pages,
  old,         \* those there were when it began,
  spoiled      \* and what happened since that moves rows between pages

tableVars == <<there, name, rows, writing, serial, now>>
historyVars == <<seen, twice, old, spoiled>>
vars == <<list, ask, tableVars, read, historyVars>>

-----------------------------------------------------------------------------
(* Requests and their validation: RequestQueryDto, PostsQueryParams,       *)
(* GetcommentsQuery; nothing but q is validated in GetSearchQuery.         *)
Valid_Unchecked(a) == TRUE
Valid(a) == list # "search" => a.limit >= 1 /\ a.first >= 1

(* sort is a parameter of comments, user_username of posts, q of searches. *)
Ask == [limit : Limits, first : Firsts, asc : BOOLEAN, user : Names \cup {Nobody},
        query : Queries \cup {NoQuery}]
Takes(a) ==
  /\ a.asc => list = "comments"
  /\ list = "posts" <=> a.user # Nobody
  /\ IF list = "search" THEN a.query \in Queries ELSE a.query = NoQuery

Read == [pc : {"page", "count", "answered", "notfound"},
         page : Int, shown : SUBSET Ids, total : Nat]

Row == [owner : Owners, created : 0 .. MaxRows, updated : 0 .. MaxRows]
Disturbances == {"before", "tied", "cut", "left"}
Insertion == [id : Ids, owner : Owners, created : 0 .. MaxRows]

(* The foreign keys of the tables: comment, post, users. *)
Refs(o) ==
  CASE list = "comments" -> {o, Post}
    [] list = "users" -> {}
    [] OTHER -> {o}

-----------------------------------------------------------------------------
(* The order and the extent of a list.                                     *)

(* (page - 1) * limit in i32, and in u32 for users.  A large page wraps. *)
Wrap(n) ==
  IF list = "users" THEN n % (2 * (MaxInt + 1))
  ELSE IF n \in -(MaxInt + 1) .. MaxInt THEN n
  ELSE ((n + MaxInt + 1) % (2 * (MaxInt + 1))) - (MaxInt + 1)
Offset_NoParens(p) == Wrap(p - ask.limit)
Offset(p) == Wrap((p - 1) * ask.limit)

Matches(s) == {x \in DOMAIN rows : ask.query[s][x] # 0}

(* WHERE; hybrid_search_count counts all that match, in any source. *)
IsOf(o) == list = "posts" => name[o] = ask.user
Found ==
  IF list = "search" THEN UNION {Matches(s) : s \in Sources}
  ELSE {x \in DOMAIN rows : IsOf(rows[x].owner)}

(* ROW_NUMBER() and what LIMIT (match_count + offset_count) * 2 leaves. *)
Rank(s, x) == Cardinality({y \in Matches(s) : ask.query[s][y] <= ask.query[s][x]})
Cut_Once(p) == ask.limit + Offset(p)
Cut(p) == (ask.limit + Offset(p)) * 2
Listed(s, p) == {x \in Matches(s) : Rank(s, x) <= Cut(p)}

Points(s, x, p) == IF x \in Listed(s, p) THEN Scale \div (RrfK + Rank(s, x)) ELSE 0
Score(x, p) == Points("en", x, p) + Points("ko", x, p) + Points("semantic", x, p)

(* The rows a page is cut from, and ORDER BY.  created_at has no           *)
(* tie-breaker.                                                            *)
Candidates(p) ==
  IF list = "search" THEN UNION {Listed(s, p) : s \in Sources} ELSE Found

Earlier(s, t) == IF ask.asc THEN s < t ELSE s > t

Precedes_Updated(x, y, p) == Earlier(rows[x].updated, rows[y].updated)
Precedes(x, y, p) ==
  IF list = "search"
  THEN Score(x, p) > Score(y, p) \/ (Score(x, p) = Score(y, p) /\ x < y)
  ELSE Earlier(rows[x].created, rows[y].created)

Ties == \E x, y \in Found : x # y /\ rows[x].created = rows[y].created

(* What the first n rows of the ordered result can be. *)
Least(n, S) == IF n < Cardinality(S) THEN n ELSE Cardinality(S)
FirstRows(n, p) ==
  {A \in SUBSET Candidates(p) :
     /\ Cardinality(A) = Least(n, Candidates(p))
     /\ \A x \in A, y \in Candidates(p) : Precedes(y, x, p) => y \in A}

(* (total as f64 / limit as f64).ceil() as i32, which saturates.  Users    *)
(* are answered the total only.                                            *)
TotalPages_Floor(total) ==
  IF ask.limit = 0 THEN IF total = 0 THEN 0 ELSE MaxInt ELSE total \div ask.limit
TotalPages(total) ==
  IF ask.limit = 0 THEN IF total = 0 THEN 0 ELSE MaxInt
  ELSE (total + ask.limit - 1) \div ask.limit

Init ==
  /\ list \in Lists
  /\ ask \in {a \in Ask : Takes(a) /\ Valid(a)}
  /\ there = Owners \cup {Post}
  /\ name \in {f \in [Owners -> Names] : \A o, p \in Owners : f[o] = f[p] => o = p}
  /\ \E o \in [1 .. Stock -> Owners] :
       rows = [x \in 1 .. Stock |-> [owner |-> o[x], created |-> x, updated |-> x]]
  /\ writing = {}
  /\ serial = Stock
  /\ now = Stock
  /\ read = [pc |-> "page", page |-> ask.first, shown |-> {}, total |-> 0]
  /\ seen = {} /\ twice = {} /\ old = {} /\ spoiled = {}

-----------------------------------------------------------------------------
(* Reading.                                                                *)

(* The first statement.  PostgreSQL refuses a negative LIMIT or OFFSET and *)
(* a sum beyond int; get_posts turns an empty page into RowNotFound.       *)
GetPage ==
  LET p == read.page IN
  /\ read.pc = "page"
  /\ ask.limit >= 0 /\ Offset(p) >= 0
  /\ list = "search" => Cut(p) <= MaxInt
  /\ \E A \in FirstRows(Offset(p), p), B \in FirstRows(Offset(p) + ask.limit, p) :
       /\ A \subseteq B
       /\ read' = [read EXCEPT !.shown = B \ A,
            !.pc = IF list = "posts" /\ B \subseteq A THEN "notfound" ELSE "count"]
  /\ IF p = ask.first
     THEN /\ old' = Found
          /\ spoiled' =
               (IF list # "search" /\ Ties THEN {"tied"} ELSE {})
               \cup (IF list = "search" /\ \E s \in Sources : Matches(s) # Listed(s, p)
                     THEN {"cut"} ELSE {})
     ELSE UNCHANGED <<old, spoiled>>
  /\ UNCHANGED <<list, ask, tableVars, seen, twice>>

(* The second statement, and the answer. *)
GetCount ==
  /\ read.pc = "count"
  /\ read' = [read EXCEPT !.pc = "answered", !.total = Cardinality(Found)]
  /\ seen' = seen \cup read.shown
  /\ twice' = twice \cup (seen \cap read.shown)
  /\ UNCHANGED <<list, ask, tableVars, old, spoiled>>

(* The count fails: an error instead of the page; the client asks again. *)
Fail ==
  /\ read.pc = "count"
  /\ read' = [read EXCEPT !.pc = "page", !.shown = {}]
  /\ UNCHANGED <<list, ask, tableVars, historyVars>>

(* A client that began at the first page goes on to the last. *)
HasNext == read.page < TotalPages(read.total)
Turns == ask.first = 1 /\ ask.limit >= 1
TurnPage ==
  /\ read.pc = "answered" /\ Turns /\ HasNext
  /\ read' = [read EXCEPT !.pc = "page", !.page = @ + 1, !.shown = {}]
  /\ UNCHANGED <<list, ask, tableVars, historyVars>>

-----------------------------------------------------------------------------
(* Writing.                                                                *)

(* What disturbs the reading. *)
Spoil(E) == spoiled' = spoiled \cup E
When(b, e) == IF b THEN {e} ELSE {}

(* create_comment, create_post, save_user: the INSERT starts, later than   *)
(* all before it or in the same moment as one still under way,             *)
BeginInsert(o) ==
  /\ serial < MaxRows
  /\ serial' = serial + 1
  /\ now' = now + 1 \/ (now' = now /\ \E w \in writing : w.created = now)
  /\ writing' = writing \cup {[id |-> serial + 1, owner |-> o, created |-> now']}
  /\ UNCHANGED <<list, ask, there, name, rows, read, historyVars>>

(* and becomes visible, if the rows it refers to are there.  One that      *)
(* fails stays in writing.                                                 *)
HasHome_Unchecked(o) == TRUE
HasHome(o) == Refs(o) \subseteq there
CommitInsert(w) ==
  /\ HasHome(w.owner)
  /\ rows' = [x \in DOMAIN rows \cup {w.id} |->
               IF x = w.id
               THEN [owner |-> w.owner, created |-> w.created, updated |-> w.created]
               ELSE rows[x]]
  /\ writing' = writing \ {w}
  /\ Spoil(When(IsOf(w.owner) /\ \E x \in Found : Earlier(w.created, rows[x].created),
                 "before")
       \cup When(IsOf(w.owner) /\ \E x \in Found : w.created = rows[x].created, "tied"))
  /\ UNCHANGED <<list, ask, there, name, serial, now, read, seen, twice, old>>

(* edit_comment, edit_post, the UPDATEs of users: WHERE id and user_id.    *)
(* Of what a list goes by, they change updated_at, and the username.       *)
Edited == {x \in DOMAIN rows : rows[x].updated # rows[x].created}
Update(u, x) ==
  /\ rows[x].owner = u
  /\ Cardinality(Edited \ {x}) < MaxEdits
  /\ rows' = [rows EXCEPT ![x].updated = now]
  /\ UNCHANGED <<list, ask, there, name, writing, serial, now, read, historyVars>>

(* update_user_name, where lists go by it: username is UNIQUE, so that the *)
(* name a user gives up is another's to take, or its own again.            *)
Rename(o, n) ==
  /\ list = "posts" /\ o \in there
  /\ \A p \in Owners \cap there : name[p] # n
  /\ name' = [name EXCEPT ![o] = n]
  /\ UNCHANGED <<list, ask, there, rows, writing, serial, now, read, seen, twice, old>>
  /\ Spoil(When(Found \ Found' # {}, "left") \cup When(Found' \ Found # {}, "before")
           \cup When(Ties', "tied"))

Remove(S) ==
  /\ rows' = [x \in DOMAIN rows \ S |-> rows[x]]
  /\ Spoil(When(S \cap Found # {}, "left"))

(* delete_comment, delete_post, delete_user. *)
Delete(u, x) ==
  /\ rows[x].owner = u
  /\ Remove({x})
  /\ UNCHANGED <<list, ask, there, name, writing, serial, now, read, seen, twice, old>>

(* A user or the post is deleted, and ON DELETE CASCADE what refers to it. *)
Drop(h) ==
  /\ h \in there
  /\ list # "users" /\ (h = Post => list = "comments")
  /\ there' = there \ {h}
  /\ Remove({x \in DOMAIN rows : h \in Refs(rows[x].owner)})
  /\ UNCHANGED <<list, ask, name, writing, serial, now, read, seen, twice, old>>

Client == GetPage \/ GetCount \/ Fail \/ TurnPage

Writers ==
  \/ \E o \in Owners : BeginInsert(o)
  \/ \E w \in writing : CommitInsert(w)
  \/ \E u \in Owners, x \in DOMAIN rows : Update(u, x) \/ Delete(u, x)
  \/ \E o \in Owners, n \in Names : Rename(o, n)
  \/ \E h \in Owners \cup {Post} : Drop(h)

(* A bound: writers are followed while the reading goes on, and searches   *)
(* are read from posts at rest; of one whose posts change, nothing is said.*)
Begun == read.pc # "page" \/ read.page # ask.first
Over == read.pc = "notfound" \/ (read.pc = "answered" /\ ~(Turns /\ HasNext))

Next == Client \/ (list # "search" /\ Begun /\ ~Over /\ Writers)

Spec == Init /\ [][Next]_vars

-----------------------------------------------------------------------------
(* Properties.                                                             *)

(* Every variable stays in its set, ids are below the sequence, and a      *)
(* limit and a page below 1 get past the validation in a search only.      *)
TypeOK ==
  /\ list \in Lists
  /\ ask \in Ask /\ (list # "search" => ask.limit >= 1 /\ ask.first >= 1)
  /\ there \subseteq Owners \cup {Post}
  /\ name \in [Owners -> Names]
  /\ \A o, p \in Owners \cap there : name[o] = name[p] => o = p
  /\ serial \in 0 .. MaxRows /\ now \in 0 .. serial
  /\ DOMAIN rows \subseteq 1 .. serial /\ rows \in [DOMAIN rows -> Row]
  /\ writing \subseteq Insertion
  /\ \A w \in writing : w.id \in 1 .. serial \ DOMAIN rows
  /\ \A v, w \in writing : v.id = w.id => v = w
  /\ read \in Read
  /\ seen \subseteq Ids /\ twice \subseteq Ids /\ old \subseteq Ids
  /\ spoiled \subseteq Disturbances

(* No comment outlives its post or its author and no post its author, even *)
(* one whose INSERT was under way when they were deleted.                  *)
RowsHaveHome == \A x \in DOMAIN rows : Refs(rows[x].owner) \subseteq there

(* A client that turns the pages of a list is shown no row twice, unless a *)
(* row became visible before others of the list, a user took the name the  *)
(* list goes by, two stamps are equal or a search was cut: deletions,      *)
(* edits, retries, a name given up, and comments that arrive in order      *)
(* while the oldest are read first, do no harm.                            *)
NothingTwice ==
  spoiled \cap {"before", "tied", "cut"} = {} => twice = {}

(* A client that has come to the last page, as counted after that page was *)
(* read, was shown every row there was when it began, unless a row was     *)
(* deleted, the author gave up the name, two stamps are equal or a search  *)
(* was cut; insertions, even between a page and its count, do no harm.     *)
AtEnd ==
  /\ Turns
  /\ read.pc \in {"answered", "notfound"}
  /\ read.pc = "answered" => ~HasNext
NothingSkipped ==
  AtEnd /\ spoiled \cap {"left", "tied", "cut"} = {} => old \subseteq seen

(* A page that begins beyond the total it is answered with is empty, as    *)
(* long as its offset fits an i32, nothing was deleted and the author kept *)
(* the name.                                                               *)
NothingPastTheEnd ==
  /\ read.pc = "answered" /\ "left" \notin spoiled
  /\ (read.page - 1) * ask.limit \in read.total .. MaxInt
  => read.shown = {}

(* The migration says of hybrid_search_count that it is for "pagination    *)
(* metadata": a client that turns all those pages of a search, while no    *)
(* post changes, is shown every post that was counted.                     *)
SearchShowsAll ==
  list = "search" /\ AtEnd /\ spoiled \subseteq {"cut"} => old \subseteq seen

(* What the factor 2 in hybrid_search is good for: a search that finds at  *)
(* most twice the posts of a page has one order for all its pages, so that *)
(* turning them shows every post that was found, and none twice.           *)
ShortSearchesShowAll ==
  list = "search" /\ AtEnd /\ Cardinality(old) <= 2 * ask.limit =>
    old \subseteq seen /\ twice = {}

=============================================================================
