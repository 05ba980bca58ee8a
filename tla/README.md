# The blog service in TLA+

A verification project for the Rust/Axum blog backend in `src/`: TLA+ modules
translated from its source, TLC instances that check them, and theorems about
them checked by TLAPS. Paths below are relative to `src/src/`.

## The system

One stateless server process (axum on tokio) between clients and five services:
PostgreSQL, Redis, an SMTP relay, an LLM server (HTTP) and an embedding server
(gRPC). A request handler is an async function: it runs up to an await, waits
for one statement or call, and goes on. Many requests run at once, and a request
may end at any await (an error, a client that hung up, the process stopping).
No transaction spans two SQL statements and nothing is shared between handlers
but the stores, so **the unit of atomicity everywhere is one SQL statement or
one Redis command (or MULTI)**. That is what an action of these modules is; where
the code looks at the clock after the answer of a statement (the stamps of tokens),
that is an action of its own.

| Component | State it keeps | Operations | What makes it correct |
| --- | --- | --- | --- |
| Accounts (`handler/auth.rs`, `handler/users.rs`, `db/user.rs`) | table `users`: e-mail, username, password, `verified`, one slot for a token and its expiry | register, verify, forgot/reset password, change username, e-mail and password, delete-me | a link acts once, on the account it was made for; verified accounts followed a link; an unverified one is never stuck; passwords change only with proof |
| Clean-up job (`db/scheduler.rs`) | none | a daily DELETE of unverified rows with an expired token | removes exactly the dead registrations, and all of them in the end |
| Mail (`mail/`) | none | build and send a mail | what handlers announce was sent |
| Login limiter (`handler/auth.rs` `login`, `redisdb.rs`) | two counters in Redis with times to live | read both, try the password, count or clear | limits are overrun by a bounded amount; lockouts end; the counter of an address covers those of its accounts |
| Sessions (`utils/token.rs`, `redisdb.rs`, `middleware.rs`, login/refresh/logout) | signed tokens at the clients, one refresh token per user in Redis | login, refresh, logout, password change | when a session ends, access drains: only a refresh that saw it still makes a token; a password change ends the sessions of the old one |
| Posts (`handler/post.rs`, `db/post.rs`, `http.rs`, `grpc.rs`) | table `post`, spawned tasks | create, edit, delete; tasks for summary and embedding | what a post shows was made from its text |
| Comments (`handler/comment.rs`, `db/comment.rs`) | table `comment` | create, edit, delete, list by pages | no orphan; a reader of all pages sees every comment, and once |
| Newsletter (`handler/newsletter.rs`, `db/newsletter.rs`) | table of addresses | subscribe, unsubscribe | one row per address |
| Lists (`get_posts`, `get_users`, `handler/search.rs`, SQL `hybrid_search`) | none | pages and a count | pages neither overlap nor skip; none lies beyond the end |
| Start-up, routing, errors, DTOs, tracing | none | wiring | - |

They interact through the tables and Redis only: deleting an account (by its
owner or by the clean-up) cascades to its posts and comments, and leaves its
session key in Redis; a password change writes `users` and deletes the key; a
password reset only writes `users`; a login reads `users`, runs between the two
halves of the limiter, and stores the key; a post's tasks outlive the request
that spawned them and may outlive the post.

What is hard here: a row read before an await and written after it; two
statements of which only the first takes effect; one token column shared by
three purposes; tokens checked for expiry in one statement and consumed in
another; the clean-up between the two; spawned tasks without an order; counters
read and written apart; a value compared with Redis or the table and used after it
changed there; a list read by OFFSET, page after page, while its rows come and go and
the name it is found by changes hands. `PROJECT.json` lists each at its line.

## Modules

- **Accounts** - the core. `rows` is the table `users`; a token is the number
  of its generation, `issued` holds who it was made for, what for and the address
  its link was mailed to; `expired` and `delivered` say which tokens' time is over
  and which mails arrived; `redeemed` is history. `req[w]` is what the handler
  running in worker `w` carries across its next await. Each operator `SaveUser`,
  `StoreToken`, `SpendToken`, `SetEmail`, `SetName`, `SetPassword`, `DeleteRows`
  is one statement of `db/user.rs` as the table it leaves; each action is one
  statement of a handler with its straight-line code. `SpendToken` writes by
  token and `SetEmail`, `SetPassword` by id, as in the code. The middleware's SELECT
  is merged into the request's first statement: in these handlers its row is used
  for the id and, in `delete_me`, for the password comparison of that same step.
  `Verifies` is that comparison and the one of `update_user_password`; what was compared
  is carried to the write in `old`, which no code looks at again. A wrong password is
  answered with an error and changes nothing.
- **AccountLifecycle** - the abstract specification: the life of one account
  (none, pending, active, gone) and its single live link. Accounts implements it
  under the refinement mapping at the end of `Accounts.tla`.
- **AccountReplies** - Accounts with the answers of the handlers that mail links.
- **MCAccounts** - instances for TLC.
- **AccountsProofs** - theorems about Accounts.
- **LoginLimiter**, **MCLoginLimiter**, **LoginLimiterProofs** - the counters
  `login_fail_ip` and `login_fail_identifier_ip`, their times to live in ticks, and
  the steps of `login` around the password check, which is its outcome only.
- **Sessions**, **MCSessions** - Redis keys `refresh:{user}` with their end, the
  tokens clients hold, the steps of login, refresh, logout, change and reset. A login
  reads the row (`Login`), compares and stamps both tokens (`MintTokens`), and stores one
  (`SaveRefresh`); a refresh decodes (`Refresh`), is answered by Redis (`Lookup`), and
  stamps the access token (`MintAccess`), with any steps of others and any number of
  seconds between them. A token is `[sub, iat, exp]` as in `TokenClaims`, so equal claims
  are equal tokens. The password of an account is the number of its changes. `excused`
  is the history variable a property is stated with.
- **SessionLifecycle** - the abstract specification of sessions: each user's session
  has some seconds left, a login opens it, and while it runs it gives out tickets, each
  good for one grant of access, also after the session has ended. In the mapping at the
  end of `Sessions.tla` the seconds left are those until the end of the key, a ticket is
  a request between `Lookup` and `MintAccess`, and the seconds of the access tokens at
  the clients are the grants.
- **SessionsProofs**, **PostsProofs** - theorems about Sessions, its refinement of
  SessionLifecycle included, and about Posts.
- **SessionRevocation** - Sessions with a record of what was revoked.
- **AccountLifecycleProofs** - the refinement of AccountLifecycle by Accounts.
- **Listings**, **MCListings** - one list (comments of a post, posts of an author,
  users, or a search) read by a client page by page, and its writers. `GetPage` is
  the SELECT with LIMIT and OFFSET of the page, `GetCount` the SELECT COUNT after it and
  the answer, `Fail` an error of the second, `TurnPage` the client that follows
  `totalPages`. An INSERT is two steps, its start, where NOW() stamps the row and the
  sequence gives it an id, and its commit, where it becomes visible and its foreign
  keys are checked; so stamps and visibility may disagree. Posts are found by the
  username of their author (`IsOf`), which `Rename` changes: the name is UNIQUE, and once
  given up another user may take it. `Wrap` is the 32-bit
  arithmetic of the offset, `FirstRows` what the first rows of an ORDER BY without a
  tie-breaker can be. A query is the place of each post in each of the three sources of
  `hybrid_search`; `Rank`, `Cut`, `Listed`, `Score` are the SQL around it, with scores as
  integers in units of `Scale`, a multiple of 51, 52, 53, 54 and 55 so that those of the
  bounds are exact. `seen`, `twice`, `old` and `spoiled` are history: what the
  client was shown, and what happened that moves rows between pages.
- **ListingsProofs** - theorems about Listings.
- **Posts**, **MCPosts** - the table `post`, the spawned tasks as a set of
  records that move through their two service calls to the UPDATE, and crashes that
  drop them. A text is the number of its submission and the summary and embedding made
  from it carry the same number; `lost`, `raced` and the `first` text of a row are
  history.
- **PostLifecycle**, **PostLifecycleProofs** - the abstract specification of posts and
  the proof that Posts implements it: a post is published, rewritten, gone; a text due
  for enrichment is enriched, or lost, once. In the mapping at the end of `Posts.tla` the
  texts that have a task, or a request that will spawn one, are due; a post that is gone
  shows nothing.

Definitions whose name is another's with a suffix (`SpendToken_AllRows`) are
deliberately wrong variants; each property is shown to notice at least one of them.

## Runs

Times are with two workers. Every bound is a CONSTANT of the cfg.

| Run | Shows |
| --- | --- |
| `accounts_tokens` | Over two accounts, two addresses, two passwords, two simultaneous requests and three links: lookups are unambiguous (`LookupUnambiguous`), a link acts on its account (`LinksMatchAccounts`), an unverified row has a link (`UnverifiedHasToken`), a verified one has followed one (`VerifiedWitness`), an address was registered or reached by a change link (`EmailProvenance`), resets are mailed to such addresses (`ResetLinksGoHome`), a row is verified at its present address unless a change link of its own was redeemed (`UnconfirmedOnlyByChange`), a link that was spent or overwritten gets into no slot again and lives on only in the requests that had found it before, which none joins (`DeadLinksDrain`), and a reset changes the password of its account (`PasswordChangeJustified`). About 200 s. |
| `accounts_cleanup` | With one account, two passwords and every endpoint but renaming: `TypeOK`; `OutdatedByOthers`, that the password a deletion or a change compared is another at its write only because another request for the account changed it in between; `DeadRegistrationsEnd`, the liveness of the clean-up; and `ImplementsLifecycle`, that Accounts implements AccountLifecycle. About 120 s. |
| `accounts_verified` | **Violated:** `VerifiedMeansEmailVerified`. An e-mail change redeems its link in one statement and writes the address in another; if only the first takes effect, an account whose own address was never confirmed is verified. |
| `reset_announced` | **Violated:** `AnnouncedLinkWasSent`. `send_email` answers Ok when the relay refuses the mail. |
| `limiter` | Three simultaneous logins, limits 3 and 2: `TypeOK`, `OvershootBounded`, `IpCoversPairs`; `LockoutsDrain`, that only a request admitted before a lockout prolongs it, each once; and `LockoutEnds` under weak fairness of time. About 20 s. |
| `limiter_race` | **Violated:** `FailuresWithinLimit`, with the code's limits 100 and 10 and two requests. |
| `sessions` | One user, two requests, tokens that live 1 and 2 seconds, leeway 1, time up to 4, two password changes: `TypeOK`; `AccessDrains`, that without a key in Redis an access token is made only by a refresh that saw the key before, one each; `StaleSessionsExplained`; `LostTokensStayLost`, that a refresh token which is gone from Redis does not come back once its second is over and no login holds it; and `ImplementsSessionLifecycle`. About 170 s. |
| `sessions_revoked` | **Violated:** `RevokedStaysRevoked`. Tokens of the same second are the same token. |
| `posts` | Two posts, three texts, two requests: `TypeOK`, `EnrichmentFromOwnText`, `EmbeddingHasSummary`, `SettledIsFresh`, and `ImplementsPostLifecycle`, that Posts implements PostLifecycle. About 130 s. |
| `posts_stale` | **Violated:** `SummaryOfRawText`. Tasks of two edits end in the other order. |
| `listings` | All four lists, two users and three names, limits 0 to 2, pages 1, 3 and 17 of 15, two rows at first and four ever, one of them edited: `TypeOK`, `RowsHaveHome` (no row outlives what it refers to), `NothingTwice` (no row on two pages unless one came in before it, a user took the name, stamps are equal or a search was cut), `NothingSkipped` (every row there was is shown by the last page unless one was deleted, the author gave up the name, stamps are equal or a search was cut), `NothingPastTheEnd` (a page beyond its total is empty unless its offset wrapped, a row was deleted or the author gave up the name), `ShortSearchesShowAll` (a search that finds at most twice the posts of a page shows them all, and none twice, whatever the three sources find and in whatever order). About 180 s. |
| `search_pages` | **Violated:** `SearchShowsAll`. Five posts that nobody changes, one per page: the fifth is the best of page 2's order but not of page 1's. |

Why the bounds are enough. A property of Accounts relates one row to one other
row, one token and one request, so a violation needs two rows, the link of the
victim, the one that replaces it, the one used against it, and a request stopped
between two statements while another passes it: two ids, three tokens, two
workers, and two addresses so that they can collide. A password
changed with the old one, whose UPDATE is by id like a reset's, is run with one account
and proved for any number. The clean-up run has one
account because its properties speak of one account at a time and symmetry is
not used with liveness; `OutdatedByOthers` takes two requests and two passwords. In the limiter the limits are small because only their
difference to the count matters; three workers make the overrun visible. In
Sessions, keys of different users do not meet, and the times let a token pass
its expiry, its leeway and the end of its key, and a refresh be stamped seconds after
its session was gone; two requests are one that ends a session and one that refreshes it. In Posts, three texts are an old
one, a new one and one in the other language; two posts and a deletion are what
it takes to confuse ids; a request that the bounds would keep from storing its text
is not started. In Listings, a row crosses the border of a page when one
before it comes or goes: two rows on pages of one, two more that come in in either
order of their stamps, and a deletion. A name is given up, taken by the other user, or
taken back, and there is a third for who goes. The number of rows edited at a time is
bounded by one, since an edit changes nothing a list goes by. A search is run with every way three sources
can rank two posts, which already lets a `Cut` that is too short overlap and skip (and
is proved for any number); the overlap of the real one takes five posts. Writers are
followed while the client reads: before its first page the table is any table, after
its last nothing is read.

Deadlock is not checked: every model bounds what clients can start, and the
service may rightly sit idle.

Fairness. `Accounts!Spec` has weak fairness of `Cleanup` only: the cron job is
started with the server and fires every day. `LoginLimiter!Spec` has it of
`Tick`: time passes. Nothing is assumed of clients, mails, requests or tasks, and
Sessions, Posts and Listings state no fairness.

## Disagreements found

1. `models.rs:62` "Whether email has been verified": the two statements of an
   e-mail change (`handler/auth.rs:325-342`) can leave an unconfirmed address verified.
2. `handler/auth.rs:421` "Password reset link has been sent to your email.":
   answered although the relay refused (`mail/sendmail.rs:58-68`).
3. `redisdb.rs:147` "Prevents race conditions when multiple login attempts happen
   simultaneously": the reading that admits a request is outside the pipeline, and the
   limits are overrun; `OvershootBounded` says by how much.
4. `redisdb.rs:80` "This invalidates the refresh token": a login in the same second
   as the first makes the identical token (`utils/token.rs:125-136`).
5. `models.rs:73` raw_text is "used for ... semantic embedding, summary": tasks that
   end in another order leave those of an older text (`db/post.rs:373-411`).
6. `migrations/20251119072914_post-extension.up.sql:129` "Hybrid search count function
   for pagination metadata": the pages it counts do not hold the posts it counts. Each
   source contributes its first `(match_count + offset_count) * 2` rows (lines 78, 89,
   98), so scores, and with them the order, differ from page to page.

## Proofs

For every value of the constants, under `AccountsAssumption` (a bound that is a
natural number, known endpoints), `LimiterAssumption` (finitely many workers,
positive limits, and positive times to live of which that of an address is not the
shorter, as in `redisdb.rs`), `SessionsAssumption` (positive ages, which
differ so that an access token can be told from a refresh token: the claims have no
kind), `PostsAssumption` (bounds that are natural numbers) and `ListingsAssumption`
(requests are integers, and the number of rows and a limit add up to an i32).

`AccountsProofs` proves every invariant and action property the runs of Accounts
check:

- `TypeCorrect`. `TypeOK` is inductive; `TypeNext` has one step per action,
  grouped by what an action writes.
- The invariants relate rows, tokens and requests, and most actions touch few of
  them. Instead of going through the actions for each, `StepLives` states once
  what a step can do: tokens only grow (`Growth`); a slot keeps its token, gets the
  new one or is emptied (`TokenLife`); a row is born, kept, linked, spent or moved
  (`RowLife`); a request is new or carries on with what it had (`RequestLife`). The
  invariants follow from it.
- `LinksAlwaysMatchAccounts` needs `TypeOK` only; `UnverifiedAlwaysHasToken` too.
  `VerifiedAlwaysWitnessed` rests on `LinksMatchAccounts`: the request that
  spends a token holds one made for the row. `EmailAlwaysReached` and
  `ResetLinksAlwaysGoHome` are inductive only together and with `LinksMatchAccounts`
  (`AddressInv`): a reset takes the row's address, and a late `SwapEmail` writes the
  address of a change link that was delivered.
- `DeadLinksAlwaysDrain`, `AlwaysOutdatedByOthers` and
  `PasswordChangeAlwaysJustified` are action properties; `Writers` and
  `PasswordWriter` say which requests change a password. A request joins those that
  carry a link only by finding it in a row (`RequestLife`), so none joins when no row
  holds it. `AlwaysOutdatedByOthers` needs `IdsKnown`: the ids in the table, and those
  of requests that compared a password, were generated by a registration, so that a row
  born later is not the one they write.
- `UnconfirmedAlwaysByChange` says how far the comment that `accounts_verified` refutes
  does hold. It needs `HomeInv`: an account registers once, and until one of its change
  links is redeemed its row, its reset links and the requests about to store one carry
  the address it registered with; an address is written only after its link was
  redeemed. TLC checked `HomeInv` on the instance of `accounts_tokens` first.
- `LookupAlwaysUnambiguous`: unique addresses and names because each statement that
  writes one re-checks it, unique tokens by `LinksMatchAccounts`.

`LoginLimiterProofs` proves the types and the safety properties. `OvershootAlwaysBounded`
comes with the theorems on finite sets of the library: a request enters `PastIp`
or `PastPair` only when the count is below the limit, at which moment the others
are at most one less than the workers; counting moves a request from the set
into the counter. `IpAlwaysCoversPairs` is about a sum over the accounts tried from an
address. It is stated as the size of a set, one element for each failure remembered,
so that the library's theorems on cardinality apply where a sum would need
induction; its invariant (`CoverInv`) adds that the counter of an address outlives those
of its accounts. `LockoutsAlwaysDrain` is the safety half of `LockoutEnds`: a lockout is
prolonged only by a request that leaves `PastIp` or `PastPair` for it, and these sets do
not grow while it lasts. What is left to TLC is that time passes.

`SessionsProofs` proves `TypeCorrect`, `AccessAlwaysDrains`,
`StaleSessionsAlwaysExplained`, `LostTokensAlwaysStayLost` and
`AlwaysImplementsSessionLifecycle`. The first four need the types only: `DrainNext`
rests on `LookupAdmits`, that a request joins `Minting(u)` only while u has a key,
and on `MintLeaves`, that the one that makes the token leaves it. The refinement
needs `MintedBefore`, that a login which has not stored its token yet made it in the past,
so that `SaveRefresh` maps to an Open as of an earlier second. `Lookup` maps to an Admit,
`MintAccess` to an Extend, by the ticket and not by a session that may be gone, an aborted
request to a Drop or nothing, `Revoke` to a Close or nothing, and `Tick` to a Second: the
keys Redis drops are those whose session has no second left. `LostTokensAlwaysStayLost`
bounds the exception that `sessions_revoked` shows to two logins of one second.

`PostsProofs` proves `TypeCorrect`, `EnrichmentAlwaysFromOwnText`,
`EmbeddingAlwaysHasSummary` and `SettledAlwaysFresh`. A task writes by id, so the
first needs `LateText`: a text whose post is still there is not older than the
post, because ids are not reused. The last needs `FreshInv`: as long as the text
of a post is neither lost nor raced, it is being enriched or shown, and no other
text is on its way to the same summary.

`PostLifecycleProofs` proves `AlwaysImplementsPostLifecycle`. Spawning, the two calls and
what happens to a request are no abstract step; `UpdateSummaryAndEmbedding` is an
Enrich, also of a post that is gone; `GiveUp`, an aborted request and a crash lose the
texts they held. It needs `OneEach`: a text has one task, or one request that will spawn
it, and never both, without which it could be enriched after it was lost.

`AccountLifecycleProofs` proves `AlwaysImplementsLifecycle`: initial states map to
initial states, and each statement that writes the table is one abstract step or none:
`Register` a SignUp, `AddVerifedToken` a NewLink (of an account that may be gone),
`VerifedToken` a Follow or nothing, `DeleteUser` a Close or nothing, `Cleanup` a Purge.
That needs `LifeInv`, that rows and requests about to store a link belong to accounts
that were registered once, and `LinksMatchAccounts`, without which the UPDATE by token
could move two accounts at once.

`ListingsProofs` proves every invariant of `listings`. `HomeNext` is inductive with the
types. The pages need the place of a row: `Ahead(x)` are the rows before it, and
`AmongTheFirst` shows that x is among the first n rows of an ORDER BY exactly if fewer
than n are ahead of it, so that a page is a window of places (`PageWindow`), given an
order without ties (`OrderInv`) and an exact offset (`Where`, `ExactOffset`).
`WriterPlaces` says how writing moves places: up only when rows leave the list, down only
when rows come in before or with a name. It goes by `WriterList`: a step of a writer
lets the list shrink, adds one row, or adds the rows of a user who takes the name
(`ListRename`). So shown rows stay before the page that is read (`TwiceInv`),
rows not shown yet stay behind it (`SkipInv`), and `LastPage`, the arithmetic of
`total_pages`, turns that into `AlwaysNothingTwice` and `AlwaysNothingSkipped`.
`AlwaysNothingPastTheEnd` needs the count to be no smaller than at the reading of the
page (`PastInv`). `ShortSearchesAlwaysShowAll` needs no arithmetic of scores: when a
search finds at most twice the posts of a page, `Cut` leaves nothing out on any of its
pages, so that the order is the same on all of them (`SearchInv`).

Only model-checked: `DeadRegistrationsEnd` and `LockoutEnds`, which are liveness under
fairness and need ENABLED. Every invariant, action property and refinement the passing
runs check is proved.

## What is not modelled

Wording, logging and layout, and validation but for the pages; Argon2, JWT signatures
and TLS; the content of mails and posts; `upload_image`, which writes a file under a
fresh name; routing and start-up; the embedding server, which is stateless. Role
changes: `update_user_role` is in the source but on no route. `get_me` and `get_post`
read one state of one row. The newsletter is one INSERT or DELETE per endpoint on a
table nothing else reads: all there is to it is the UNIQUE constraint.

In Listings: a search is read from posts at rest, and nothing is said of one whose posts
change; stamps that are equal before the client begins are left out; users
register in the list of users only, so that the one who takes a name is one that is there
already; a source
of `hybrid_search` is cut in the order of its ranks, which SQL does not promise of a
LIMIT without ORDER BY; of a large page the wrapping of a release build is modelled, not
the panic of a debug build. No property says what a page shows whose offset wrapped, or
which `totalPages` goes with a limit of 0: the source does not say what they should be.

## Plan

1. Done: Accounts, LoginLimiter, Sessions, Posts, Listings; every safety property of
   their runs, and the refinements of AccountLifecycle, SessionLifecycle and
   PostLifecycle, as theorems.
2. Service: Accounts, Sessions and Posts composed, for what crosses them: a deleted
   account's session and tasks, a reset and the sessions it leaves.
3. Lists of an abstract reader that takes one snapshot, and for which of the
   disturbances Listings implements it.
4. A search whose posts are being enriched while it is read.
