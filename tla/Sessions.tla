------------------------------ MODULE Sessions ------------------------------
(***************************************************************************)
(* Sessions (handler/auth.rs, handler/users.rs, redisdb.rs,                *)
(* utils/token.rs, middleware.rs): signed tokens nobody can take back, and *)
(* one refresh token per user in Redis, which login stores, logout and a   *)
(* password change delete, and refresh wants to see before it makes a new  *)
(* access token.                                                           *)
(*                                                                         *)
(* One action is one SQL statement or Redis command as the server carries  *)
(* it out; where the code after its answer looks at the clock, that is an  *)
(* action of its own, at a later time.  Time is in whole seconds, as in    *)
(* the tokens.                                                             *)
(***************************************************************************)
EXTENDS Integers, FiniteSets

CONSTANTS
  Users,         \* accounts; ids are not reused (Accounts)
  Workers,       \* requests served at the same time
  AccessAge,     \* jwt_maxage
  RefreshAge,    \* refresh_token_maxage
  Leeway,        \* what jsonwebtoken allows after exp, 60 seconds
  MaxTime,       \* bound on the time
  MaxChanges     \* bound on the password changes of an account

ASSUME SessionsAssumption ==
  /\ AccessAge \in Nat \ {0} /\ RefreshAge \in Nat \ {0} /\ AccessAge # RefreshAge
  /\ Leeway \in Nat /\ MaxTime \in Nat /\ MaxChanges \in Nat

VARIABLES
  now,
  users,       \* the accounts that exist
  password,    \* the password of each account, the number of its changes
  refresh,     \* Redis, refresh:{user}: the keys that exist and what they hold
  held,        \* the tokens handed out to clients
  req,         \* what each worker is in the middle of
  excused      \* history: users whose stored session may be older than their
               \* password, see StaleSession

vars == <<now, users, password, refresh, held, req, excused>>

-----------------------------------------------------------------------------
(* Data.                                                                   *)

(* TokenClaims: nothing but these three, so that two tokens made for a     *)
(* user in the same second are the same token.                             *)
Token(u, t, age) == [sub |-> u, iat |-> t, exp |-> t + age]
AccessToken(u, t) == Token(u, t, AccessAge)
RefreshToken_Undated(u, t) == Token(u, 0, RefreshAge)
RefreshToken(u, t) == Token(u, t, RefreshAge)

Times == 0 .. MaxTime
Changes == 0 .. MaxChanges
Tokens == {Token(u, t, age) : u \in Users, t \in Times, age \in {AccessAge, RefreshAge}}

(* decode_token: the signature, and exp with its leeway. *)
Decodes(t) == now <= t.exp + Leeway

Idle == [pc |-> "idle"]
Request ==
  {Idle}
  \cup [pc : {"compare"}, user : Users, password : Changes]
  \cup [pc : {"save"}, user : Users, password : Changes, iat : Times]
  \cup [pc : {"lookup"}, token : Tokens]
  \cup [pc : {"mint", "change", "reset", "logout", "revoke"}, user : Users]

(* What a key holds; the password is the one the login compared (history). *)
Session == [token : Tokens, until : Nat, password : Changes]

Init ==
  /\ now = 0
  /\ users = Users
  /\ password = [u \in Users |-> 0]
  /\ refresh = [u \in {} |-> {}]
  /\ held = {}
  /\ req = [w \in Workers |-> Idle]
  /\ excused = {}

-----------------------------------------------------------------------------
(* The commands of redisdb.rs.                                             *)

(* save_refresh_token: SET with an expiry, over whatever is there. *)
SetEx_NoExpiry(u, s) ==
  [v \in DOMAIN refresh \cup {u} |-> IF v = u THEN [s EXCEPT !.until = 0] ELSE refresh[v]]
SetEx(u, s) ==
  [v \in DOMAIN refresh \cup {u} |-> IF v = u THEN s ELSE refresh[v]]

(* delete_refresh_token. *)
Del_Misses(u) == refresh
Del(u) == [v \in DOMAIN refresh \ {u} |-> refresh[v]]

(* get_refresh_token, compared with the token of the request. *)
Stored_OrMissing(t) == t.sub \in DOMAIN refresh => refresh[t.sub].token = t
Stored(t) == t.sub \in DOMAIN refresh /\ refresh[t.sub].token = t

-----------------------------------------------------------------------------
(* Requests.                                                               *)

Goto(w, r) == req' = [req EXCEPT ![w] = r]
Done(w) == Goto(w, Idle)

(* Middleware auth: a token that decodes, of a user whose row is there. *)
Authenticated(u) == u \in users /\ \E t \in held : t.sub = u /\ Decodes(t)

(* login, authenticate_process: the row is read, ...  A failed attempt     *)
(* changes nothing here (LoginLimiter).                                    *)
Login(w, u) ==
  /\ req[w] = Idle
  /\ u \in users
  /\ Goto(w, [pc |-> "compare", user |-> u, password |-> password[u]])
  /\ UNCHANGED <<now, users, password, refresh, held, excused>>

(* ... the password of the row is the one the client gave, and both tokens *)
(* are made, ...                                                           *)
MintTokens(w) ==
  LET r == req[w] IN
  /\ r.pc = "compare"
  /\ Goto(w, [pc |-> "save", user |-> r.user, password |-> r.password, iat |-> now])
  /\ UNCHANGED <<now, users, password, refresh, held, excused>>

(* ... save_refresh_token, then the answer with both tokens. *)
SaveRefresh(w) ==
  LET r == req[w] IN
  /\ r.pc = "save"
  /\ refresh' = SetEx(r.user, [token |-> RefreshToken(r.user, r.iat),
                               until |-> now + RefreshAge,
                               password |-> r.password])
  /\ held' = held \cup {AccessToken(r.user, r.iat), RefreshToken(r.user, r.iat)}
  /\ excused' = IF r.password = password[r.user]
                THEN excused \ {r.user} ELSE excused \cup {r.user}
  /\ Done(w)
  /\ UNCHANGED <<now, users, password>>

(* refresh: the token is decoded; no row is read, ... *)
Refresh(w, t) ==
  /\ req[w] = Idle
  /\ t \in held /\ Decodes(t)
  /\ Goto(w, [pc |-> "lookup", token |-> t])
  /\ UNCHANGED <<now, users, password, refresh, held, excused>>

(* ... Redis answers with the stored one, ...                              *)
Lookup(w) ==
  /\ req[w].pc = "lookup"
  /\ Stored(req[w].token)
  /\ Goto(w, [pc |-> "mint", user |-> req[w].token.sub])
  /\ UNCHANGED <<now, users, password, refresh, held, excused>>

(* ... and an access token is made, whatever became of the key since. *)
MintAccess(w) ==
  /\ req[w].pc = "mint"
  /\ held' = held \cup {AccessToken(req[w].user, now)}
  /\ Done(w)
  /\ UNCHANGED <<now, users, password, refresh, excused>>

(* logout, update_user_password (which reads the row and compares the old  *)
(* password, known to the client) and reset_password (whose link is the    *)
(* business of Accounts), each up to its next statement.                   *)
Logout(w, u) ==
  /\ req[w] = Idle
  /\ Authenticated(u)
  /\ Goto(w, [pc |-> "logout", user |-> u])
  /\ UNCHANGED <<now, users, password, refresh, held, excused>>

UpdatePassword(w, u) ==
  /\ req[w] = Idle
  /\ Authenticated(u)
  /\ Goto(w, [pc |-> "change", user |-> u])
  /\ UNCHANGED <<now, users, password, refresh, held, excused>>

ResetPassword(w, u) ==
  /\ req[w] = Idle
  /\ u \in users
  /\ Goto(w, [pc |-> "reset", user |-> u])
  /\ UNCHANGED <<now, users, password, refresh, held, excused>>

(* The UPDATE: a change goes on to delete the session, a reset does not. *)
SetPassword(w) ==
  LET r == req[w] IN
  /\ r.pc \in {"change", "reset"}
  /\ r.user \in users
  /\ password[r.user] < MaxChanges
  /\ password' = [password EXCEPT ![r.user] = @ + 1]
  /\ IF r.pc = "change"
     THEN Goto(w, [r EXCEPT !.pc = "revoke"]) /\ UNCHANGED excused
     ELSE Done(w) /\ excused' = excused \cup {r.user}
  /\ UNCHANGED <<now, users, refresh, held>>

(* delete_refresh_token, of logout and of a password change. *)
Revoke(w) ==
  LET u == req[w].user IN
  /\ req[w].pc \in {"logout", "revoke"}
  /\ refresh' = Del(u)
  /\ excused' = excused \ {u}
  /\ Done(w)
  /\ UNCHANGED <<now, users, password, held>>

(* A request ends at an await: the database or Redis fails, the token is   *)
(* not the stored one, the row is gone, or the client is.                  *)
Abort(w) ==
  /\ req[w] # Idle
  /\ Done(w)
  /\ excused' = excused \cup (IF req[w].pc = "revoke" THEN {req[w].user} ELSE {})
  /\ UNCHANGED <<now, users, password, refresh, held>>

-----------------------------------------------------------------------------

(* delete_me or the clean-up (Accounts); the key in Redis stays. *)
DeleteUser(u) ==
  /\ u \in users
  /\ users' = users \ {u}
  /\ UNCHANGED <<now, password, refresh, held, req, excused>>

(* A second passes; Redis drops the keys whose time is over. *)
Tick ==
  /\ now < MaxTime
  /\ now' = now + 1
  /\ refresh' = [u \in {v \in DOMAIN refresh : refresh[v].until > now'} |-> refresh[u]]
  /\ UNCHANGED <<users, password, held, req, excused>>

Serve(w) ==
  \/ \E u \in Users :
       Login(w, u) \/ Logout(w, u) \/ UpdatePassword(w, u) \/ ResetPassword(w, u)
  \/ \E t \in held : Refresh(w, t)
  \/ MintTokens(w)
  \/ SaveRefresh(w)
  \/ Lookup(w)
  \/ MintAccess(w)
  \/ SetPassword(w)
  \/ Abort(w)

NextBesidesRevoke ==
  \/ \E w \in Workers : Serve(w)
  \/ \E u \in Users : DeleteUser(u)
  \/ Tick

Next == NextBesidesRevoke \/ \E w \in Workers : Revoke(w)

Spec == Init /\ [][Next]_vars

-----------------------------------------------------------------------------
(* Properties.                                                             *)

(* Every variable stays in its set; a key in Redis always has an end, at   *)
(* most RefreshAge away, and is gone when it is reached.                   *)
TypeOK ==
  /\ now \in Times
  /\ users \subseteq Users
  /\ password \in [Users -> Changes]
  /\ DOMAIN refresh \subseteq Users
  /\ refresh \in [DOMAIN refresh -> Session]
  /\ \A u \in DOMAIN refresh : refresh[u].until \in now + 1 .. now + RefreshAge
  /\ held \subseteq Tokens
  /\ req \in [Workers -> Request]
  /\ excused \subseteq Users

(* The requests that have seen the session of u and not yet made the       *)
(* access token they saw it for.                                           *)
Minting(u) == {w \in Workers : req[w].pc = "mint" /\ req[w].user = u}

(* Access drains when a session is over.  Between the GET of a refresh     *)
(* request and the stamp of its access token a logout, a password change   *)
(* or the expiry may take the key: while u has no key, an access token for *)
(* u is only made by a request that saw the session before, one for each,  *)
(* and no request joins them.                                              *)
AccessDrains ==
  [][\A u \in Users :
       u \notin DOMAIN refresh /\ u \notin DOMAIN refresh' =>
         /\ Minting(u)' \subseteq Minting(u)
         /\ \A t \in held' \ held :
              t.sub = u => t = AccessToken(u, now) /\ Minting(u)' # Minting(u)]_vars

(* A user's stored session is that of a login with the present password.   *)
StaleSession(u) ==
  u \in DOMAIN refresh /\ refresh[u].password # password[u]

(* A session outlives the password it was opened with only for one of the  *)
(* reasons the code leaves open (excused): the password was reset, which   *)
(* deletes no session; a change ended between its UPDATE and its DEL; or a *)
(* login compared the old password and stored its token after the change.  *)
(* In every other order the DEL is still to come.                          *)
StaleSessionsExplained ==
  \A u \in Users :
    StaleSession(u) =>
      u \in excused \/ \E w \in Workers : req[w] = [pc |-> "revoke", user |-> u]

(* A refresh token that Redis does not hold and no login is about to store, *)
(* of a second that is over.                                               *)
Lost(t) ==
  /\ t.iat < now
  /\ ~Stored(t)
  /\ \A w \in Workers :
       req[w].pc = "save" => RefreshToken(req[w].user, req[w].iat) # t

(* Such a token is dead for good, whether a logout, a password change, a   *)
(* later login or the time to live took it from Redis: two logins of one   *)
(* second, or one that hangs between its two steps, are the only way a     *)
(* token comes back (SessionRevocation shows that one).                    *)
LostTokensStayLost == [][\A t \in held : Lost(t) => Lost(t)']_vars

-----------------------------------------------------------------------------
(* What the handlers implement: SessionLifecycle.                          *)

left ==
  [u \in Users |-> IF u \in DOMAIN refresh THEN refresh[u].until - now ELSE 0]

granted == [u \in Users |-> {s \in Times : AccessToken(u, s) \in held}]

admitted == [u \in Users |-> Minting(u)]

Lifecycle ==
  INSTANCE SessionLifecycle WITH Age <- RefreshAge, Tickets <- Workers, clock <- now

(* Command by command, with any number of requests between their steps,    *)
(* the handlers and the clock of Redis move a user's session as            *)
(* SessionLifecycle describes: nothing is granted without a login or an    *)
(* admission by a session that ran, and no session outlives its time.      *)
ImplementsSessionLifecycle == Lifecycle!Spec

=============================================================================
