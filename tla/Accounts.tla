------------------------------ MODULE Accounts ------------------------------
(***************************************************************************)
(* The account handlers of the blog service: registration, e-mail          *)
(* verification, password reset, the profile updates, self-deletion and    *)
(* the nightly clean-up, over the table "users" (handler/auth.rs,          *)
(* handler/users.rs, db/user.rs, db/scheduler.rs).                         *)
(*                                                                         *)
(* A handler is a sequence of SQL statements with an await between two of  *)
(* them, and no transaction spans two statements.  So one action is one    *)
(* statement with the straight-line code up to the next await, and what    *)
(* the handler carries across the await is in req[w].  Requests that fail  *)
(* validation, or find no row, change nothing and are left out.            *)
(***************************************************************************)
EXTENDS Integers, Sequences, FiniteSets

CONSTANTS
  Users,       \* primary keys the table may generate
  Emails,      \* values of the column email
  Names,       \* values of the column username
  Passwords,   \* values of the column password
  Workers,     \* requests served at the same time
  MaxTokens,   \* bound on the tokens ever generated
  Endpoints    \* the endpoints clients call besides /register

AllEndpoints ==
  {"verify", "forgot", "reset", "username", "password", "email", "delete"}

ASSUME AccountsAssumption == MaxTokens \in Nat /\ Endpoints \subseteq AllEndpoints

VARIABLES
  rows,        \* the table users: primary key |-> row
  issued,      \* the tokens generated so far, in order; a token is its index
  expired,     \* the tokens whose token_expires_at is in the past
  delivered,   \* the tokens whose mail reached its address
  redeemed,    \* history: the tokens an UPDATE of verifed_token was run with
  req          \* what each worker is in the middle of

vars == <<rows, issued, expired, delivered, redeemed, req>>

-----------------------------------------------------------------------------
(* Data.                                                                   *)

(* NULL in the column verification_token (and in token_expires_at, which   *)
(* is written together with it by every statement).                        *)
NoToken == 0

Tokens == 1 .. Len(issued)

FreshToken == Len(issued) + 1

(* A token is a fresh uuid; only the string of an e-mail change also holds *)
(* an address, after a '+'.  The account it was made for and the address   *)
(* its link is mailed to are recorded with it.                             *)
Kinds == {"verify", "reset", "change"}
TokenInfo == [user : Users, kind : Kinds, addr : Emails]

Row == [email : Emails, name : Names, password : Passwords,
        verified : BOOLEAN, token : {NoToken} \cup Tokens]

Idle == [pc |-> "idle"]

Request ==
  {Idle}
  \cup [pc : {"store"}, user : Users, kind : {"reset", "change"}, addr : Emails]
  \cup [pc : {"mail"}, token : Tokens]
  \cup [pc : {"verify", "spend"}, user : Users, token : Tokens]
  \cup [pc : {"swapEmail"}, user : Users, token : Tokens]
  \cup [pc : {"resetPassword"}, user : Users, token : Tokens, password : Passwords]
  \cup [pc : {"changePassword"}, user : Users, old : Passwords, password : Passwords]
  \cup [pc : {"delete"}, user : Users, old : Passwords]

Init ==
  /\ rows = [u \in {} |-> {}]
  /\ issued = <<>>
  /\ expired = {}
  /\ delivered = {}
  /\ redeemed = {}
  /\ req = [w \in Workers |-> Idle]

-----------------------------------------------------------------------------
(* The statements of db/user.rs, each as the table it leaves behind.       *)

(* get_user(.., token): the rows the SELECT matches. *)
HolderOf_AnyToken(t) == {u \in DOMAIN rows : rows[u].token # NoToken}
HolderOf(t) == {u \in DOMAIN rows : rows[u].token = t}

(* password::compare of what the client sent with the row just read. *)
Verifies_Always(u, p) == TRUE
Verifies(u, p) == rows[u].password = p

(* The UNIQUE constraints of the table, for a write to row u. *)
EmailFree_Unchecked(u, e) == TRUE
EmailFree(u, e) == \A v \in DOMAIN rows \ {u} : rows[v].email # e
NameFree(u, n) == \A v \in DOMAIN rows \ {u} : rows[v].name # n

(* save_user: a new row has verified = FALSE and a token. *)
SaveUser_NoToken(u, e, n, p, t) ==
  [v \in DOMAIN rows \cup {u} |->
    IF v = u THEN [email |-> e, name |-> n, password |-> p,
                   verified |-> FALSE, token |-> NoToken]
             ELSE rows[v]]
SaveUser(u, e, n, p, t) ==
  [v \in DOMAIN rows \cup {u} |->
    IF v = u THEN [email |-> e, name |-> n, password |-> p,
                   verified |-> FALSE, token |-> t]
             ELSE rows[v]]

(* add_verifed_token: the row has one slot, whatever the token is for, and *)
(* a missing row is no error.                                              *)
StoreToken_SwapsEarly(r, t) ==
  [v \in DOMAIN rows |->
    IF v = r.user THEN [rows[v] EXCEPT !.token = t, !.email = r.addr] ELSE rows[v]]
StoreToken(r, t) ==
  [v \in DOMAIN rows |->
    IF v = r.user THEN [rows[v] EXCEPT !.token = t] ELSE rows[v]]

(* verifed_token: by token, not by id; a token no row holds is no error. *)
SpendToken_NotVerified(t) ==
  [v \in DOMAIN rows |->
    IF rows[v].token = t THEN [rows[v] EXCEPT !.token = NoToken] ELSE rows[v]]
SpendToken_AllRows(t) ==
  [v \in DOMAIN rows |-> [rows[v] EXCEPT !.verified = TRUE, !.token = NoToken]]
SpendToken(t) ==
  [v \in DOMAIN rows |->
    IF rows[v].token = t
    THEN [rows[v] EXCEPT !.verified = TRUE, !.token = NoToken]
    ELSE rows[v]]

SetEmail(u, e) ==
  [v \in DOMAIN rows |-> IF v = u THEN [rows[v] EXCEPT !.email = e] ELSE rows[v]]
SetName(u, n) ==
  [v \in DOMAIN rows |-> IF v = u THEN [rows[v] EXCEPT !.name = n] ELSE rows[v]]
SetPassword_AllRows(u, p) ==
  [v \in DOMAIN rows |-> [rows[v] EXCEPT !.password = p]]
SetPassword(u, p) ==
  [v \in DOMAIN rows |-> IF v = u THEN [rows[v] EXCEPT !.password = p] ELSE rows[v]]

(* DELETE FROM users, of the ids in S. *)
DeleteRows(S) == [v \in DOMAIN rows \ S |-> rows[v]]

(* The WHERE of the clean-up job: a NULL expiry does not match. *)
DeadRegistration_NotYetExpired(u) == ~rows[u].verified /\ rows[u].token \notin expired
DeadRegistration(u) == ~rows[u].verified /\ rows[u].token \in expired

-----------------------------------------------------------------------------
(* Requests.  Goto moves worker w to its next await, Done ends its request.*)

Ready(w, endpoint) == req[w] = Idle /\ endpoint \in Endpoints
Goto(w, r) == req' = [req EXCEPT ![w] = r]
Done(w) == Goto(w, Idle)

(* uuid_generate_v4(): no row has the key, and none ever had it. *)
NewId(u) == u \notin DOMAIN rows /\ \A t \in Tokens : issued[t].user # u

(* register: INSERT, which the UNIQUE constraints may refuse. *)
Register(w, u, e, n, p) ==
  /\ req[w] = Idle
  /\ FreshToken <= MaxTokens
  /\ NewId(u)
  /\ EmailFree(u, e) /\ NameFree(u, n)
  /\ issued' = Append(issued, [user |-> u, kind |-> "verify", addr |-> e])
  /\ rows' = SaveUser(u, e, n, p, FreshToken)
  /\ Goto(w, [pc |-> "mail", token |-> FreshToken])
  /\ UNCHANGED <<expired, delivered, redeemed>>

(* forgot_password: the row is read, by e-mail or by username; its address *)
(* is carried to the mail.                                                 *)
ForgotPassword(w, u) ==
  /\ Ready(w, "forgot")
  /\ u \in DOMAIN rows
  /\ Goto(w, [pc |-> "store", user |-> u, kind |-> "reset", addr |-> rows[u].email])
  /\ UNCHANGED <<rows, issued, expired, delivered, redeemed>>

(* update_user_email: middleware auth, then check_email_duplicate. *)
UpdateEmail(w, u, e) ==
  /\ Ready(w, "email")
  /\ u \in DOMAIN rows
  /\ EmailFree(u, e)
  /\ Goto(w, [pc |-> "store", user |-> u, kind |-> "change", addr |-> e])
  /\ UNCHANGED <<rows, issued, expired, delivered, redeemed>>

(* add_verifed_token, of forgot_password and update_user_email. *)
AddVerifedToken(w) ==
  LET r == req[w] IN
  /\ r.pc = "store"
  /\ FreshToken <= MaxTokens
  /\ issued' = Append(issued, [user |-> r.user, kind |-> r.kind, addr |-> r.addr])
  /\ rows' = StoreToken(r, FreshToken)
  /\ Goto(w, [pc |-> "mail", token |-> FreshToken])
  /\ UNCHANGED <<expired, delivered, redeemed>>

(* send_email: the relay takes the mail, ... *)
MailSent(w) ==
  /\ req[w].pc = "mail"
  /\ delivered' = delivered \cup {req[w].token}
  /\ Done(w)
  /\ UNCHANGED <<rows, issued, expired, redeemed>>

(* ... or refuses it, which send_email prints and answers Ok, ... *)
MailRefused(w) ==
  /\ req[w].pc = "mail"
  /\ Done(w)
  /\ UNCHANGED <<rows, issued, expired, delivered, redeemed>>

(* ... or the mail cannot be built (settings, template, address): an error *)
(* that register logs and the other two handlers answer with 500.  None of *)
(* the three outcomes takes the token back.                                *)
MailUnbuilt(w) ==
  /\ req[w].pc = "mail"
  /\ Done(w)
  /\ UNCHANGED <<rows, issued, expired, delivered, redeemed>>

(* verify_email: the row is read by token, and its expiry is checked. *)
VerifyEmail(w, t) ==
  /\ Ready(w, "verify")
  /\ t \in delivered \ expired
  /\ \E u \in HolderOf(t) : Goto(w, [pc |-> "verify", user |-> u, token |-> t])
  /\ UNCHANGED <<rows, issued, expired, delivered, redeemed>>

(* reset_password: the same read, and the new password of the request. *)
ResetPassword(w, t, p) ==
  /\ Ready(w, "reset")
  /\ t \in delivered \ expired
  /\ \E u \in HolderOf(t) :
       Goto(w, [pc |-> "resetPassword", user |-> u, token |-> t, password |-> p])
  /\ UNCHANGED <<rows, issued, expired, delivered, redeemed>>

(* verifed_token, of verify_email and of reset_password: verify_email goes *)
(* on to a second statement when the token carries an address.             *)
VerifedToken(w) ==
  LET r == req[w] IN
  /\ r.pc \in {"verify", "spend"}
  /\ rows' = SpendToken(r.token)
  /\ redeemed' = redeemed \cup {r.token}
  /\ Goto(w, IF r.pc = "verify" /\ issued[r.token].kind = "change"
             THEN [pc |-> "swapEmail", user |-> r.user, token |-> r.token]
             ELSE Idle)
  /\ UNCHANGED <<issued, expired, delivered>>

(* update_user_email of db/user.rs: by id; a missing row or an address in  *)
(* use answers 500 and leaves the table as it is.                          *)
SwapEmail(w) ==
  LET r == req[w]
      e == issued[r.token].addr IN
  /\ r.pc = "swapEmail"
  /\ rows' = IF EmailFree(r.user, e) THEN SetEmail(r.user, e) ELSE rows
  /\ Done(w)
  /\ UNCHANGED <<issued, expired, delivered, redeemed>>

(* update_user_password of handler/users.rs: the row is read again and the *)
(* old password compared with it; a wrong one is answered with 400.  The   *)
(* one that was right is recorded (old).                                   *)
UpdatePassword(w, u, old, p) ==
  /\ Ready(w, "password")
  /\ u \in DOMAIN rows
  /\ Verifies(u, old)
  /\ Goto(w, [pc |-> "changePassword", user |-> u, old |-> old, password |-> p])
  /\ UNCHANGED <<rows, issued, expired, delivered, redeemed>>

(* Where a password UPDATE leads: reset_password still has to null the     *)
(* token, unless the row is gone; a change goes on to Redis.               *)
AfterPassword_AlwaysSpends(r) ==
  IF r.user \in DOMAIN rows THEN [r EXCEPT !.pc = "spend"] ELSE Idle
AfterPassword(r) ==
  IF r.pc = "resetPassword" /\ r.user \in DOMAIN rows
  THEN [pc |-> "spend", user |-> r.user, token |-> r.token]
  ELSE Idle

(* update_user_password of db/user.rs, of both handlers: by id. *)
SetUserPassword(w) ==
  LET r == req[w] IN
  /\ r.pc \in {"resetPassword", "changePassword"}
  /\ rows' = SetPassword(r.user, r.password)
  /\ Goto(w, AfterPassword(r))
  /\ UNCHANGED <<issued, expired, delivered, redeemed>>

(* update_user_name: one UPDATE by id. *)
UpdateName(w, u, n) ==
  /\ Ready(w, "username")
  /\ u \in DOMAIN rows
  /\ NameFree(u, n)
  /\ rows' = SetName(u, n)
  /\ UNCHANGED <<issued, expired, delivered, redeemed, req>>

(* delete_me: the password is compared with the row the middleware read;   *)
(* the DELETE follows, or 401.                                             *)
DeleteMe(w, u, old) ==
  /\ Ready(w, "delete")
  /\ u \in DOMAIN rows
  /\ Verifies(u, old)
  /\ Goto(w, [pc |-> "delete", user |-> u, old |-> old])
  /\ UNCHANGED <<rows, issued, expired, delivered, redeemed>>

DeleteUser(w) ==
  /\ req[w].pc = "delete"
  /\ rows' = DeleteRows({req[w].user})
  /\ Done(w)
  /\ UNCHANGED <<issued, expired, delivered, redeemed>>

-----------------------------------------------------------------------------
(* What happens by itself.                                                 *)

(* The cron job: one DELETE of every matching row. *)
Cleanup ==
  LET dead == {u \in DOMAIN rows : DeadRegistration(u)} IN
  /\ dead # {}
  /\ rows' = DeleteRows(dead)
  /\ UNCHANGED <<issued, expired, delivered, redeemed, req>>

(* Time passes the expiry of a token: 24 hours, or 30 minutes for a reset. *)
TokenExpires(t) ==
  /\ t \in Tokens \ expired
  /\ expired' = expired \cup {t}
  /\ UNCHANGED <<rows, issued, delivered, redeemed, req>>

(* A request ends at an await without its remaining statements: a database *)
(* error, a client that closed the connection, a process that stopped.     *)
Abort(w) ==
  /\ req[w] # Idle
  /\ Done(w)
  /\ UNCHANGED <<rows, issued, expired, delivered, redeemed>>

Call(w) ==
  \/ \E u \in Users, e \in Emails, n \in Names, p \in Passwords :
       Register(w, u, e, n, p)
  \/ \E t \in Tokens : VerifyEmail(w, t)
  \/ \E t \in Tokens, p \in Passwords : ResetPassword(w, t, p)
  \/ \E u \in Users : ForgotPassword(w, u)
  \/ \E u \in Users, e \in Emails : UpdateEmail(w, u, e)
  \/ \E u \in Users, n \in Names : UpdateName(w, u, n)
  \/ \E u \in Users, old, p \in Passwords : UpdatePassword(w, u, old, p)
  \/ \E u \in Users, old \in Passwords : DeleteMe(w, u, old)

Mail(w) == MailSent(w) \/ MailRefused(w) \/ MailUnbuilt(w)

Continue(w) ==
  \/ AddVerifedToken(w)
  \/ VerifedToken(w)
  \/ SwapEmail(w)
  \/ SetUserPassword(w)
  \/ DeleteUser(w)
  \/ Abort(w)

NextBesidesMail ==
  \/ \E w \in Workers : Call(w) \/ Continue(w)
  \/ \E t \in Tokens : TokenExpires(t)
  \/ Cleanup

Next == NextBesidesMail \/ \E w \in Workers : Mail(w)

(* The scheduler fires every day; nothing else is promised to happen. *)
Spec == Init /\ [][Next]_vars /\ WF_vars(Cleanup)

-----------------------------------------------------------------------------
(* Properties.                                                             *)

(* Every variable stays in its set: slots and requests only name tokens    *)
(* that were generated, and every request carries what its next statement  *)
(* needs.                                                                  *)
TypeOK ==
  /\ DOMAIN rows \subseteq Users
  /\ rows \in [DOMAIN rows -> Row]
  /\ issued \in Seq(TokenInfo)
  /\ Len(issued) <= MaxTokens
  /\ expired \subseteq Tokens
  /\ delivered \subseteq Tokens
  /\ redeemed \subseteq Tokens
  /\ req \in [Workers -> Request]

(* get_user takes the first row an e-mail, a username or a token selects,  *)
(* and verifed_token writes every row a token selects: both rely on each   *)
(* of the three selecting at most one row, although the address a change   *)
(* link carries was checked a day before it is written.                    *)
LookupUnambiguous ==
  \A u, v \in DOMAIN rows : u # v =>
    /\ rows[u].email # rows[v].email
    /\ rows[u].name # rows[v].name
    /\ rows[u].token # NoToken => rows[u].token # rows[v].token

(* The token in a slot was made for that row, and a request that got past  *)
(* the expiry check holds a link that arrived and still writes the row the *)
(* link was made for, although it writes by id, or by token, or by the     *)
(* address in the token, when slot and row may have changed since.         *)
LinksMatchAccounts ==
  /\ \A u \in DOMAIN rows :
       rows[u].token # NoToken => issued[rows[u].token].user = u
  /\ \A w \in Workers :
       /\ req[w].pc \in {"verify", "spend", "resetPassword", "swapEmail"} =>
            req[w].token \in delivered /\ issued[req[w].token].user = req[w].user
       /\ req[w].pc = "swapEmail" => issued[req[w].token].kind = "change"

(* A row that is not verified always has a token in its slot.  The slot is *)
(* overwritten by resets and e-mail changes and emptied by two handlers;   *)
(* an unverified row with an empty slot could neither be verified by a     *)
(* link nor be matched by the clean-up job (NULL < NOW()), for ever.       *)
UnverifiedHasToken ==
  \A u \in DOMAIN rows : ~rows[u].verified => rows[u].token # NoToken

(* A verified row is one for which at least one link was mailed, arrived,  *)
(* and was followed: no interleaving of resets, changes and deletions lets *)
(* the redeeming UPDATE hit another account's row.                         *)
VerifiedWitness ==
  \A u \in DOMAIN rows : rows[u].verified =>
    \E t \in redeemed \cap delivered : issued[t].user = u

(* The addresses an account may come to have: the one it registered with   *)
(* and those where a change link made for this account arrived.            *)
Reached(u) ==
  {issued[t].addr : t \in {s \in Tokens :
     /\ issued[s].user = u
     /\ issued[s].kind = "verify" \/ (issued[s].kind = "change" /\ s \in delivered)}}

(* The address of an account is always one of those.  It is written a      *)
(* statement after the token was spent, by id, from the text of the token, *)
(* when the row may hold another token, or be gone.                        *)
EmailProvenance == \A u \in DOMAIN rows : rows[u].email \in Reached(u)

(* A reset link only goes to such an address of its account, although the  *)
(* address is read two statements before the mail and may be replaced in   *)
(* between: at worst the mail goes to the account's earlier address.       *)
ResetLinksGoHome ==
  \A u \in Users :
    /\ \A t \in Tokens :
         issued[t].kind = "reset" /\ issued[t].user = u => issued[t].addr \in Reached(u)
    /\ \A w \in Workers :
         req[w].pc = "store" /\ req[w].kind = "reset" /\ req[w].user = u =>
           req[w].addr \in Reached(u)

(* The link is in no slot. *)
Dead(t) == \A u \in DOMAIN rows : rows[u].token # t

(* The requests that got past the check of a link and still carry it. *)
Carriers(t) ==
  {w \in Workers : /\ req[w].pc \in {"verify", "spend", "resetPassword", "swapEmail"}
                   /\ req[w].token = t}

(* A dead link drains.  A link that was spent or overwritten never comes   *)
(* back, and it can still do something only in the requests that had found *)
(* it in its row before (two resets with one link, a verification that     *)
(* races with a new link): no request joins them.                          *)
DeadLinksDrain ==
  [][\A t \in Tokens :
       Dead(t) => Dead(t)' /\ Carriers(t)' \subseteq Carriers(t)]_vars

(* A request that compared a password and has not written yet, when the    *)
(* password in the row is another one by now.                              *)
Compared(w) == req[w].pc \in {"changePassword", "delete"}
Outdated(w) ==
  /\ Compared(w)
  /\ req[w].user \in DOMAIN rows
  /\ rows[req[w].user].password # req[w].old

(* delete_me and update_user_password write by id and do not look at the   *)
(* password again.  What they compared is outdated only when the password  *)
(* UPDATE of another request for the same account came in between: whoever *)
(* deletes an account, or changes its password, knew the password that the *)
(* row had then, and no reset, deletion, clean-up or new registration      *)
(* makes it the password of another account.                               *)
OutdatedByOthers ==
  [][\A w \in Workers : Outdated(w)' =>
       /\ Compared(w) /\ req'[w] = req[w]
       /\ \/ Outdated(w)
          \/ \E x \in Workers \ {w} :
               /\ req[x].pc \in {"resetPassword", "changePassword"}
               /\ req[x].user = req[w].user /\ req'[x] # req[x]]_vars

(* The password of an account changes only in a request for that account   *)
(* that either checked its old password or presented a token that was made *)
(* for the account and mailed to an address the account had, or asked for. *)
PasswordChangeJustified ==
  [][\A u \in DOMAIN rows \cap DOMAIN rows' :
       rows'[u].password # rows[u].password =>
         \E w \in Workers :
           /\ req[w] # Idle /\ req'[w] # req[w]
           /\ \/ req[w].pc = "changePassword" /\ req[w].user = u
              \/ /\ req[w].pc = "resetPassword"
                 /\ req[w].token \in delivered
                 /\ issued[req[w].token].user = u
                 /\ issued[req[w].token].addr \in Reached(u)]_vars

(* An unverified row whose token has expired does not stay: it is removed, *)
(* or somebody verifies it or gets it a new token.                         *)
DeadRegistrationsEnd ==
  \A u \in Users :
    (u \in DOMAIN rows /\ ~rows[u].verified /\ rows[u].token \in expired)
      ~> ~(u \in DOMAIN rows /\ ~rows[u].verified /\ rows[u].token \in expired)

(* models.rs says of the column verified: "Whether email has been          *)
(* verified".  Read for the address in the row, and only while no request  *)
(* is running: some link mailed to that address was followed.              *)
VerifiedMeansEmailVerified ==
  (\A w \in Workers : req[w] = Idle) =>
    \A u \in DOMAIN rows : rows[u].verified =>
      \E t \in redeemed : issued[t].user = u /\ issued[t].addr = rows[u].email

(* How far that comment holds at every moment.  An account has one         *)
(* registration, its reset links go where that link went, and the address  *)
(* of the row moves only after a change link was redeemed.  So a verified  *)
(* row was verified at its present address unless a change link of its own *)
(* was redeemed and the second statement did not follow, or did nothing.   *)
UnconfirmedOnlyByChange ==
  \A u \in DOMAIN rows : rows[u].verified =>
    \E t \in redeemed :
      /\ issued[t].user = u
      /\ issued[t].addr = rows[u].email \/ issued[t].kind = "change"

-----------------------------------------------------------------------------
(* What the handlers implement: AccountLifecycle.                          *)

stage ==
  [u \in Users |->
    IF u \in DOMAIN rows THEN IF rows[u].verified THEN "active" ELSE "pending"
    ELSE IF \E t \in Tokens : issued[t].user = u /\ issued[t].kind = "verify"
    THEN "gone" ELSE "none"]

link == [u \in Users |-> IF u \in DOMAIN rows THEN rows[u].token ELSE NoToken]

Lifecycle == INSTANCE AccountLifecycle WITH last <- Len(issued)

(* Statement by statement, the handlers and the clean-up move an account   *)
(* through the life AccountLifecycle describes, with no state in between.  *)
ImplementsLifecycle == Lifecycle!Spec

=============================================================================
