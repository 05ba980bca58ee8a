--------------------------- MODULE AccountsProofs ---------------------------
(***************************************************************************)
(* Theorems about Accounts, for every set of users, addresses, passwords   *)
(* and workers and every bound on the tokens.                              *)
(***************************************************************************)
EXTENDS Accounts, SequenceTheorems, TLAPS

(* What generating one more token does to the sequence of the tokens.      *)
LEMMA AppendToken ==
  ASSUME issued \in Seq(TokenInfo), NEW x \in TokenInfo,
         issued' = Append(issued, x)
  PROVE  /\ issued' \in Seq(TokenInfo)
         /\ Len(issued') = Len(issued) + 1
         /\ Tokens' = Tokens \cup {FreshToken}
         /\ FreshToken \in Nat \ {0} /\ FreshToken \notin Tokens
         /\ issued'[FreshToken] = x
         /\ \A t \in Tokens : issued'[t] = issued[t]
<1>1. /\ issued' \in Seq(TokenInfo)
      /\ Len(issued) \in Nat
      /\ Len(issued') = Len(issued) + 1
      /\ issued'[Len(issued) + 1] = x
      /\ \A t \in 1 .. Len(issued) : issued'[t] = issued[t]
  OBVIOUS
<1>2. Tokens' = Tokens \cup {FreshToken}
  BY <1>1 DEF Tokens, FreshToken
<1>. QED BY <1>1, <1>2 DEF Tokens, FreshToken

-----------------------------------------------------------------------------
(* Type correctness.                                                       *)

LEMMA TypeInit == Init => TypeOK
<1>. SUFFICES ASSUME Init PROVE TypeOK
  OBVIOUS
<1>1. rows \in [DOMAIN rows -> Row] /\ DOMAIN rows = {}
  BY DEF Init
<1>2. issued \in Seq(TokenInfo) /\ Len(issued) = 0
  BY DEF Init
<1>3. req \in [Workers -> Request]
  BY DEF Init, Request, Idle
<1>. QED BY <1>1, <1>2, <1>3, AccountsAssumption DEF Init, TypeOK

(* What a request carries, by the statement it is at.                      *)
LEMMA Carried ==
  ASSUME TypeOK, NEW w \in Workers
  PROVE  /\ req[w] \in Request
         /\ req[w].pc = "store" =>
              /\ req[w].user \in Users /\ req[w].addr \in Emails
              /\ req[w].kind \in {"reset", "change"}
         /\ req[w].pc = "mail" => req[w].token \in Tokens
         /\ req[w].pc \in {"verify", "spend", "swapEmail", "resetPassword"} =>
              req[w].user \in Users /\ req[w].token \in Tokens
         /\ req[w].pc \in {"resetPassword", "changePassword"} =>
              req[w].user \in Users /\ req[w].password \in Passwords
         /\ req[w].pc \in {"delete", "changePassword"} =>
              req[w].user \in Users /\ req[w].old \in Passwords
<1>1. req[w] \in Request
  BY DEF TypeOK
<1>. QED BY <1>1 DEF Request, Idle

(* A step that generates no token leaves the sets of rows and requests as  *)
(* they are; one that generates a token makes them larger.                 *)
LEMMA SetsKept ==
  ASSUME UNCHANGED issued
  PROVE  Tokens' = Tokens /\ Row' = Row /\ Request' = Request
<1>1. Tokens' = Tokens
  BY DEF Tokens
<1>. QED BY <1>1 DEF Row, Request, Idle

LEMMA SetsGrow ==
  ASSUME Tokens \subseteq Tokens'
  PROVE  Row \subseteq Row' /\ Request \subseteq Request'
<1>1. Row \subseteq Row'
  BY DEF Row
<1>2. ASSUME NEW r \in Request PROVE r \in Request'
  BY DEF Request, Idle
<1>. QED BY <1>1, <1>2

(* The UPDATE statements keep every row a row.                             *)
LEMMA StatementsKeepRows ==
  ASSUME DOMAIN rows \subseteq Users, rows \in [DOMAIN rows -> Row]
  PROVE  /\ \A t : SpendToken(t) \in [DOMAIN rows -> Row]
         /\ \A u \in Users, e \in Emails : SetEmail(u, e) \in [DOMAIN rows -> Row]
         /\ \A u \in Users, n \in Names : SetName(u, n) \in [DOMAIN rows -> Row]
         /\ \A u \in Users, p \in Passwords : SetPassword(u, p) \in [DOMAIN rows -> Row]
<1>1. \A t : SpendToken(t) \in [DOMAIN rows -> Row]
  BY DEF SpendToken, Row
<1>2. \A u \in Users, e \in Emails : SetEmail(u, e) \in [DOMAIN rows -> Row]
  BY DEF SetEmail, Row
<1>3. \A u \in Users, n \in Names : SetName(u, n) \in [DOMAIN rows -> Row]
  BY DEF SetName, Row
<1>4. \A u \in Users, p \in Passwords : SetPassword(u, p) \in [DOMAIN rows -> Row]
  BY DEF SetPassword, Row
<1>. QED BY <1>1, <1>2, <1>3, <1>4

(* A request that only moves: nothing else changes.                        *)
LEMMA TypeMove ==
  ASSUME TypeOK, NEW w \in Workers, NEW r \in Request, Goto(w, r),
         UNCHANGED <<rows, issued, expired, redeemed>>,
         delivered' \subseteq Tokens
  PROVE  TypeOK'
<1>1. Tokens' = Tokens /\ Row' = Row /\ Request' = Request
  BY SetsKept
<1>2. req' \in [Workers -> Request]
  BY DEF TypeOK, Goto
<1>. QED BY <1>1, <1>2 DEF TypeOK

(* A statement that changes rows, and the request that issued it moves.    *)
LEMMA TypeWrite ==
  ASSUME TypeOK, NEW w \in Workers, NEW r \in Request, Goto(w, r),
         rows' \in [DOMAIN rows' -> Row], DOMAIN rows' \subseteq Users,
         UNCHANGED <<issued, expired, delivered>>,
         redeemed' \subseteq Tokens
  PROVE  TypeOK'
<1>1. Tokens' = Tokens /\ Row' = Row /\ Request' = Request
  BY SetsKept
<1>2. req' \in [Workers -> Request]
  BY DEF TypeOK, Goto
<1>. QED BY <1>1, <1>2 DEF TypeOK

(* A statement that stores a fresh token.                                  *)
LEMMA TypeGenerate ==
  ASSUME TypeOK, NEW w \in Workers, NEW x \in TokenInfo,
         FreshToken <= MaxTokens,
         issued' = Append(issued, x),
         Goto(w, [pc |-> "mail", token |-> FreshToken]),
         UNCHANGED <<expired, delivered, redeemed>>,
         DOMAIN rows' \subseteq Users,
         rows' \in [DOMAIN rows' -> Row']
  PROVE  TypeOK'
<1>1. /\ issued' \in Seq(TokenInfo) /\ Len(issued') = FreshToken
      /\ Tokens' = Tokens \cup {FreshToken}
  BY AppendToken DEF TypeOK, FreshToken
<1>2. Request \subseteq Request'
  BY <1>1, SetsGrow
<1>3. [pc |-> "mail", token |-> FreshToken] \in Request'
  BY <1>1 DEF Request
<1>4. req' \in [Workers -> Request']
  BY <1>2, <1>3 DEF TypeOK, Goto
<1>. QED BY <1>1, <1>4 DEF TypeOK

LEMMA TypeNext == TypeOK /\ [Next]_vars => TypeOK'
<1>. SUFFICES ASSUME TypeOK, [Next]_vars PROVE TypeOK'
  OBVIOUS
<1>0. Idle \in Request
  BY DEF Request
<1>1. ASSUME NEW w \in Workers, NEW u \in Users, NEW e \in Emails,
             NEW n \in Names, NEW p \in Passwords, Register(w, u, e, n, p)
      PROVE  TypeOK'
  <2>. DEFINE x == [user |-> u, kind |-> "verify", addr |-> e]
  <2>1. x \in TokenInfo
    BY DEF TokenInfo, Kinds
  <2>2. /\ Tokens' = Tokens \cup {FreshToken} /\ FreshToken \in Nat \ {0}
    BY <1>1, <2>1, AppendToken DEF Register, TypeOK
  <2>3. Row \subseteq Row'
    BY <2>2, SetsGrow
  <2>4. [email |-> e, name |-> n, password |-> p, verified |-> FALSE,
         token |-> FreshToken] \in Row'
    BY <2>2 DEF Row
  <2>5. /\ DOMAIN rows' \subseteq Users
        /\ rows' \in [DOMAIN rows' -> Row']
    BY <1>1, <2>3, <2>4 DEF Register, SaveUser, TypeOK
  <2>. QED BY <1>1, <2>1, <2>5, TypeGenerate DEF Register
<1>2. ASSUME NEW w \in Workers, NEW t \in Tokens, VerifyEmail(w, t)
      PROVE  TypeOK'
  <2>1. PICK u \in HolderOf(t) : Goto(w, [pc |-> "verify", user |-> u, token |-> t])
    BY <1>2 DEF VerifyEmail
  <2>2. [pc |-> "verify", user |-> u, token |-> t] \in Request
    BY DEF HolderOf, TypeOK, Request
  <2>. QED BY <1>2, <2>1, <2>2, TypeMove DEF VerifyEmail, TypeOK
<1>3. ASSUME NEW w \in Workers, NEW t \in Tokens, NEW p \in Passwords,
             ResetPassword(w, t, p)
      PROVE  TypeOK'
  <2>1. PICK u \in HolderOf(t) :
          Goto(w, [pc |-> "resetPassword", user |-> u, token |-> t, password |-> p])
    BY <1>3 DEF ResetPassword
  <2>2. [pc |-> "resetPassword", user |-> u, token |-> t, password |-> p] \in Request
    BY DEF HolderOf, TypeOK, Request
  <2>. QED BY <1>3, <2>1, <2>2, TypeMove DEF ResetPassword, TypeOK
<1>4. ASSUME NEW w \in Workers, NEW u \in Users, ForgotPassword(w, u)
      PROVE  TypeOK'
  <2>1. [pc |-> "store", user |-> u, kind |-> "reset", addr |-> rows[u].email] \in Request
    BY <1>4 DEF ForgotPassword, TypeOK, Row, Request
  <2>. QED BY <1>4, <2>1, TypeMove DEF ForgotPassword, TypeOK
<1>5. ASSUME NEW w \in Workers, NEW u \in Users, NEW e \in Emails, UpdateEmail(w, u, e)
      PROVE  TypeOK'
  <2>1. [pc |-> "store", user |-> u, kind |-> "change", addr |-> e] \in Request
    BY DEF Request
  <2>. QED BY <1>5, <2>1, TypeMove DEF UpdateEmail, TypeOK
<1>6. ASSUME NEW w \in Workers, NEW u \in Users, NEW n \in Names, UpdateName(w, u, n)
      PROVE  TypeOK'
  <2>1. rows' \in [DOMAIN rows -> Row]
    BY <1>6, StatementsKeepRows DEF UpdateName, TypeOK
  <2>. QED BY <1>6, <2>1, SetsKept DEF UpdateName, TypeOK
<1>7. ASSUME NEW w \in Workers, NEW u \in Users, NEW old \in Passwords,
             NEW p \in Passwords, UpdatePassword(w, u, old, p)
      PROVE  TypeOK'
  <2>1. [pc |-> "changePassword", user |-> u, old |-> old, password |-> p] \in Request
    BY DEF Request
  <2>. QED BY <1>7, <2>1, TypeMove DEF UpdatePassword, TypeOK
<1>8. ASSUME NEW w \in Workers, NEW u \in Users, NEW old \in Passwords,
             DeleteMe(w, u, old)
      PROVE  TypeOK'
  <2>1. [pc |-> "delete", user |-> u, old |-> old] \in Request
    BY DEF Request
  <2>. QED BY <1>8, <2>1, TypeMove DEF DeleteMe, TypeOK
<1>9. ASSUME NEW w \in Workers, AddVerifedToken(w)
      PROVE  TypeOK'
  <2>. DEFINE r == req[w]
              x == [user |-> r.user, kind |-> r.kind, addr |-> r.addr]
  <2>1. x \in TokenInfo
    BY <1>9, Carried DEF AddVerifedToken, TokenInfo, Kinds
  <2>2. /\ Tokens' = Tokens \cup {FreshToken} /\ FreshToken \in Nat \ {0}
    BY <1>9, <2>1, AppendToken DEF AddVerifedToken, TypeOK
  <2>3. rows' \in [DOMAIN rows -> Row']
    <3>1. Row \subseteq Row'
      BY <2>2, SetsGrow
    <3>2. \A v \in DOMAIN rows : [rows[v] EXCEPT !.token = FreshToken] \in Row'
      BY <2>2 DEF TypeOK, Row
    <3>. QED BY <1>9, <3>1, <3>2 DEF AddVerifedToken, StoreToken, TypeOK
  <2>. QED BY <1>9, <2>1, <2>3, TypeGenerate DEF AddVerifedToken, TypeOK
<1>10. ASSUME NEW w \in Workers, Mail(w)
       PROVE  TypeOK'
  <2>1. delivered' \subseteq Tokens
    BY <1>10, Carried DEF Mail, MailSent, MailRefused, MailUnbuilt, TypeOK
  <2>. QED BY <1>0, <1>10, <2>1, TypeMove DEF Mail, MailSent, MailRefused, MailUnbuilt, Done
<1>11. ASSUME NEW w \in Workers, VerifedToken(w)
       PROVE  TypeOK'
  <2>. DEFINE next == IF req[w].pc = "verify" /\ issued[req[w].token].kind = "change"
                      THEN [pc |-> "swapEmail", user |-> req[w].user,
                            token |-> req[w].token]
                      ELSE Idle
  <2>1. req[w].user \in Users /\ req[w].token \in Tokens
    BY <1>11, Carried DEF VerifedToken
  <2>2. next \in Request
    BY <1>0, <2>1 DEF Request
  <2>3. rows' \in [DOMAIN rows -> Row] /\ redeemed' \subseteq Tokens
    BY <1>11, <2>1, StatementsKeepRows DEF VerifedToken, TypeOK
  <2>4. Goto(w, next)
    BY <1>11 DEF VerifedToken
  <2>. QED BY <1>11, <2>2, <2>3, <2>4, TypeWrite DEF VerifedToken, TypeOK
<1>12. ASSUME NEW w \in Workers, SwapEmail(w)
       PROVE  TypeOK'
  <2>1. issued[req[w].token].addr \in Emails
    <3>1. req[w].token \in Tokens
      BY <1>12, Carried DEF SwapEmail
    <3>2. issued[req[w].token] \in TokenInfo
      BY <3>1 DEF TypeOK, Tokens
    <3>. QED BY <3>2 DEF TokenInfo
  <2>2. rows' \in [DOMAIN rows -> Row]
    <3>1. req[w].user \in Users
      BY <1>12, Carried DEF SwapEmail
    <3>. QED BY <1>12, <2>1, <3>1, StatementsKeepRows DEF SwapEmail, TypeOK
  <2>. QED BY <1>0, <1>12, <2>2, TypeWrite DEF SwapEmail, Done, TypeOK
<1>13. ASSUME NEW w \in Workers, SetUserPassword(w)
       PROVE  TypeOK'
  <2>1. rows' \in [DOMAIN rows -> Row]
    BY <1>13, Carried, StatementsKeepRows DEF SetUserPassword, TypeOK
  <2>2. AfterPassword(req[w]) \in Request
    BY <1>0, <1>13, Carried DEF SetUserPassword, AfterPassword, Request
  <2>. QED BY <1>13, <2>1, <2>2, TypeWrite DEF SetUserPassword, TypeOK
<1>14. ASSUME NEW w \in Workers, DeleteUser(w)
       PROVE  TypeOK'
  <2>1. rows' \in [DOMAIN rows' -> Row] /\ DOMAIN rows' \subseteq Users
    BY <1>14 DEF DeleteUser, DeleteRows, TypeOK
  <2>2. Row' = Row
    BY <1>14, SetsKept DEF DeleteUser
  <2>. QED BY <1>0, <1>14, <2>1, <2>2, TypeWrite DEF DeleteUser, Done, TypeOK
<1>15. ASSUME NEW w \in Workers, Abort(w)
       PROVE  TypeOK'
  BY <1>0, <1>15, TypeMove DEF Abort, Done, TypeOK
<1>16. ASSUME NEW t \in Tokens, TokenExpires(t)
       PROVE  TypeOK'
  BY <1>16, SetsKept DEF TokenExpires, TypeOK
<1>17. CASE Cleanup
  <2>1. rows' \in [DOMAIN rows' -> Row] /\ DOMAIN rows' \subseteq Users
    BY <1>17 DEF Cleanup, DeleteRows, TypeOK
  <2>. QED BY <1>17, <2>1, SetsKept DEF Cleanup, TypeOK
<1>18. CASE UNCHANGED vars
  BY <1>18, SetsKept DEF vars, TypeOK
<1>. QED BY <1>1, <1>2, <1>3, <1>4, <1>5, <1>6, <1>7, <1>8, <1>9, <1>10, <1>11,
            <1>12, <1>13, <1>14, <1>15, <1>16, <1>17, <1>18
         DEF Next, NextBesidesMail, Call, Continue

(* The table, the tokens and the requests always have the form the         *)
(* handlers rely on: no slot and no request names a token that was never   *)
(* generated.                                                              *)
THEOREM TypeCorrect == Spec => []TypeOK
BY TypeInit, TypeNext, PTL DEF Spec

-----------------------------------------------------------------------------
(* What one step can do to the tokens, to a row and to a request.          *)

(* The histories only grow. *)
Growth ==
  /\ Tokens \subseteq Tokens'
  /\ delivered \subseteq delivered'
  /\ redeemed \subseteq redeemed'
  /\ \A t \in Tokens : issued'[t] = issued[t]

(* The one token a step may generate. *)
TokenLife ==
  \/ issued' = issued
  \/ /\ Tokens' = Tokens \cup {FreshToken} /\ FreshToken \notin Tokens
     /\ \/ /\ issued'[FreshToken].kind = "verify"
           /\ \A t \in Tokens : issued[t].user # issued'[FreshToken].user
        \/ \E w \in Workers :
             /\ req[w].pc = "store"
             /\ issued'[FreshToken] =
                  [user |-> req[w].user, kind |-> req[w].kind, addr |-> req[w].addr]

(* A row is new, ... *)
Born(u) ==
  /\ u \notin DOMAIN rows
  /\ \A t \in Tokens : issued[t].user # u
  /\ rows'[u].token = FreshToken /\ ~rows'[u].verified
  /\ FreshToken \in Tokens' \ Tokens
  /\ issued'[FreshToken] = [user |-> u, kind |-> "verify", addr |-> rows'[u].email]

(* ... or keeps slot, mark and address, ... *)
Kept(u) ==
  /\ u \in DOMAIN rows
  /\ rows'[u].token = rows[u].token
  /\ rows'[u].verified = rows[u].verified
  /\ rows'[u].email = rows[u].email

(* ... or gets a fresh token, ... *)
Linked(u) ==
  /\ u \in DOMAIN rows
  /\ rows'[u].token = FreshToken
  /\ FreshToken \in Tokens' \ Tokens /\ issued'[FreshToken].user = u
  /\ rows'[u].verified = rows[u].verified
  /\ rows'[u].email = rows[u].email

(* ... or has its token spent by a request, ... *)
Spent(u) ==
  /\ u \in DOMAIN rows
  /\ \E w \in Workers :
       /\ req[w].pc \in {"verify", "spend"}
       /\ rows[u].token = req[w].token
       /\ req[w].token \in redeemed'
  /\ rows'[u].token = NoToken
  /\ rows'[u].verified = TRUE
  /\ rows'[u].email = rows[u].email

(* ... or gets the address of a link a request carries. *)
Moved(u) ==
  /\ u \in DOMAIN rows
  /\ rows'[u].token = rows[u].token
  /\ rows'[u].verified = rows[u].verified
  /\ \E w \in Workers :
       /\ req[w].pc = "swapEmail" /\ req[w].user = u
       /\ rows'[u].email = issued[req[w].token].addr
       /\ EmailFree(u, rows'[u].email)

RowLife ==
  \A u \in DOMAIN rows' : Born(u) \/ Kept(u) \/ Linked(u) \/ Spent(u) \/ Moved(u)

(* A request that now holds a link held it before, or has just found it in *)
(* a row; one that is to store a reset link has just read the address.     *)
RequestLife ==
  \A w \in Workers :
    \/ req'[w] = req[w]
    \/ /\ req'[w].pc \in {"verify", "resetPassword"}
       /\ req'[w].token \in delivered
       /\ req'[w].user \in DOMAIN rows
       /\ rows[req'[w].user].token = req'[w].token
       /\ req'[w].token \in Tokens
    \/ /\ req[w].pc = "resetPassword" /\ req'[w].pc = "spend"
       /\ req'[w].user = req[w].user /\ req'[w].token = req[w].token
    \/ /\ req[w].pc = "verify" /\ req'[w].pc = "swapEmail"
       /\ req'[w].user = req[w].user /\ req'[w].token = req[w].token
       /\ issued[req[w].token].kind = "change"
       /\ req[w].token \in redeemed'
    \/ /\ req'[w].pc = "store"
       /\ req'[w].user \in DOMAIN rows
       /\ \/ req'[w].kind = "change"
          \/ /\ req'[w].kind = "reset"
             /\ req'[w].addr = rows[req'[w].user].email
    \/ req'[w].pc \in {"idle", "mail", "changePassword", "delete"}

Lives == Growth /\ TokenLife /\ RowLife /\ RequestLife

(* A step that leaves the table and the tokens alone.                      *)
LEMMA LivesMove ==
  ASSUME TypeOK, UNCHANGED <<rows, issued, redeemed>>,
         delivered \subseteq delivered', RequestLife
  PROVE  Lives
<1>1. Growth
  BY SetsKept DEF Growth
<1>2. RowLife
  BY DEF RowLife, Kept
<1>. QED BY <1>1, <1>2 DEF Lives, TokenLife

(* A step that changes rows and generates no token.                        *)
LEMMA LivesWrite ==
  ASSUME TypeOK, UNCHANGED <<issued, delivered>>,
         redeemed \subseteq redeemed', RowLife, RequestLife
  PROVE  Lives
<1>1. Growth
  BY SetsKept DEF Growth
<1>. QED BY <1>1 DEF Lives, TokenLife

(* One worker's request moves to a statement where it holds no link.       *)
LEMMA RequestGoes ==
  ASSUME TypeOK, NEW w \in Workers, NEW r,
         r.pc \in {"idle", "mail", "changePassword", "delete"}, Goto(w, r)
  PROVE  RequestLife
BY DEF Goto, RequestLife, TypeOK

LEMMA StepLives == TypeOK /\ [Next]_vars => Lives
<1>. SUFFICES ASSUME TypeOK, [Next]_vars PROVE Lives
  OBVIOUS
<1>0. Idle.pc = "idle"
  BY DEF Idle
<1>1. ASSUME NEW w \in Workers, NEW u \in Users, NEW e \in Emails,
             NEW n \in Names, NEW p \in Passwords, Register(w, u, e, n, p)
      PROVE  Lives
  <2>. DEFINE x == [user |-> u, kind |-> "verify", addr |-> e]
  <2>1. x \in TokenInfo
    BY DEF TokenInfo, Kinds
  <2>2. /\ Tokens' = Tokens \cup {FreshToken} /\ FreshToken \notin Tokens
        /\ issued'[FreshToken] = x
        /\ \A t \in Tokens : issued'[t] = issued[t]
    BY <1>1, <2>1, AppendToken DEF Register, TypeOK
  <2>3. Growth /\ TokenLife
    <3>1. Growth
      BY <1>1, <2>2 DEF Growth, Register
    <3>2. issued'[FreshToken].kind = "verify" /\ issued'[FreshToken].user = u
      BY <2>2
    <3>3. \A t \in Tokens : issued[t].user # u
      BY <1>1 DEF Register, NewId
    <3>. QED BY <2>2, <3>1, <3>2, <3>3 DEF TokenLife
  <2>4. Born(u)
    BY <1>1, <2>2 DEF Register, NewId, SaveUser, Born
  <2>5. ASSUME NEW v \in DOMAIN rows', v # u PROVE Kept(v)
    BY <1>1, <2>5 DEF Register, SaveUser, Kept
  <2>6. RequestLife
    BY <1>1, RequestGoes DEF Register
  <2>. QED BY <2>3, <2>4, <2>5, <2>6 DEF Lives, RowLife
<1>2. ASSUME NEW w \in Workers, NEW t \in Tokens, VerifyEmail(w, t)
      PROVE  Lives
  <2>1. RequestLife
    BY <1>2 DEF VerifyEmail, HolderOf, Goto, RequestLife, TypeOK
  <2>. QED BY <1>2, <2>1, LivesMove DEF VerifyEmail
<1>3. ASSUME NEW w \in Workers, NEW t \in Tokens, NEW p \in Passwords,
             ResetPassword(w, t, p)
      PROVE  Lives
  <2>1. RequestLife
    BY <1>3 DEF ResetPassword, HolderOf, Goto, RequestLife, TypeOK
  <2>. QED BY <1>3, <2>1, LivesMove DEF ResetPassword
<1>4. ASSUME NEW w \in Workers, NEW u \in Users, ForgotPassword(w, u)
      PROVE  Lives
  <2>1. RequestLife
    BY <1>4 DEF ForgotPassword, Goto, RequestLife, TypeOK
  <2>. QED BY <1>4, <2>1, LivesMove DEF ForgotPassword
<1>5. ASSUME NEW w \in Workers, NEW u \in Users, NEW e \in Emails, UpdateEmail(w, u, e)
      PROVE  Lives
  <2>1. RequestLife
    BY <1>5 DEF UpdateEmail, Goto, RequestLife, TypeOK
  <2>. QED BY <1>5, <2>1, LivesMove DEF UpdateEmail
<1>6. ASSUME NEW w \in Workers, NEW u \in Users, NEW n \in Names, UpdateName(w, u, n)
      PROVE  Lives
  <2>1. RowLife
    BY <1>6 DEF UpdateName, SetName, RowLife, Kept, TypeOK, Row
  <2>2. RequestLife
    BY <1>6 DEF UpdateName, RequestLife
  <2>. QED BY <1>6, <2>1, <2>2, LivesWrite DEF UpdateName
<1>7. ASSUME NEW w \in Workers, NEW u \in Users, NEW old \in Passwords,
             NEW p \in Passwords, UpdatePassword(w, u, old, p)
      PROVE  Lives
  BY <1>7, RequestGoes, LivesMove DEF UpdatePassword
<1>8. ASSUME NEW w \in Workers, NEW u \in Users, NEW old \in Passwords,
             DeleteMe(w, u, old)
      PROVE  Lives
  BY <1>8, RequestGoes, LivesMove DEF DeleteMe
<1>9. ASSUME NEW w \in Workers, AddVerifedToken(w)
      PROVE  Lives
  <2>. DEFINE r == req[w]
              x == [user |-> r.user, kind |-> r.kind, addr |-> r.addr]
  <2>1. x \in TokenInfo
    BY <1>9, Carried DEF AddVerifedToken, TokenInfo, Kinds
  <2>2. /\ Tokens' = Tokens \cup {FreshToken} /\ FreshToken \notin Tokens
        /\ issued'[FreshToken] = x
        /\ \A t \in Tokens : issued'[t] = issued[t]
    BY <1>9, <2>1, AppendToken DEF AddVerifedToken, TypeOK
  <2>3. Growth /\ TokenLife
    BY <1>9, <2>2 DEF Growth, TokenLife, AddVerifedToken
  <2>4. ASSUME NEW v \in DOMAIN rows' PROVE Kept(v) \/ Linked(v)
    <3>1. v \in DOMAIN rows /\ rows[v] \in Row
      BY <1>9 DEF AddVerifedToken, StoreToken, TypeOK
    <3>2. CASE v = r.user
      <4>1. rows'[v] = [rows[v] EXCEPT !.token = FreshToken]
        BY <1>9, <3>1, <3>2 DEF AddVerifedToken, StoreToken
      <4>2. issued'[FreshToken].user = v
        BY <2>2, <3>2
      <4>. QED BY <2>2, <3>1, <4>1, <4>2 DEF Linked, Row
    <3>3. CASE v # r.user
      BY <1>9, <3>1, <3>3 DEF AddVerifedToken, StoreToken, Kept
    <3>. QED BY <3>2, <3>3
  <2>5. RequestLife
    BY <1>9, RequestGoes DEF AddVerifedToken
  <2>. QED BY <2>3, <2>4, <2>5 DEF Lives, RowLife
<1>10. ASSUME NEW w \in Workers, Mail(w)
       PROVE  Lives
  BY <1>0, <1>10, RequestGoes, LivesMove
     DEF Mail, MailSent, MailRefused, MailUnbuilt, Done
<1>11. ASSUME NEW w \in Workers, VerifedToken(w)
       PROVE  Lives
  <2>1. RowLife
    BY <1>11 DEF VerifedToken, SpendToken, RowLife, Kept, Spent, TypeOK, Row
  <2>2. RequestLife
    BY <1>0, <1>11 DEF VerifedToken, Goto, RequestLife, TypeOK
  <2>. QED BY <1>11, <2>1, <2>2, LivesWrite DEF VerifedToken
<1>12. ASSUME NEW w \in Workers, SwapEmail(w)
       PROVE  Lives
  <2>1. RowLife
    BY <1>12 DEF SwapEmail, SetEmail, RowLife, Kept, Moved, TypeOK, Row
  <2>2. RequestLife
    BY <1>0, <1>12, RequestGoes DEF SwapEmail, Done
  <2>. QED BY <1>12, <2>1, <2>2, LivesWrite DEF SwapEmail
<1>13. ASSUME NEW w \in Workers, SetUserPassword(w)
       PROVE  Lives
  <2>1. RowLife
    BY <1>13 DEF SetUserPassword, SetPassword, RowLife, Kept, TypeOK, Row
  <2>2. RequestLife
    BY <1>0, <1>13 DEF SetUserPassword, AfterPassword, Goto, RequestLife, TypeOK
  <2>. QED BY <1>13, <2>1, <2>2, LivesWrite DEF SetUserPassword
<1>14. ASSUME NEW w \in Workers, DeleteUser(w)
       PROVE  Lives
  <2>1. RowLife
    BY <1>14 DEF DeleteUser, DeleteRows, RowLife, Kept
  <2>2. RequestLife
    BY <1>0, <1>14, RequestGoes DEF DeleteUser, Done
  <2>. QED BY <1>14, <2>1, <2>2, LivesWrite DEF DeleteUser
<1>15. ASSUME NEW w \in Workers, Abort(w)
       PROVE  Lives
  BY <1>0, <1>15, RequestGoes, LivesMove DEF Abort, Done
<1>16. ASSUME NEW t \in Tokens, TokenExpires(t)
       PROVE  Lives
  BY <1>16, LivesMove DEF TokenExpires, RequestLife
<1>17. CASE Cleanup
  <2>1. RowLife
    BY <1>17 DEF Cleanup, DeleteRows, RowLife, Kept
  <2>. QED BY <1>17, <2>1, LivesWrite DEF Cleanup, RequestLife
<1>18. CASE UNCHANGED vars
  BY <1>18, LivesMove DEF vars, RequestLife
<1>. QED BY <1>1, <1>2, <1>3, <1>4, <1>5, <1>6, <1>7, <1>8, <1>9, <1>10, <1>11,
            <1>12, <1>13, <1>14, <1>15, <1>16, <1>17, <1>18
         DEF Next, NextBesidesMail, Call, Continue

-----------------------------------------------------------------------------
(* Invariants.                                                             *)

LEMMA UnverifiedInit == Init => UnverifiedHasToken
BY DEF Init, UnverifiedHasToken

LEMMA UnverifiedNext ==
  TypeOK /\ UnverifiedHasToken /\ [Next]_vars => UnverifiedHasToken'
<1>. SUFFICES ASSUME TypeOK, UnverifiedHasToken, [Next]_vars,
                     NEW u \in DOMAIN rows', ~rows'[u].verified
              PROVE  rows'[u].token # NoToken
  BY DEF UnverifiedHasToken
<1>1. Born(u) \/ Kept(u) \/ Linked(u) \/ Spent(u) \/ Moved(u)
  BY StepLives DEF Lives, RowLife
<1>2. FreshToken # NoToken
  BY DEF TypeOK, FreshToken, NoToken
<1>. QED BY <1>1, <1>2 DEF Born, Kept, Linked, Spent, Moved, UnverifiedHasToken

(* No interleaving of the handlers leaves an unverified account without a  *)
(* link: it can always still be verified, or be cleaned up.                *)
THEOREM UnverifiedAlwaysHasToken == Spec => []UnverifiedHasToken
<1>1. Init => TypeOK /\ UnverifiedHasToken
  BY TypeInit, UnverifiedInit
<1>2. TypeOK /\ UnverifiedHasToken /\ [Next]_vars => (TypeOK /\ UnverifiedHasToken)'
  BY TypeNext, UnverifiedNext
<1>. QED BY <1>1, <1>2, PTL DEF Spec

LEMMA LinksInit == Init => LinksMatchAccounts
BY DEF Init, Idle, LinksMatchAccounts

LEMMA LinksNext ==
  TypeOK /\ LinksMatchAccounts /\ [Next]_vars => LinksMatchAccounts'
<1>. SUFFICES ASSUME TypeOK, LinksMatchAccounts, [Next]_vars
              PROVE  LinksMatchAccounts'
  OBVIOUS
<1>1. Growth /\ RowLife /\ RequestLife
  BY StepLives DEF Lives
<1>2. ASSUME NEW u \in DOMAIN rows', rows'[u].token # NoToken
      PROVE  issued'[rows'[u].token].user = u
  <2>1. CASE Born(u) \/ Linked(u)
    BY <2>1 DEF Born, Linked
  <2>2. CASE Kept(u) \/ Moved(u)
    <3>1. rows[u].token \in Tokens
      BY <1>2, <2>2 DEF Kept, Moved, TypeOK, Row
    <3>. QED BY <1>1, <1>2, <2>2, <3>1 DEF Kept, Moved, Growth, LinksMatchAccounts
  <2>3. CASE Spent(u)
    BY <1>2, <2>3 DEF Spent
  <2>. QED BY <1>1, <2>1, <2>2, <2>3 DEF RowLife
<1>3. ASSUME NEW w \in Workers
      PROVE  /\ req'[w].pc \in {"verify", "spend", "resetPassword", "swapEmail"} =>
                  /\ req'[w].token \in delivered'
                  /\ issued'[req'[w].token].user = req'[w].user
             /\ req'[w].pc = "swapEmail" => issued'[req'[w].token].kind = "change"
  <2>1. CASE req'[w] = req[w]
    BY <1>1, <2>1, Carried DEF Growth, LinksMatchAccounts
  <2>2. CASE /\ req'[w].pc \in {"verify", "resetPassword"}
             /\ req'[w].token \in delivered
             /\ req'[w].user \in DOMAIN rows
             /\ rows[req'[w].user].token = req'[w].token
             /\ req'[w].token \in Tokens
    <3>1. req'[w].token # NoToken
      BY <2>2 DEF Tokens, NoToken
    <3>. QED BY <1>1, <2>2, <3>1 DEF Growth, LinksMatchAccounts
  <2>3. CASE /\ req[w].pc = "resetPassword" /\ req'[w].pc = "spend"
             /\ req'[w].user = req[w].user /\ req'[w].token = req[w].token
    BY <1>1, <2>3, Carried DEF Growth, LinksMatchAccounts
  <2>4. CASE /\ req[w].pc = "verify" /\ req'[w].pc = "swapEmail"
             /\ req'[w].user = req[w].user /\ req'[w].token = req[w].token
             /\ issued[req[w].token].kind = "change"
    BY <1>1, <2>4, Carried DEF Growth, LinksMatchAccounts
  <2>. QED BY <1>1, <2>1, <2>2, <2>3, <2>4 DEF RequestLife
<1>. QED BY <1>2, <1>3 DEF LinksMatchAccounts

(* A link only ever acts on the account it was made for, however long its  *)
(* request takes and whatever else happens to the row meanwhile.           *)
THEOREM LinksAlwaysMatchAccounts == Spec => []LinksMatchAccounts
<1>1. Init => TypeOK /\ LinksMatchAccounts
  BY TypeInit, LinksInit
<1>2. TypeOK /\ LinksMatchAccounts /\ [Next]_vars => (TypeOK /\ LinksMatchAccounts)'
  BY TypeNext, LinksNext
<1>. QED BY <1>1, <1>2, PTL DEF Spec

LEMMA WitnessInit == Init => VerifiedWitness
BY DEF Init, VerifiedWitness

LEMMA WitnessNext ==
  TypeOK /\ LinksMatchAccounts /\ VerifiedWitness /\ [Next]_vars => VerifiedWitness'
<1>. SUFFICES ASSUME TypeOK, LinksMatchAccounts, VerifiedWitness, [Next]_vars,
                     NEW u \in DOMAIN rows', rows'[u].verified
              PROVE  \E t \in redeemed' \cap delivered' : issued'[t].user = u
  BY DEF VerifiedWitness
<1>1. Growth /\ (Born(u) \/ Kept(u) \/ Linked(u) \/ Spent(u) \/ Moved(u))
  BY StepLives DEF Lives, RowLife
<1>2. CASE Kept(u) \/ Linked(u) \/ Moved(u)
  <2>1. PICK t \in redeemed \cap delivered : issued[t].user = u
    BY <1>2 DEF Kept, Linked, Moved, VerifiedWitness
  <2>. QED BY <1>1, <2>1 DEF Growth, TypeOK
<1>3. CASE Spent(u)
  <2>1. PICK w \in Workers : /\ req[w].pc \in {"verify", "spend"}
                             /\ rows[u].token = req[w].token
                             /\ req[w].token \in redeemed'
    BY <1>3 DEF Spent
  <2>2. req[w].token \in Tokens /\ req[w].token # NoToken
    BY <2>1, Carried DEF Tokens, NoToken
  <2>3. req[w].token \in delivered /\ issued[req[w].token].user = u
    BY <1>3, <2>1, <2>2 DEF Spent, LinksMatchAccounts
  <2>. QED BY <1>1, <2>1, <2>2, <2>3 DEF Growth
<1>. QED BY <1>1, <1>2, <1>3 DEF Born

(* Nobody is verified without having followed a link of that account.      *)
THEOREM VerifiedAlwaysWitnessed == Spec => []VerifiedWitness
<1>1. Init => TypeOK /\ LinksMatchAccounts /\ VerifiedWitness
  BY TypeInit, LinksInit, WitnessInit
<1>2. TypeOK /\ LinksMatchAccounts /\ VerifiedWitness /\ [Next]_vars
        => (TypeOK /\ LinksMatchAccounts /\ VerifiedWitness)'
  BY TypeNext, LinksNext, WitnessNext
<1>. QED BY <1>1, <1>2, PTL DEF Spec

(* The addresses of an account only become more.                           *)
LEMMA ReachedGrows ==
  ASSUME TypeOK, Growth, NEW u PROVE Reached(u) \subseteq Reached(u)'
<1>. SUFFICES ASSUME NEW t \in Tokens, issued[t].user = u,
                     \/ issued[t].kind = "verify"
                     \/ issued[t].kind = "change" /\ t \in delivered
              PROVE  issued[t].addr \in Reached(u)'
  BY DEF Reached
<1>1. t \in Tokens' /\ issued'[t] = issued[t] /\ (t \in delivered => t \in delivered')
  BY DEF Growth
<1>. QED BY <1>1 DEF Reached

LEMMA ProvenanceInit == Init => EmailProvenance /\ ResetLinksGoHome
BY DEF Init, EmailProvenance, ResetLinksGoHome, Tokens, Idle

LEMMA ProvenanceNext ==
  TypeOK /\ LinksMatchAccounts /\ EmailProvenance /\ [Next]_vars => EmailProvenance'
<1>. SUFFICES ASSUME TypeOK, LinksMatchAccounts, EmailProvenance, [Next]_vars,
                     NEW u \in DOMAIN rows'
              PROVE  rows'[u].email \in Reached(u)'
  BY DEF EmailProvenance
<1>1. Growth /\ (Born(u) \/ Kept(u) \/ Linked(u) \/ Spent(u) \/ Moved(u))
  BY StepLives DEF Lives, RowLife
<1>2. Reached(u) \subseteq Reached(u)'
  BY <1>1, ReachedGrows
<1>3. CASE Born(u)
  <2>1. /\ FreshToken \in Tokens' /\ issued'[FreshToken].user = u
        /\ issued'[FreshToken].kind = "verify"
        /\ issued'[FreshToken].addr = rows'[u].email
    BY <1>3 DEF Born
  <2>. QED BY <2>1 DEF Reached
<1>4. CASE Kept(u) \/ Linked(u) \/ Spent(u)
  BY <1>2, <1>4 DEF Kept, Linked, Spent, EmailProvenance
<1>5. CASE Moved(u)
  <2>1. PICK w \in Workers : /\ req[w].pc = "swapEmail" /\ req[w].user = u
                             /\ rows'[u].email = issued[req[w].token].addr
    BY <1>5 DEF Moved
  <2>2. /\ req[w].token \in Tokens /\ req[w].token \in delivered
        /\ issued[req[w].token].user = u /\ issued[req[w].token].kind = "change"
    BY <2>1, Carried DEF LinksMatchAccounts
  <2>. QED BY <1>2, <2>1, <2>2 DEF Reached
<1>. QED BY <1>1, <1>3, <1>4, <1>5

LEMMA GoHomeNext ==
  TypeOK /\ EmailProvenance /\ ResetLinksGoHome /\ [Next]_vars => ResetLinksGoHome'
<1>. SUFFICES ASSUME TypeOK, EmailProvenance, ResetLinksGoHome, [Next]_vars
              PROVE  ResetLinksGoHome'
  OBVIOUS
<1>1. Growth /\ TokenLife /\ RequestLife
  BY StepLives DEF Lives
<1>2. \A u : Reached(u) \subseteq Reached(u)'
  BY <1>1, ReachedGrows
<1>3. ASSUME NEW u \in Users, NEW t \in Tokens',
             issued'[t].kind = "reset", issued'[t].user = u
      PROVE  issued'[t].addr \in Reached(u)'
  <2>1. CASE t \in Tokens
    <3>1. issued'[t] = issued[t]
      BY <1>1, <2>1 DEF Growth
    <3>2. issued[t].addr \in Reached(u)
      BY <1>3, <2>1, <3>1 DEF ResetLinksGoHome
    <3>. QED BY <1>2, <3>1, <3>2
  <2>2. CASE t \notin Tokens
    <3>1. t = FreshToken /\ issued' # issued
      BY <1>1, <2>2, SetsKept DEF TokenLife
    <3>2. PICK w \in Workers :
            /\ req[w].pc = "store"
            /\ issued'[t] = [user |-> req[w].user, kind |-> req[w].kind,
                             addr |-> req[w].addr]
      BY <1>1, <1>3, <3>1 DEF TokenLife
    <3>3. /\ issued'[t].addr = req[w].addr /\ issued'[t].user = req[w].user
          /\ issued'[t].kind = req[w].kind
      BY <3>2
    <3>4. req[w].addr \in Reached(u)
      BY <1>3, <3>2, <3>3 DEF ResetLinksGoHome
    <3>. QED BY <1>2, <3>3, <3>4
  <2>. QED BY <2>1, <2>2
<1>4. ASSUME NEW u \in Users, NEW w \in Workers, req'[w].pc = "store",
             req'[w].kind = "reset", req'[w].user = u
      PROVE  req'[w].addr \in Reached(u)'
  <2>1. CASE req'[w] = req[w]
    BY <1>2, <1>4, <2>1 DEF ResetLinksGoHome
  <2>2. CASE /\ req'[w].user \in DOMAIN rows
             /\ req'[w].addr = rows[req'[w].user].email
    BY <1>2, <1>4, <2>2 DEF EmailProvenance
  <2>. QED BY <1>1, <1>4, <2>1, <2>2 DEF RequestLife
<1>. QED BY <1>3, <1>4 DEF ResetLinksGoHome

AddressInv ==
  TypeOK /\ LinksMatchAccounts /\ EmailProvenance /\ ResetLinksGoHome

LEMMA AddressInvariant == Spec => []AddressInv
<1>1. Init => AddressInv
  BY TypeInit, LinksInit, ProvenanceInit DEF AddressInv
<1>2. AddressInv /\ [Next]_vars => AddressInv'
  BY TypeNext, LinksNext, ProvenanceNext, GoHomeNext DEF AddressInv
<1>. QED BY <1>1, <1>2, PTL DEF Spec

(* An account never comes to have an address it neither registered with    *)
(* nor was sent a change link at.                                          *)
THEOREM EmailAlwaysReached == Spec => []EmailProvenance
<1>1. AddressInv => EmailProvenance
  BY DEF AddressInv
<1>. QED BY <1>1, AddressInvariant, PTL

(* A reset link is never mailed anywhere but to an address its account     *)
(* has or had.                                                             *)
THEOREM ResetLinksAlwaysGoHome == Spec => []ResetLinksGoHome
<1>1. AddressInv => ResetLinksGoHome
  BY DEF AddressInv
<1>. QED BY <1>1, AddressInvariant, PTL

(* A link that was spent or overwritten stays dead, and the requests that  *)
(* still carry it only become fewer, for any number of requests and links. *)
THEOREM DeadLinksAlwaysDrain == Spec => DeadLinksDrain
<1>1. ASSUME TypeOK, [Next]_vars, NEW t \in Tokens, Dead(t)
      PROVE  Dead(t)' /\ Carriers(t)' \subseteq Carriers(t)
  <2>1. RowLife /\ RequestLife
    BY <1>1, StepLives DEF Lives
  <2>2. t # NoToken
    BY DEF Tokens, NoToken
  <2>3. ASSUME NEW u \in DOMAIN rows' PROVE rows'[u].token # t
    <3>1. \/ rows'[u].token = NoToken
          \/ rows'[u].token = FreshToken /\ FreshToken \notin Tokens
          \/ u \in DOMAIN rows /\ rows'[u].token = rows[u].token
      BY <2>1 DEF RowLife, Born, Kept, Linked, Spent, Moved
    <3>. QED BY <1>1, <2>2, <3>1 DEF Dead
  <2>4. ASSUME NEW w \in Carriers(t)' PROVE w \in Carriers(t)
    <3>1. w \in Workers /\ req'[w].token = t
          /\ req'[w].pc \in {"verify", "spend", "resetPassword", "swapEmail"}
      BY DEF Carriers
    <3>2. ~(req'[w].user \in DOMAIN rows /\ rows[req'[w].user].token = req'[w].token)
      BY <1>1, <3>1 DEF Dead
    <3>. QED BY <2>1, <3>1, <3>2 DEF RequestLife, Carriers
  <2>. QED BY <2>3, <2>4 DEF Dead
<1>2. TypeOK /\ [Next]_vars =>
        [\A t \in Tokens :
           Dead(t) => Dead(t)' /\ Carriers(t)' \subseteq Carriers(t)]_vars
  BY <1>1
<1>. QED BY <1>2, TypeCorrect, PTL DEF Spec, DeadLinksDrain

-----------------------------------------------------------------------------
(* Which steps write the table at all.                                     *)
LEMMA Writers ==
  ASSUME [Next]_vars
  PROVE  \/ UNCHANGED <<rows, issued>>
         \/ Cleanup
         \/ \E w \in Workers :
              \/ \E u \in Users, e \in Emails, n \in Names, p \in Passwords :
                   Register(w, u, e, n, p)
              \/ \E u \in Users, n \in Names : UpdateName(w, u, n)
              \/ AddVerifedToken(w)
              \/ VerifedToken(w)
              \/ SwapEmail(w)
              \/ SetUserPassword(w)
              \/ DeleteUser(w)
<1>1. CASE \E w \in Workers : Mail(w)
  BY <1>1 DEF Mail, MailSent, MailRefused, MailUnbuilt
<1>2. CASE \E t \in Tokens : TokenExpires(t)
  BY <1>2 DEF TokenExpires
<1>3. ASSUME NEW w \in Workers, Continue(w)
      PROVE  \/ UNCHANGED <<rows, issued>>
             \/ AddVerifedToken(w) \/ VerifedToken(w) \/ SwapEmail(w)
             \/ SetUserPassword(w) \/ DeleteUser(w)
  BY <1>3 DEF Continue, Abort
<1>4. ASSUME NEW w \in Workers, Call(w)
      PROVE  \/ UNCHANGED <<rows, issued>>
             \/ \E u \in Users, e \in Emails, n \in Names, p \in Passwords :
                  Register(w, u, e, n, p)
             \/ \E u \in Users, n \in Names : UpdateName(w, u, n)
  BY <1>4 DEF Call, VerifyEmail, ResetPassword, ForgotPassword, UpdateEmail,
              UpdatePassword, DeleteMe
<1>5. CASE UNCHANGED vars
  BY <1>5 DEF vars
<1>. QED BY <1>1, <1>2, <1>3, <1>4, <1>5 DEF Next, NextBesidesMail

(* The one statement that changes the password of a row that stays.        *)
LEMMA PasswordWriter ==
  ASSUME TypeOK, [Next]_vars, NEW u \in DOMAIN rows, u \in DOMAIN rows',
         rows'[u].password # rows[u].password
  PROVE  \E w \in Workers :
           SetUserPassword(w) /\ req[w].user = u /\ req[w] # Idle /\ req'[w] # req[w]
<1>0. rows[u] \in Row
  BY DEF TypeOK
<1>1. PICK w \in Workers : SetUserPassword(w)
  <2>1. CASE Cleanup
    BY <2>1 DEF Cleanup, DeleteRows
  <2>2. ASSUME NEW w \in Workers,
               \/ \E v \in Users, e \in Emails, n \in Names, p \in Passwords :
                    Register(w, v, e, n, p)
               \/ DeleteUser(w)
        PROVE  FALSE
    BY <2>2 DEF Register, NewId, SaveUser, DeleteUser, DeleteRows
  <2>3. ASSUME NEW w \in Workers,
               \/ \E v \in Users, n \in Names : UpdateName(w, v, n)
               \/ AddVerifedToken(w) \/ VerifedToken(w) \/ SwapEmail(w)
        PROVE  FALSE
    <3>1. CASE \E v \in Users, n \in Names : UpdateName(w, v, n)
      BY <1>0, <3>1 DEF UpdateName, SetName, Row
    <3>2. CASE AddVerifedToken(w)
      BY <1>0, <3>2 DEF AddVerifedToken, StoreToken, Row
    <3>3. CASE VerifedToken(w)
      BY <1>0, <3>3 DEF VerifedToken, SpendToken, Row
    <3>4. CASE SwapEmail(w)
      BY <1>0, <3>4 DEF SwapEmail, SetEmail, Row
    <3>. QED BY <2>3, <3>1, <3>2, <3>3, <3>4
  <2>. QED BY <2>1, <2>2, <2>3, Writers
<1>2. req[w].user = u
  BY <1>1 DEF SetUserPassword, SetPassword
<1>3. req[w] # Idle /\ req'[w] # req[w]
  BY <1>1 DEF SetUserPassword, AfterPassword, Goto, TypeOK, Idle
<1>. QED BY <1>1, <1>2, <1>3

(* A request that has compared a password did so before, or does it now    *)
(* with the row there is.                                                  *)
LEMMA ComparedLife ==
  ASSUME TypeOK, [Next]_vars, NEW w \in Workers, Compared(w)'
  PROVE  \/ req'[w] = req[w] /\ Compared(w)
         \/ /\ req'[w].user \in DOMAIN rows
            /\ rows[req'[w].user].password = req'[w].old
            /\ UNCHANGED <<rows, issued>>
<1>pc. req'[w].pc \in {"changePassword", "delete"}
  BY DEF Compared
<1>same. ASSUME req'[w] = req[w] PROVE Compared(w)
  BY <1>same, <1>pc DEF Compared
<1>other. ASSUME NEW x \in Workers, NEW r, Goto(x, r),
                 r.pc \notin {"changePassword", "delete"}
          PROVE  req'[w] = req[w]
  BY <1>other, <1>pc DEF Goto, TypeOK
<1>idle. Idle.pc = "idle"
  BY DEF Idle
<1>1. ASSUME NEW x \in Workers, NEW u \in Users, NEW old \in Passwords,
             NEW p \in Passwords, UpdatePassword(x, u, old, p)
      PROVE  \/ req'[w] = req[w]
             \/ /\ req'[w].user \in DOMAIN rows
                /\ rows[req'[w].user].password = req'[w].old
                /\ UNCHANGED <<rows, issued>>
  BY <1>1 DEF UpdatePassword, Verifies, Goto, TypeOK
<1>2. ASSUME NEW x \in Workers, NEW u \in Users, NEW old \in Passwords,
             DeleteMe(x, u, old)
      PROVE  \/ req'[w] = req[w]
             \/ /\ req'[w].user \in DOMAIN rows
                /\ rows[req'[w].user].password = req'[w].old
                /\ UNCHANGED <<rows, issued>>
  BY <1>2 DEF DeleteMe, Verifies, Goto, TypeOK
<1>3. ASSUME NEW x \in Workers,
             \/ \E u \in Users, e \in Emails, n \in Names, p \in Passwords :
                  Register(x, u, e, n, p)
             \/ \E u \in Users : ForgotPassword(x, u)
             \/ \E u \in Users, e \in Emails : UpdateEmail(x, u, e)
             \/ \E u \in Users, n \in Names : UpdateName(x, u, n)
      PROVE  req'[w] = req[w]
  BY <1>3, <1>other DEF Register, ForgotPassword, UpdateEmail, UpdateName
<1>4. ASSUME NEW x \in Workers,
             \/ \E t \in Tokens : VerifyEmail(x, t)
             \/ \E t \in Tokens, p \in Passwords : ResetPassword(x, t, p)
      PROVE  req'[w] = req[w]
  BY <1>4, <1>other DEF VerifyEmail, ResetPassword
<1>5. ASSUME NEW x \in Workers,
             \/ AddVerifedToken(x) \/ SwapEmail(x) \/ DeleteUser(x)
             \/ Abort(x) \/ Mail(x)
      PROVE  req'[w] = req[w]
  BY <1>5, <1>idle, <1>other
     DEF AddVerifedToken, SwapEmail, DeleteUser, Abort, Mail, MailSent, MailRefused,
         MailUnbuilt, Done
<1>6. ASSUME NEW x \in Workers, VerifedToken(x) \/ SetUserPassword(x)
      PROVE  req'[w] = req[w]
  BY <1>6, <1>idle, <1>other DEF VerifedToken, SetUserPassword, AfterPassword
<1>7. ASSUME (\E t \in Tokens : TokenExpires(t)) \/ Cleanup \/ UNCHANGED vars
      PROVE  req'[w] = req[w]
  BY <1>7 DEF TokenExpires, Cleanup, vars
<1>. QED BY <1>same, <1>1, <1>2, <1>3, <1>4, <1>5, <1>6, <1>7
         DEF Next, NextBesidesMail, Call, Continue

(* The ids of the table, and those that requests have seen in it, were all *)
(* generated by a registration, so that no later registration takes them.  *)
Known(u) == \E t \in Tokens : issued[t].user = u

IdsKnown ==
  /\ \A u \in DOMAIN rows : Known(u)
  /\ \A w \in Workers : Compared(w) => Known(req[w].user)

LEMMA IdsInit == Init => IdsKnown
  BY DEF Init, IdsKnown, Compared, Idle

LEMMA KnownStays ==
  ASSUME Growth, NEW u, Known(u) PROVE Known(u)'
<1>1. PICK t \in Tokens : issued[t].user = u
  BY DEF Known
<1>2. t \in Tokens' /\ issued'[t].user = u
  BY <1>1 DEF Growth
<1>. QED BY <1>2 DEF Known

LEMMA IdsNext == TypeOK /\ IdsKnown /\ [Next]_vars => IdsKnown'
<1>. SUFFICES ASSUME TypeOK, IdsKnown, [Next]_vars PROVE IdsKnown'
  OBVIOUS
<1>1. Growth /\ RowLife
  BY StepLives DEF Lives
<1>2. ASSUME NEW u \in DOMAIN rows' PROVE Known(u)'
  <2>1. CASE u \in DOMAIN rows
    BY <1>1, <2>1, KnownStays DEF IdsKnown
  <2>2. CASE Born(u)
    <3>1. FreshToken \in Tokens' /\ issued'[FreshToken].user = u
      BY <2>2 DEF Born
    <3>. QED BY <3>1 DEF Known
  <2>. QED BY <1>1, <2>1, <2>2 DEF RowLife, Kept, Linked, Spent, Moved
<1>3. ASSUME NEW w \in Workers, Compared(w)' PROVE Known(req[w].user)'
  <2>1. PICK u : u = req'[w].user
    OBVIOUS
  <2>2. Known(u)
    BY <1>3, <2>1, ComparedLife DEF IdsKnown
  <2>3. Known(u)'
    BY <1>1, <2>2, KnownStays
  <2>. QED BY <2>1, <2>3 DEF Known
<1>. QED BY <1>2, <1>3 DEF IdsKnown

(* What a deletion or a password change compared becomes outdated only by  *)
(* the password UPDATE of another request for the same account, for any    *)
(* number of requests and accounts.                                        *)
THEOREM AlwaysOutdatedByOthers == Spec => OutdatedByOthers
<1>. DEFINE Explained(w) ==
       /\ Compared(w) /\ req'[w] = req[w]
       /\ \/ Outdated(w)
          \/ \E x \in Workers \ {w} :
               /\ req[x].pc \in {"resetPassword", "changePassword"}
               /\ req[x].user = req[w].user /\ req'[x] # req[x]
<1>1. ASSUME TypeOK, IdsKnown, [Next]_vars, NEW w \in Workers, Outdated(w)'
      PROVE  Explained(w)
  <2>. DEFINE u == req'[w].user
  <2>1. Compared(w)' /\ u \in DOMAIN rows' /\ rows'[u].password # req'[w].old
    BY <1>1 DEF Outdated
  <2>2. Compared(w) /\ req'[w] = req[w]
    BY <1>1, <2>1, ComparedLife
  <2>3. u \in DOMAIN rows
    <3>1. \E t \in Tokens : issued[t].user = req[w].user
      BY <1>1, <2>2 DEF IdsKnown, Known
    <3>2. ~Born(u)
      BY <2>2, <3>1 DEF Born
    <3>3. RowLife
      BY <1>1, StepLives DEF Lives
    <3>. QED BY <2>1, <3>2, <3>3 DEF RowLife, Kept, Linked, Spent, Moved
  <2>4. CASE rows'[u].password = rows[u].password
    BY <2>1, <2>2, <2>3, <2>4 DEF Outdated
  <2>5. CASE rows'[u].password # rows[u].password
    <3>1. PICK x \in Workers :
            SetUserPassword(x) /\ req[x].user = u /\ req'[x] # req[x]
      BY <1>1, <2>1, <2>3, <2>5, PasswordWriter
    <3>2. x # w
      BY <2>2, <3>1
    <3>. QED BY <2>2, <3>1, <3>2 DEF SetUserPassword
  <2>. QED BY <2>4, <2>5
<1>2. TypeOK /\ IdsKnown /\ [Next]_vars =>
        [\A w \in Workers : Outdated(w)' => Explained(w)]_vars
  BY <1>1
<1>3. Spec => []IdsKnown
  BY IdsInit, IdsNext, TypeCorrect, PTL DEF Spec
<1>. QED BY <1>2, <1>3, TypeCorrect, PTL DEF Spec, OutdatedByOthers

(* The password of a row only changes by its owner's request: one that     *)
(* knew the old password, or one with a link of that row.                  *)
THEOREM PasswordChangeAlwaysJustified == Spec => PasswordChangeJustified
<1>. DEFINE Justified(u) ==
       \E w \in Workers :
         /\ req[w] # Idle /\ req'[w] # req[w]
         /\ \/ req[w].pc = "changePassword" /\ req[w].user = u
            \/ /\ req[w].pc = "resetPassword"
               /\ req[w].token \in delivered
               /\ issued[req[w].token].user = u
               /\ issued[req[w].token].addr \in Reached(u)
<1>1. ASSUME AddressInv, [Next]_vars, NEW u \in DOMAIN rows \cap DOMAIN rows',
             rows'[u].password # rows[u].password
      PROVE  Justified(u)
  <2>0. TypeOK /\ rows[u] \in Row
    BY <1>1 DEF AddressInv, TypeOK
  <2>1. PICK w \in Workers :
          SetUserPassword(w) /\ req[w].user = u /\ req[w] # Idle /\ req'[w] # req[w]
    BY <1>1, <2>0, PasswordWriter
  <2>2. req[w].user = u
    BY <2>1
  <2>3. req[w] # Idle /\ req'[w] # req[w]
    BY <2>1
  <2>4. CASE req[w].pc = "changePassword"
    BY <2>2, <2>3, <2>4
  <2>5. CASE req[w].pc = "resetPassword"
    <3>1. /\ req[w].token \in Tokens /\ req[w].token \in delivered
          /\ issued[req[w].token].user = u
      BY <1>1, <2>0, <2>2, <2>5, Carried DEF AddressInv, LinksMatchAccounts
    <3>2. issued[req[w].token] \in TokenInfo
      BY <2>0, <3>1 DEF TypeOK, Tokens
    <3>3. issued[req[w].token].addr \in Reached(u)
      <4>1. u \in Users
        BY <2>0 DEF TypeOK
      <4>2. CASE issued[req[w].token].kind = "reset"
        BY <1>1, <3>1, <4>1, <4>2 DEF AddressInv, ResetLinksGoHome
      <4>3. CASE issued[req[w].token].kind \in {"verify", "change"}
        BY <3>1, <4>3 DEF Reached
      <4>. QED BY <3>2, <4>2, <4>3 DEF TokenInfo, Kinds
    <3>. QED BY <2>3, <2>5, <3>1, <3>3
  <2>. QED BY <2>1, <2>4, <2>5 DEF SetUserPassword
<1>2. AddressInv /\ [Next]_vars =>
        [\A u \in DOMAIN rows \cap DOMAIN rows' :
           rows'[u].password # rows[u].password => Justified(u)]_vars
  BY <1>1
<1>. QED BY <1>2, AddressInvariant, PTL DEF Spec, PasswordChangeJustified

LEMMA UniqueInit == Init => LookupUnambiguous
BY DEF Init, LookupUnambiguous

LEMMA UniqueNext ==
  TypeOK /\ LinksMatchAccounts /\ LookupUnambiguous /\ [Next]_vars => LookupUnambiguous'
<1>. SUFFICES ASSUME TypeOK, LinksMatchAccounts, LookupUnambiguous, [Next]_vars,
                     NEW u \in DOMAIN rows', NEW v \in DOMAIN rows', u # v
              PROVE  /\ rows'[u].email # rows'[v].email
                     /\ rows'[u].name # rows'[v].name
                     /\ rows'[u].token # NoToken => rows'[u].token # rows'[v].token
  BY DEF LookupUnambiguous
<1>1. rows'[u].token # NoToken => rows'[u].token # rows'[v].token
  BY LinksNext DEF LinksMatchAccounts
<1>. DEFINE Apart == rows'[u].email # rows'[v].email /\ rows'[u].name # rows'[v].name
<1>2. CASE rows' = rows
  BY <1>1, <1>2 DEF LookupUnambiguous
<1>3. CASE Cleanup \/ \E w \in Workers : DeleteUser(w)
  BY <1>1, <1>3 DEF Cleanup, DeleteUser, DeleteRows, LookupUnambiguous
<1>4. ASSUME NEW w \in Workers, NEW x \in Users, NEW e \in Emails,
             NEW n \in Names, NEW p \in Passwords, Register(w, x, e, n, p)
      PROVE  Apart
  <2>1. \A y \in DOMAIN rows : rows[y].email # e /\ rows[y].name # n
    BY <1>4 DEF Register, NewId, EmailFree, NameFree
  <2>. QED BY <1>4, <2>1 DEF Register, SaveUser, LookupUnambiguous
<1>5. ASSUME DOMAIN rows' = DOMAIN rows,
             \A y \in DOMAIN rows : /\ rows'[y].email = rows[y].email
                                    /\ rows'[y].name = rows[y].name
      PROVE  Apart
  BY <1>5 DEF LookupUnambiguous
<1>6. ASSUME NEW w \in Workers,
             AddVerifedToken(w) \/ VerifedToken(w) \/ SetUserPassword(w)
      PROVE  Apart
  <2>1. CASE AddVerifedToken(w)
    BY <1>5, <2>1 DEF AddVerifedToken, StoreToken, TypeOK, Row
  <2>2. CASE VerifedToken(w)
    BY <1>5, <2>2 DEF VerifedToken, SpendToken, TypeOK, Row
  <2>3. CASE SetUserPassword(w)
    BY <1>5, <2>3 DEF SetUserPassword, SetPassword, TypeOK, Row
  <2>. QED BY <1>6, <2>1, <2>2, <2>3
<1>7. ASSUME NEW w \in Workers, NEW x \in Users, NEW n \in Names, UpdateName(w, x, n)
      PROVE  Apart
  <2>1. /\ DOMAIN rows' = DOMAIN rows
        /\ \A y \in DOMAIN rows : rows'[y].email = rows[y].email
        /\ \A y \in DOMAIN rows \ {x} : rows'[y].name = rows[y].name
        /\ rows'[x].name = n
    BY <1>7 DEF UpdateName, SetName, TypeOK, Row
  <2>. QED BY <1>7, <2>1 DEF UpdateName, NameFree, LookupUnambiguous
<1>8. ASSUME NEW w \in Workers, SwapEmail(w)
      PROVE  Apart
  <2>. DEFINE e == issued[req[w].token].addr
              x == req[w].user
  <2>1. CASE EmailFree(x, e)
    <3>1. /\ DOMAIN rows' = DOMAIN rows
          /\ \A y \in DOMAIN rows : rows'[y].name = rows[y].name
          /\ \A y \in DOMAIN rows \ {x} : rows'[y].email = rows[y].email
          /\ x \in DOMAIN rows => rows'[x].email = e
      BY <1>8, <2>1 DEF SwapEmail, SetEmail, TypeOK, Row
    <3>. QED BY <2>1, <3>1 DEF EmailFree, LookupUnambiguous
  <2>2. CASE ~EmailFree(x, e)
    BY <1>8, <2>2 DEF SwapEmail, LookupUnambiguous
  <2>. QED BY <2>1, <2>2
<1>. QED BY <1>1, <1>2, <1>3, <1>4, <1>6, <1>7, <1>8, Writers

(* An e-mail, a username or a token never selects two accounts.            *)
THEOREM LookupAlwaysUnambiguous == Spec => []LookupUnambiguous
<1>1. Init => TypeOK /\ LinksMatchAccounts /\ LookupUnambiguous
  BY TypeInit, LinksInit, UniqueInit
<1>2. TypeOK /\ LinksMatchAccounts /\ LookupUnambiguous /\ [Next]_vars
        => (TypeOK /\ LinksMatchAccounts /\ LookupUnambiguous)'
  BY TypeNext, LinksNext, UniqueNext
<1>. QED BY <1>1, <1>2, PTL DEF Spec

-----------------------------------------------------------------------------
(* Where an account is verified.                                           *)

(* A change link of u was redeemed. *)
Changed(u) ==
  \E t \in redeemed : issued[t].user = u /\ issued[t].kind = "change"

(* e is the address u registered with. *)
AtHome(u, e) ==
  \E t \in Tokens :
    issued[t].user = u /\ issued[t].kind = "verify" /\ issued[t].addr = e

(* An account registers once. *)
OneRegistration ==
  \A s, t \in Tokens :
    issued[s].kind = "verify" /\ issued[t].kind = "verify"
      /\ issued[s].user = issued[t].user => s = t

(* Until a change link of its own is redeemed, the address of an account   *)
(* is the one it registered with, in its row, in its reset links and in    *)
(* the requests that are about to store one.                               *)
RowsAtHome ==
  \A u \in DOMAIN rows : Changed(u) \/ AtHome(u, rows[u].email)

ResetsAtHome ==
  \A t \in Tokens : issued[t].kind = "reset" =>
    Changed(issued[t].user) \/ AtHome(issued[t].user, issued[t].addr)

StoresAtHome ==
  \A w \in Workers : req[w].pc = "store" /\ req[w].kind = "reset" =>
    Changed(req[w].user) \/ AtHome(req[w].user, req[w].addr)

(* The address is written only after the change link was redeemed. *)
SwapsRedeemed ==
  \A w \in Workers : req[w].pc = "swapEmail" => req[w].token \in redeemed

HomeInv ==
  /\ OneRegistration /\ RowsAtHome /\ ResetsAtHome /\ StoresAtHome
  /\ SwapsRedeemed

(* Both only come to be true.                                              *)
LEMMA ChangedStays ==
  ASSUME TypeOK, Growth, NEW u, Changed(u) PROVE Changed(u)'
<1>1. PICK t \in redeemed : issued[t].user = u /\ issued[t].kind = "change"
  BY DEF Changed
<1>2. t \in redeemed' /\ issued'[t] = issued[t]
  BY DEF Growth, TypeOK
<1>. QED BY <1>1, <1>2 DEF Changed

LEMMA AtHomeStays ==
  ASSUME Growth, NEW u, NEW e, AtHome(u, e) PROVE AtHome(u, e)'
<1>1. PICK t \in Tokens :
        issued[t].user = u /\ issued[t].kind = "verify" /\ issued[t].addr = e
  BY DEF AtHome
<1>2. t \in Tokens' /\ issued'[t] = issued[t]
  BY DEF Growth
<1>. QED BY <1>1, <1>2 DEF AtHome

LEMMA HomeInit == Init => HomeInv
BY DEF Init, HomeInv, OneRegistration, RowsAtHome, ResetsAtHome, StoresAtHome,
       SwapsRedeemed, Tokens, Idle

LEMMA OneRegistrationNext ==
  TypeOK /\ OneRegistration /\ [Next]_vars => OneRegistration'
<1>. SUFFICES ASSUME TypeOK, OneRegistration, [Next]_vars,
                     NEW s \in Tokens', NEW t \in Tokens',
                     issued'[s].kind = "verify", issued'[t].kind = "verify",
                     issued'[s].user = issued'[t].user
              PROVE  s = t
  BY DEF OneRegistration
<1>1. Growth /\ TokenLife
  BY StepLives DEF Lives
<1>2. CASE s \in Tokens /\ t \in Tokens
  BY <1>1, <1>2 DEF Growth, OneRegistration
<1>3. ASSUME NEW x \in Tokens, NEW y \in Tokens', y \notin Tokens,
             issued'[x].kind = "verify", issued'[y].kind = "verify"
      PROVE  issued'[x].user # issued'[y].user
  <2>1. issued' # issued
    BY <1>3, SetsKept
  <2>2. y = FreshToken
    BY <1>1, <1>3, <2>1 DEF TokenLife
  <2>3. \A v \in Tokens : issued[v].user # issued'[y].user
    <3>1. ASSUME NEW w \in Workers, req[w].pc = "store",
                 issued'[y] = [user |-> req[w].user, kind |-> req[w].kind,
                               addr |-> req[w].addr]
          PROVE  FALSE
      <4>1. req[w].kind = "verify"
        BY <1>3, <3>1
      <4>. QED BY <3>1, <4>1, Carried
    <3>. QED BY <1>1, <2>1, <2>2, <3>1 DEF TokenLife
  <2>. QED BY <1>1, <2>3 DEF Growth
<1>4. CASE s \notin Tokens /\ t \notin Tokens
  BY <1>1, <1>4, SetsKept DEF TokenLife
<1>. QED BY <1>2, <1>3, <1>4

LEMMA RowsAtHomeNext ==
  TypeOK /\ LinksMatchAccounts /\ RowsAtHome /\ SwapsRedeemed /\ [Next]_vars
    => RowsAtHome'
<1>. SUFFICES ASSUME TypeOK, LinksMatchAccounts, RowsAtHome, SwapsRedeemed,
                     [Next]_vars, NEW u \in DOMAIN rows'
              PROVE  (Changed(u) \/ AtHome(u, rows[u].email))'
  BY DEF RowsAtHome
<1>1. Growth /\ (Born(u) \/ Kept(u) \/ Linked(u) \/ Spent(u) \/ Moved(u))
  BY StepLives DEF Lives, RowLife
<1>2. CASE Born(u)
  <2>1. /\ FreshToken \in Tokens' /\ issued'[FreshToken].user = u
        /\ issued'[FreshToken].kind = "verify"
        /\ issued'[FreshToken].addr = rows'[u].email
    BY <1>2 DEF Born
  <2>. QED BY <2>1 DEF AtHome
<1>3. CASE Kept(u) \/ Linked(u) \/ Spent(u)
  <2>1. u \in DOMAIN rows /\ rows'[u].email = rows[u].email
    BY <1>3 DEF Kept, Linked, Spent
  <2>2. PICK e : e = rows[u].email
    OBVIOUS
  <2>3. Changed(u)' \/ AtHome(u, e)'
    BY <1>1, <2>1, <2>2, ChangedStays, AtHomeStays DEF RowsAtHome
  <2>. QED BY <2>1, <2>2, <2>3 DEF Changed, AtHome
<1>4. CASE Moved(u)
  <2>1. PICK w \in Workers : req[w].pc = "swapEmail" /\ req[w].user = u
    BY <1>4 DEF Moved
  <2>2. /\ req[w].token \in redeemed
        /\ issued[req[w].token].user = u /\ issued[req[w].token].kind = "change"
    BY <2>1 DEF SwapsRedeemed, LinksMatchAccounts
  <2>3. Changed(u)
    BY <2>2 DEF Changed
  <2>. QED BY <1>1, <2>3, ChangedStays
<1>. QED BY <1>1, <1>2, <1>3, <1>4

LEMMA ResetsAtHomeNext ==
  TypeOK /\ ResetsAtHome /\ StoresAtHome /\ [Next]_vars => ResetsAtHome'
<1>. SUFFICES ASSUME TypeOK, ResetsAtHome, StoresAtHome, [Next]_vars,
                     NEW t \in Tokens', issued'[t].kind = "reset"
              PROVE  (Changed(issued[t].user) \/ AtHome(issued[t].user, issued[t].addr))'
  BY DEF ResetsAtHome
<1>1. Growth /\ TokenLife
  BY StepLives DEF Lives
<1>2. PICK u, e : u = issued'[t].user /\ e = issued'[t].addr
  OBVIOUS
<1>3. Changed(u) \/ AtHome(u, e)
  <2>1. CASE t \in Tokens
    BY <1>1, <1>2, <2>1 DEF Growth, ResetsAtHome
  <2>2. CASE t \notin Tokens
    <3>1. t = FreshToken /\ issued' # issued
      BY <1>1, <2>2, SetsKept DEF TokenLife
    <3>2. PICK w \in Workers :
            /\ req[w].pc = "store"
            /\ issued'[t] = [user |-> req[w].user, kind |-> req[w].kind,
                             addr |-> req[w].addr]
      BY <1>1, <3>1 DEF TokenLife
    <3>3. u = req[w].user /\ e = req[w].addr /\ req[w].kind = "reset"
      BY <1>2, <3>2
    <3>. QED BY <3>2, <3>3 DEF StoresAtHome
  <2>. QED BY <2>1, <2>2
<1>4. Changed(u)' \/ AtHome(u, e)'
  BY <1>1, <1>3, ChangedStays, AtHomeStays
<1>. QED BY <1>2, <1>4 DEF Changed, AtHome

LEMMA StoresAtHomeNext ==
  TypeOK /\ RowsAtHome /\ StoresAtHome /\ [Next]_vars => StoresAtHome'
<1>. SUFFICES ASSUME TypeOK, RowsAtHome, StoresAtHome, [Next]_vars,
                     NEW w \in Workers, req'[w].pc = "store", req'[w].kind = "reset"
              PROVE  (Changed(req[w].user) \/ AtHome(req[w].user, req[w].addr))'
  BY DEF StoresAtHome
<1>1. Growth /\ RequestLife
  BY StepLives DEF Lives
<1>2. PICK u, e : u = req'[w].user /\ e = req'[w].addr
  OBVIOUS
<1>3. \/ req'[w] = req[w]
      \/ req'[w].user \in DOMAIN rows /\ req'[w].addr = rows[req'[w].user].email
  BY <1>1 DEF RequestLife
<1>4. Changed(u) \/ AtHome(u, e)
  BY <1>2, <1>3 DEF RowsAtHome, StoresAtHome
<1>5. Changed(u)' \/ AtHome(u, e)'
  BY <1>1, <1>4, ChangedStays, AtHomeStays
<1>. QED BY <1>2, <1>5 DEF Changed, AtHome

LEMMA SwapsRedeemedNext ==
  TypeOK /\ SwapsRedeemed /\ [Next]_vars => SwapsRedeemed'
<1>. SUFFICES ASSUME TypeOK, SwapsRedeemed, [Next]_vars,
                     NEW w \in Workers, req'[w].pc = "swapEmail"
              PROVE  req'[w].token \in redeemed'
  BY DEF SwapsRedeemed
<1>1. Growth /\ RequestLife
  BY StepLives DEF Lives
<1>. QED BY <1>1 DEF Growth, RequestLife, SwapsRedeemed

UnconfirmedInv == TypeOK /\ LinksMatchAccounts /\ VerifiedWitness /\ HomeInv

LEMMA HomeGivesAddress == UnconfirmedInv => UnconfirmedOnlyByChange
<1>. SUFFICES ASSUME UnconfirmedInv, NEW u \in DOMAIN rows, rows[u].verified
              PROVE  \E t \in redeemed :
                       /\ issued[t].user = u
                       /\ issued[t].addr = rows[u].email \/ issued[t].kind = "change"
  BY DEF UnconfirmedOnlyByChange
<1>1. PICK t \in redeemed : issued[t].user = u
  BY DEF UnconfirmedInv, VerifiedWitness
<1>2. CASE Changed(u)
  BY <1>2 DEF Changed
<1>3. CASE ~Changed(u)
  <2>1. t \in Tokens /\ issued[t].kind \in {"verify", "reset"}
    <3>1. t \in Tokens /\ issued[t] \in TokenInfo
      BY <1>1 DEF UnconfirmedInv, TypeOK, Tokens
    <3>. QED BY <1>1, <1>3, <3>1 DEF TokenInfo, Kinds, Changed
  <2>2. PICK s \in Tokens :
          issued[s].user = u /\ issued[s].kind = "verify"
            /\ issued[s].addr = rows[u].email
    BY <1>3 DEF UnconfirmedInv, HomeInv, RowsAtHome, AtHome
  <2>3. CASE issued[t].kind = "verify"
    BY <1>1, <2>1, <2>2, <2>3 DEF UnconfirmedInv, HomeInv, OneRegistration
  <2>4. CASE issued[t].kind = "reset"
    <3>1. PICK v \in Tokens :
            issued[v].user = u /\ issued[v].kind = "verify"
              /\ issued[v].addr = issued[t].addr
      BY <1>1, <1>3, <2>1, <2>4 DEF UnconfirmedInv, HomeInv, ResetsAtHome, AtHome
    <3>2. v = s
      BY <2>2, <3>1 DEF UnconfirmedInv, HomeInv, OneRegistration
    <3>. QED BY <1>1, <2>2, <3>1, <3>2
  <2>. QED BY <2>1, <2>3, <2>4
<1>. QED BY <1>2, <1>3

(* The mark "verified" speaks of the address in the row, for every account *)
(* none of whose change links was redeemed, at every await of every        *)
(* handler: the run accounts_verified shows what such a link can do to it. *)
THEOREM UnconfirmedAlwaysByChange == Spec => []UnconfirmedOnlyByChange
<1>1. Init => UnconfirmedInv
  BY TypeInit, LinksInit, WitnessInit, HomeInit DEF UnconfirmedInv
<1>2. UnconfirmedInv /\ [Next]_vars => UnconfirmedInv'
  BY TypeNext, LinksNext, WitnessNext, OneRegistrationNext, RowsAtHomeNext,
     ResetsAtHomeNext, StoresAtHomeNext, SwapsRedeemedNext
     DEF UnconfirmedInv, HomeInv
<1>. QED BY <1>1, <1>2, HomeGivesAddress, PTL DEF Spec

====
