--------------------------- MODULE SessionsProofs ---------------------------
(***************************************************************************)
(* Theorems about Sessions, for every set of users and workers and every   *)
(* age of the tokens.                                                      *)
(***************************************************************************)
EXTENDS Sessions, TLAPS

-----------------------------------------------------------------------------
(* Type correctness.                                                       *)

(* What a request carries, by the step it is at.                           *)
LEMMA Carried ==
  ASSUME TypeOK, NEW w \in Workers
  PROVE  /\ req[w] \in Request
         /\ req[w].pc \in {"compare", "save"} =>
              req[w].user \in Users /\ req[w].password \in Changes
         /\ req[w].pc = "save" => req[w].iat \in Times
         /\ req[w].pc = "lookup" => req[w].token \in Tokens
         /\ req[w].pc \in {"mint", "change", "reset", "logout", "revoke"} =>
              /\ req[w].user \in Users
              /\ req[w] = [pc |-> req[w].pc, user |-> req[w].user]
<1>1. req[w] \in Request
  BY DEF TypeOK
<1>. QED BY <1>1 DEF Request, Idle

(* The tokens a user gets are tokens, and remember who and when.           *)
LEMMA MadeTokens ==
  ASSUME NEW u \in Users, NEW t \in Times
  PROVE  /\ AccessToken(u, t) \in Tokens /\ RefreshToken(u, t) \in Tokens
         /\ AccessToken(u, t).sub = u /\ AccessToken(u, t).iat = t
         /\ RefreshToken(u, t).sub = u /\ RefreshToken(u, t).iat = t
         /\ RefreshToken(u, t).exp # t + AccessAge
  BY SessionsAssumption DEF AccessToken, RefreshToken, Token, Tokens, Times

LEMMA TokenFields ==
  ASSUME NEW t \in Tokens
  PROVE  t.sub \in Users /\ t.iat \in Times
  BY DEF Tokens, Token

LEMMA TypeInit == Init => TypeOK
  BY SessionsAssumption DEF Init, TypeOK, Times, Changes, Request

(* A request that moves, with nothing else but excuses and passwords.      *)
LEMMA TypeMove ==
  ASSUME TypeOK, NEW w \in Workers, NEW r \in Request, Goto(w, r),
         UNCHANGED <<now, users, refresh, held>>,
         password' \in [Users -> Changes], excused' \subseteq Users
  PROVE  TypeOK'
<1>1. req' \in [Workers -> Request]
  BY DEF TypeOK, Goto
<1>. QED BY <1>1 DEF TypeOK

LEMMA TypeNext == TypeOK /\ [Next]_vars => TypeOK'
<1>. SUFFICES ASSUME TypeOK, [Next]_vars PROVE TypeOK'
  OBVIOUS
<1>idle. Idle \in Request
  BY DEF Request
<1>1. ASSUME NEW w \in Workers, NEW u \in Users, Login(w, u) PROVE TypeOK'
  <2>1. [pc |-> "compare", user |-> u, password |-> password[u]] \in Request
    BY DEF Request, TypeOK
  <2>. QED BY <1>1, <2>1, TypeMove DEF Login, TypeOK
<1>12. ASSUME NEW w \in Workers, MintTokens(w) PROVE TypeOK'
  <2>1. /\ req[w].user \in Users /\ req[w].password \in Changes
        /\ now \in Times
    BY <1>12, Carried DEF MintTokens, TypeOK
  <2>2. [pc |-> "save", user |-> req[w].user, password |-> req[w].password,
         iat |-> now] \in Request
    BY <2>1 DEF Request
  <2>. QED BY <1>12, <2>2, TypeMove DEF MintTokens, TypeOK
<1>13. ASSUME NEW w \in Workers, Lookup(w) PROVE TypeOK'
  <2>1. req[w].token.sub \in Users
    BY <1>13, Carried, TokenFields DEF Lookup
  <2>2. [pc |-> "mint", user |-> req[w].token.sub] \in Request
    BY <2>1 DEF Request
  <2>. QED BY <1>13, <2>2, TypeMove DEF Lookup, TypeOK
<1>2. ASSUME NEW w \in Workers, NEW u \in Users,
             Logout(w, u) \/ UpdatePassword(w, u) \/ ResetPassword(w, u)
      PROVE  TypeOK'
  <2>1. \A c \in {"logout", "change", "reset"} : [pc |-> c, user |-> u] \in Request
    BY DEF Request
  <2>. QED BY <1>2, <2>1, TypeMove DEF Logout, UpdatePassword, ResetPassword, TypeOK
<1>3. ASSUME NEW w \in Workers, NEW t \in held, Refresh(w, t) PROVE TypeOK'
  <2>1. [pc |-> "lookup", token |-> t] \in Request
    BY DEF Request, TypeOK
  <2>. QED BY <1>3, <2>1, TypeMove DEF Refresh, TypeOK
<1>4. ASSUME NEW w \in Workers, SaveRefresh(w) PROVE TypeOK'
  <2>. DEFINE u == req[w].user
              s == [token |-> RefreshToken(u, req[w].iat),
                    until |-> now + RefreshAge, password |-> req[w].password]
  <2>1. u \in Users /\ req[w].password \in Changes /\ req[w].iat \in Times
    BY <1>4, Carried DEF SaveRefresh
  <2>2. s \in Session /\ s.until \in now + 1 .. now + RefreshAge
    BY <2>1, MadeTokens, SessionsAssumption DEF Session, TypeOK, Times
  <2>3. refresh' = [v \in DOMAIN refresh \cup {u} |-> IF v = u THEN s ELSE refresh[v]]
    BY <1>4 DEF SaveRefresh, SetEx
  <2>. HIDE DEF s
  <2>4. /\ DOMAIN refresh' \subseteq Users
        /\ refresh' \in [DOMAIN refresh' -> Session]
        /\ \A v \in DOMAIN refresh' : refresh'[v].until \in now + 1 .. now + RefreshAge
    BY <2>1, <2>2, <2>3 DEF TypeOK
  <2>5. held' \subseteq Tokens
    BY <1>4, <2>1, MadeTokens DEF SaveRefresh, TypeOK
  <2>6. req' \in [Workers -> Request]
    BY <1>4, <1>idle DEF SaveRefresh, Done, Goto, TypeOK
  <2>8. excused' \subseteq Users
    BY <1>4, <2>1 DEF SaveRefresh, TypeOK
  <2>. QED BY <1>4, <2>4, <2>5, <2>6, <2>8 DEF SaveRefresh, TypeOK
<1>5. ASSUME NEW w \in Workers, MintAccess(w) PROVE TypeOK'
  <2>1. req[w].user \in Users
    BY <1>5, Carried DEF MintAccess
  <2>2. held' \subseteq Tokens
    BY <1>5, <2>1, MadeTokens DEF MintAccess, TypeOK
  <2>3. req' \in [Workers -> Request]
    BY <1>5, <1>idle DEF MintAccess, Done, Goto, TypeOK
  <2>. QED BY <1>5, <2>2, <2>3 DEF MintAccess, TypeOK
<1>6. ASSUME NEW w \in Workers, SetPassword(w) PROVE TypeOK'
  <2>1. req[w].user \in Users /\ req[w] = [pc |-> req[w].pc, user |-> req[w].user]
    BY <1>6, Carried DEF SetPassword
  <2>2. password' \in [Users -> Changes]
    BY <1>6, <2>1, SessionsAssumption DEF SetPassword, TypeOK, Changes
  <2>3. [req[w] EXCEPT !.pc = "revoke"] \in Request
    BY <2>1 DEF Request
  <2>. QED BY <1>6, <1>idle, <2>1, <2>2, <2>3, TypeMove DEF SetPassword, Done, TypeOK
<1>7. ASSUME NEW w \in Workers, Revoke(w) PROVE TypeOK'
  <2>1. /\ DOMAIN refresh' \subseteq DOMAIN refresh
        /\ refresh' = [v \in DOMAIN refresh' |-> refresh[v]]
    BY <1>7 DEF Revoke, Del
  <2>2. req' \in [Workers -> Request]
    BY <1>7, <1>idle DEF Revoke, Done, Goto, TypeOK
  <2>3. /\ refresh' \in [DOMAIN refresh' -> Session]
        /\ \A v \in DOMAIN refresh' : refresh'[v].until \in now + 1 .. now + RefreshAge
    BY <2>1 DEF TypeOK
  <2>. QED BY <1>7, <2>1, <2>2, <2>3 DEF Revoke, TypeOK
<1>8. ASSUME NEW w \in Workers, Abort(w) PROVE TypeOK'
  <2>1. excused' \subseteq Users
    BY <1>8, Carried DEF Abort, TypeOK
  <2>. QED BY <1>8, <1>idle, <2>1, TypeMove DEF Abort, Done, TypeOK
<1>9. ASSUME NEW u \in Users, DeleteUser(u) PROVE TypeOK'
  BY <1>9 DEF DeleteUser, TypeOK
<1>10. ASSUME Tick PROVE TypeOK'
  <2>1. now' \in Times /\ now' = now + 1 /\ now \in Nat
    BY <1>10, SessionsAssumption DEF Tick, TypeOK, Times
  <2>2. /\ DOMAIN refresh' \subseteq DOMAIN refresh
        /\ \A v \in DOMAIN refresh' :
             refresh[v].until > now' /\ refresh'[v] = refresh[v]
        /\ refresh' = [v \in DOMAIN refresh' |-> refresh[v]]
    BY <1>10 DEF Tick
  <2>3. \A v \in DOMAIN refresh' : refresh'[v].until \in now' + 1 .. now' + RefreshAge
    <3>. SUFFICES ASSUME NEW v \in DOMAIN refresh'
                  PROVE  refresh'[v].until \in now' + 1 .. now' + RefreshAge
      OBVIOUS
    <3>1. refresh[v].until \in now + 1 .. now + RefreshAge
      BY <2>2 DEF TypeOK
    <3>2. refresh'[v].until = refresh[v].until /\ refresh[v].until > now'
      BY <2>2
    <3>. QED BY <2>1, <3>1, <3>2, SessionsAssumption
  <2>4. refresh' \in [DOMAIN refresh' -> Session]
    BY <2>2 DEF TypeOK
  <2>. QED BY <1>10, <2>1, <2>2, <2>3, <2>4 DEF Tick, TypeOK
<1>11. CASE UNCHANGED vars
  BY <1>11 DEF vars, TypeOK
<1>. QED
  BY <1>1, <1>2, <1>3, <1>4, <1>5, <1>6, <1>7, <1>8, <1>9, <1>10, <1>11,
     <1>12, <1>13
     DEF Next, NextBesidesRevoke, Serve

(* Keys, tokens and requests stay in their sets, and a key in Redis always *)
(* has an end.                                                             *)
THEOREM TypeCorrect == Spec => []TypeOK
<1>. QED BY TypeInit, TypeNext, PTL DEF Spec

-----------------------------------------------------------------------------
(* Access drains when a session is over.                                   *)

(* A step of a worker that is not between its lookup and its token.        *)
LEMMA MintingKept ==
  ASSUME TypeOK, NEW w \in Workers, NEW r, Goto(w, r),
         req[w].pc # "mint", r.pc # "mint"
  PROVE  \A u : Minting(u)' = Minting(u)
<1>1. \A x \in Workers : req'[x] = IF x = w THEN r ELSE req[x]
  BY DEF Goto, TypeOK
<1>. QED BY <1>1 DEF Minting

(* Where a request goes that is in none of the steps named.                *)
LEMMA OtherMoves ==
  ASSUME TypeOK, NEW w \in Workers,
         \/ \E u \in Users : \/ Login(w, u) \/ Logout(w, u)
                             \/ UpdatePassword(w, u) \/ ResetPassword(w, u)
         \/ \E t \in held : Refresh(w, t)
         \/ MintTokens(w) \/ SetPassword(w) \/ SaveRefresh(w) \/ Revoke(w)
  PROVE  /\ req[w].pc # "mint"
         /\ \E r : Goto(w, r) /\ r.pc # "mint"
<1>idle. Idle.pc = "idle"
  BY DEF Idle
<1>1. CASE SetPassword(w) /\ req[w].pc = "change"
  <2>1. req[w] = [pc |-> req[w].pc, user |-> req[w].user]
    BY <1>1, Carried
  <2>2. [req[w] EXCEPT !.pc = "revoke"].pc = "revoke"
    BY <2>1
  <2>. QED BY <1>1, <2>2 DEF SetPassword
<1>2. CASE (SetPassword(w) /\ req[w].pc # "change") \/ SaveRefresh(w) \/ Revoke(w)
  BY <1>2, <1>idle DEF SetPassword, SaveRefresh, Revoke, Done
<1>3. CASE MintTokens(w)
  BY <1>3 DEF MintTokens
<1>4. ASSUME NEW u \in Users, Login(w, u)
      PROVE  req[w] = Idle /\ \E r : Goto(w, r) /\ r.pc # "mint"
  <2>1. [pc |-> "compare", user |-> u, password |-> password[u]].pc # "mint"
    OBVIOUS
  <2>. QED BY <1>4, <2>1 DEF Login
<1>5. ASSUME NEW u \in Users, NEW c \in {"logout", "change", "reset"},
             req[w] = Idle, Goto(w, [pc |-> c, user |-> u])
      PROVE  req[w] = Idle /\ \E r : Goto(w, r) /\ r.pc # "mint"
  BY <1>5
<1>6. ASSUME NEW u \in Users,
             Logout(w, u) \/ UpdatePassword(w, u) \/ ResetPassword(w, u)
      PROVE  req[w] = Idle /\ \E r : Goto(w, r) /\ r.pc # "mint"
  BY <1>5, <1>6 DEF Logout, UpdatePassword, ResetPassword
<1>7. ASSUME NEW t \in held, Refresh(w, t)
      PROVE  req[w] = Idle /\ \E r : Goto(w, r) /\ r.pc # "mint"
  BY <1>7 DEF Refresh
<1>. QED BY <1>idle, <1>1, <1>2, <1>3, <1>4, <1>6, <1>7

(* A lookup that saw the session of u makes w one of the requests that may *)
(* still make a token for u; the token, or the end of the request, makes   *)
(* it none.                                                                *)
LEMMA LookupAdmits ==
  ASSUME TypeOK, NEW w \in Workers, Lookup(w)
  PROVE  /\ req[w].token.sub \in Users
         /\ req[w].token.sub \in DOMAIN refresh
         /\ \A u \in Users : w \notin Minting(u)
         /\ \A u \in Users : Minting(u)' =
              IF u = req[w].token.sub THEN Minting(u) \cup {w} ELSE Minting(u)
<1>. DEFINE r == [pc |-> "mint", user |-> req[w].token.sub]
<1>1. \A x \in Workers : req'[x] = IF x = w THEN r ELSE req[x]
  BY DEF Lookup, Goto, TypeOK
<1>2. r.pc = "mint" /\ r.user = req[w].token.sub
  OBVIOUS
<1>. HIDE DEF r
<1>3. req[w].pc = "lookup" /\ req[w].token.sub \in Users
      /\ req[w].token.sub \in DOMAIN refresh
  BY Carried, TokenFields DEF Lookup, Stored
<1>. QED BY <1>1, <1>2, <1>3 DEF Minting

LEMMA MintLeaves ==
  ASSUME TypeOK, NEW w \in Workers, Done(w), req[w].pc = "mint"
  PROVE  /\ req[w].user \in Users
         /\ w \in Minting(req[w].user)
         /\ \A u \in Users : Minting(u)' =
              IF u = req[w].user THEN Minting(u) \ {w} ELSE Minting(u)
<1>1. \A x \in Workers : req'[x] = IF x = w THEN Idle ELSE req[x]
  BY DEF Done, Goto, TypeOK
<1>2. Idle.pc # "mint"
  BY DEF Idle
<1>3. req[w].user \in Users
  BY Carried
<1>. QED BY <1>1, <1>2, <1>3 DEF Minting

LEMMA DrainNext ==
  TypeOK /\ [Next]_vars =>
    \A u \in Users :
      u \notin DOMAIN refresh /\ u \notin DOMAIN refresh' =>
        /\ Minting(u)' \subseteq Minting(u)
        /\ \A t \in held' \ held :
             t.sub = u => t = AccessToken(u, now) /\ Minting(u)' # Minting(u)
<1>. SUFFICES ASSUME TypeOK, [Next]_vars, NEW u \in Users,
                     u \notin DOMAIN refresh, u \notin DOMAIN refresh'
              PROVE  /\ Minting(u)' \subseteq Minting(u)
                     /\ \A t \in held' \ held :
                          t.sub = u =>
                            t = AccessToken(u, now) /\ Minting(u)' # Minting(u)
  OBVIOUS
<1>1. ASSUME NEW w \in Workers, SaveRefresh(w)
      PROVE  Minting(u)' = Minting(u) /\ \A t \in held' \ held : t.sub # u
  <2>1. Minting(u)' = Minting(u)
    BY <1>1, OtherMoves, MintingKept
  <2>2. u # req[w].user
    BY <1>1 DEF SaveRefresh, SetEx
  <2>3. req[w].user \in Users /\ req[w].iat \in Times
    BY <1>1, Carried DEF SaveRefresh
  <2>. QED BY <1>1, <2>1, <2>2, <2>3, MadeTokens DEF SaveRefresh
<1>2. ASSUME NEW w \in Workers,
             \/ \E v \in Users : \/ Login(w, v) \/ Logout(w, v)
                                 \/ UpdatePassword(w, v) \/ ResetPassword(w, v)
             \/ \E t \in held : Refresh(w, t)
             \/ MintTokens(w) \/ SetPassword(w) \/ Revoke(w)
      PROVE  Minting(u)' = Minting(u) /\ held' = held
  <2>1. Minting(u)' = Minting(u)
    BY <1>2, OtherMoves, MintingKept
  <2>. QED BY <1>2, <2>1
           DEF Login, Logout, UpdatePassword, ResetPassword, Refresh, MintTokens,
               SetPassword, Revoke
<1>3. ASSUME NEW w \in Workers, Lookup(w)
      PROVE  Minting(u)' = Minting(u) /\ held' = held
  BY <1>3, LookupAdmits DEF Lookup
<1>4. ASSUME NEW w \in Workers, MintAccess(w)
      PROVE  /\ Minting(u)' \subseteq Minting(u)
             /\ \A t \in held' \ held :
                  t.sub = u => t = AccessToken(u, now) /\ Minting(u)' # Minting(u)
  <2>1. /\ req[w].user \in Users
        /\ w \in Minting(req[w].user)
        /\ Minting(u)' = IF u = req[w].user THEN Minting(u) \ {w} ELSE Minting(u)
    BY <1>4, MintLeaves DEF MintAccess
  <2>2. \A t \in held' \ held : t = AccessToken(req[w].user, now)
    BY <1>4 DEF MintAccess
  <2>3. AccessToken(req[w].user, now).sub = req[w].user
    BY <2>1, MadeTokens DEF TypeOK
  <2>. QED BY <2>1, <2>2, <2>3
<1>5. ASSUME NEW w \in Workers, Abort(w)
      PROVE  Minting(u)' \subseteq Minting(u) /\ held' = held
  <2>1. CASE req[w].pc = "mint"
    BY <1>5, <2>1, MintLeaves DEF Abort
  <2>2. CASE req[w].pc # "mint"
    <3>1. Idle.pc # "mint"
      BY DEF Idle
    <3>. QED BY <1>5, <2>2, <3>1, MintingKept DEF Abort, Done
  <2>. QED BY <2>1, <2>2
<1>6. ASSUME (\E v \in Users : DeleteUser(v)) \/ Tick \/ UNCHANGED vars
      PROVE  Minting(u)' = Minting(u) /\ held' = held
  BY <1>6 DEF DeleteUser, Tick, vars, Minting
<1>. QED BY <1>1, <1>2, <1>3, <1>4, <1>5, <1>6 DEF Next, NextBesidesRevoke, Serve

(* While a user has no key in Redis, only the refresh requests that saw it *)
(* before make access tokens, one each, and nobody joins them, for every   *)
(* number of requests and every age of the tokens.                         *)
THEOREM AccessAlwaysDrains == Spec => AccessDrains
<1>. QED BY DrainNext, TypeCorrect, PTL DEF Spec, AccessDrains

-----------------------------------------------------------------------------
(* Sessions and password changes.                                          *)

Revoking(u) == \E w \in Workers : req[w] = [pc |-> "revoke", user |-> u]

LEMMA StaleInit == Init => StaleSessionsExplained
  BY DEF Init, StaleSessionsExplained, StaleSession

(* A step that opens no session, changes no password and takes no DEL away *)
(* keeps the explanations.                                                 *)
LEMMA StaleMove ==
  ASSUME TypeOK, StaleSessionsExplained, NEW w \in Workers, NEW r, Goto(w, r),
         req[w].pc # "revoke" \/ req[w].user \in excused',
         UNCHANGED password, excused \subseteq excused',
         DOMAIN refresh' \subseteq DOMAIN refresh,
         \A u \in DOMAIN refresh' : refresh'[u] = refresh[u]
  PROVE  StaleSessionsExplained'
<1>. SUFFICES ASSUME NEW u \in Users, StaleSession(u)'
              PROVE  u \in excused' \/ Revoking(u)'
  BY DEF StaleSessionsExplained, Revoking
<1>1. StaleSession(u)
  BY DEF StaleSession
<1>2. u \in excused \/ Revoking(u)
  BY <1>1 DEF StaleSessionsExplained, Revoking
<1>3. ASSUME NEW x \in Workers, req[x] = [pc |-> "revoke", user |-> u]
      PROVE  u \in excused' \/ Revoking(u)'
  <2>1. CASE x = w
    BY <1>3, <2>1
  <2>2. CASE x # w
    BY <1>3, <2>2 DEF Goto, TypeOK, Revoking
  <2>. QED BY <2>1, <2>2
<1>. QED BY <1>2, <1>3 DEF Revoking

LEMMA StaleNext == TypeOK /\ StaleSessionsExplained /\ [Next]_vars => StaleSessionsExplained'
<1>. SUFFICES ASSUME TypeOK, StaleSessionsExplained, [Next]_vars
              PROVE  StaleSessionsExplained'
  OBVIOUS
<1>1. ASSUME NEW w \in Workers, NEW u \in Users,
             \/ Login(w, u) \/ Logout(w, u)
             \/ UpdatePassword(w, u) \/ ResetPassword(w, u)
      PROVE  StaleSessionsExplained'
  BY <1>1, StaleMove DEF Login, Logout, UpdatePassword, ResetPassword, Idle
<1>2. ASSUME NEW w \in Workers, NEW t \in held, Refresh(w, t)
      PROVE  StaleSessionsExplained'
  BY <1>2, StaleMove DEF Refresh, Idle
<1>3. ASSUME NEW w \in Workers, MintTokens(w) \/ Lookup(w) \/ MintAccess(w)
      PROVE  StaleSessionsExplained'
  BY <1>3, StaleMove DEF MintTokens, Lookup, MintAccess, Done
<1>4. ASSUME NEW w \in Workers, Abort(w) PROVE StaleSessionsExplained'
  BY <1>4, StaleMove DEF Abort, Done
<1>5. ASSUME NEW w \in Workers, SaveRefresh(w) PROVE StaleSessionsExplained'
  <2>. SUFFICES ASSUME NEW u \in Users, StaleSession(u)'
                PROVE  u \in excused' \/ Revoking(u)'
    BY DEF StaleSessionsExplained, Revoking
  <2>1. CASE u = req[w].user
    BY <1>5, <2>1 DEF SaveRefresh, SetEx, StaleSession
  <2>2. CASE u # req[w].user
    <3>1. StaleSession(u)
      BY <1>5, <2>2 DEF SaveRefresh, SetEx, StaleSession
    <3>2. u \in excused \/ Revoking(u)
      BY <3>1 DEF StaleSessionsExplained, Revoking
    <3>3. Revoking(u) => Revoking(u)'
      BY <1>5 DEF SaveRefresh, Done, Goto, TypeOK, Revoking
    <3>. QED BY <1>5, <2>2, <3>2, <3>3 DEF SaveRefresh
  <2>. QED BY <2>1, <2>2
<1>6. ASSUME NEW w \in Workers, SetPassword(w) PROVE StaleSessionsExplained'
  <2>. SUFFICES ASSUME NEW u \in Users, StaleSession(u)'
                PROVE  u \in excused' \/ Revoking(u)'
    BY DEF StaleSessionsExplained, Revoking
  <2>1. CASE u = req[w].user
    <3>1. req[w] = [pc |-> req[w].pc, user |-> req[w].user]
      BY <1>6, Carried DEF SetPassword
    <3>2. CASE req[w].pc = "change"
      <4>1. req'[w] = [pc |-> "revoke", user |-> u]
        BY <1>6, <2>1, <3>1, <3>2 DEF SetPassword, Goto, TypeOK
      <4>. QED BY <4>1 DEF Revoking
    <3>3. CASE req[w].pc # "change"
      BY <1>6, <2>1, <3>3 DEF SetPassword
    <3>. QED BY <3>2, <3>3
  <2>2. CASE u # req[w].user
    <3>1. StaleSession(u)
      BY <1>6, <2>2 DEF SetPassword, StaleSession, TypeOK
    <3>2. u \in excused \/ Revoking(u)
      BY <3>1 DEF StaleSessionsExplained, Revoking
    <3>3. Revoking(u) => Revoking(u)'
      BY <1>6 DEF SetPassword, Done, Goto, TypeOK, Revoking
    <3>. QED BY <1>6, <2>2, <3>2, <3>3 DEF SetPassword
  <2>. QED BY <2>1, <2>2
<1>7. ASSUME NEW w \in Workers, Revoke(w) PROVE StaleSessionsExplained'
  <2>. SUFFICES ASSUME NEW u \in Users, StaleSession(u)'
                PROVE  u \in excused' \/ Revoking(u)'
    BY DEF StaleSessionsExplained, Revoking
  <2>1. u # req[w].user /\ StaleSession(u)
    BY <1>7 DEF Revoke, Del, StaleSession
  <2>2. u \in excused \/ Revoking(u)
    BY <2>1 DEF StaleSessionsExplained, Revoking
  <2>3. Revoking(u) => Revoking(u)'
    BY <1>7, <2>1 DEF Revoke, Done, Goto, TypeOK, Revoking
  <2>. QED BY <1>7, <2>1, <2>2, <2>3 DEF Revoke
<1>8. ASSUME NEW u \in Users, DeleteUser(u) PROVE StaleSessionsExplained'
  BY <1>8 DEF DeleteUser, StaleSessionsExplained, StaleSession
<1>9. ASSUME Tick PROVE StaleSessionsExplained'
  <2>1. \A u \in Users : StaleSession(u)' => StaleSession(u)
    BY <1>9 DEF Tick, StaleSession
  <2>. QED BY <1>9, <2>1 DEF Tick, StaleSessionsExplained
<1>10. CASE UNCHANGED vars
  BY <1>10 DEF vars, StaleSessionsExplained, StaleSession
<1>. QED
  BY <1>1, <1>2, <1>3, <1>4, <1>5, <1>6, <1>7, <1>8, <1>9, <1>10
     DEF Next, NextBesidesRevoke, Serve

(* A session outlives the password it was opened with only where the code  *)
(* leaves it: a reset, a change cut off before its DEL, a login that was   *)
(* already past its comparison.                                            *)
THEOREM StaleSessionsAlwaysExplained == Spec => []StaleSessionsExplained
<1>. QED BY StaleInit, StaleNext, TypeCorrect, PTL DEF Spec

-----------------------------------------------------------------------------
(* Lost tokens.                                                            *)

(* A step that stores nothing, and after which no more logins are on their *)
(* way to store something.                                                 *)
LEMMA LostKept ==
  ASSUME TypeOK, NEW t \in Tokens, Lost(t), now' \in Nat, now <= now',
         \A u \in DOMAIN refresh' : u \in DOMAIN refresh /\ refresh'[u] = refresh[u],
         \A w \in Workers : req'[w] = req[w] \/ req'[w].pc # "save"
  PROVE  Lost(t)'
<1>1. t.iat < now'
  BY TokenFields DEF Lost, TypeOK, Times
<1>2. ~Stored(t)'
  BY DEF Lost, Stored
<1>3. \A w \in Workers : req'[w].pc = "save" =>
        RefreshToken(req'[w].user, req'[w].iat) # t
  BY DEF Lost
<1>. QED BY <1>1, <1>2, <1>3 DEF Lost

LEMMA LostNext ==
  TypeOK /\ [Next]_vars => \A t \in held : Lost(t) => Lost(t)'
<1>. SUFFICES ASSUME TypeOK, [Next]_vars, NEW t \in held, Lost(t)
              PROVE  Lost(t)'
  OBVIOUS
<1>t. t \in Tokens
  BY DEF TypeOK
<1>n. now \in Nat
  BY DEF TypeOK, Times
<1>idle. Idle.pc = "idle"
  BY DEF Idle
<1>move. ASSUME NEW w \in Workers, NEW r, r.pc # "save", Goto(w, r),
                UNCHANGED <<now, refresh>>
         PROVE  Lost(t)'
  <2>1. \A x \in Workers : req'[x] = req[x] \/ req'[x].pc # "save"
    BY <1>move DEF Goto, TypeOK
  <2>. QED BY <1>t, <1>n, <1>move, <2>1, LostKept
<1>1. ASSUME NEW w \in Workers, MintTokens(w) PROVE Lost(t)'
  <2>. DEFINE u == req[w].user
              r == [pc |-> "save", user |-> u, password |-> req[w].password, iat |-> now]
  <2>1. r.user = u /\ r.iat = now /\ u \in Users
    BY <1>1, Carried DEF MintTokens
  <2>2. RefreshToken(u, now) # t
    BY <1>n, <2>1, MadeTokens, TokenFields DEF Lost, TypeOK, Times
  <2>3. /\ \A x \in Workers : req'[x] = req[x] \/ req'[x] = r
        /\ now' = now /\ refresh' = refresh
    BY <1>1 DEF MintTokens, Goto, TypeOK
  <2>. HIDE DEF r
  <2>4. \A x \in Workers : req'[x].pc = "save" =>
          RefreshToken(req'[x].user, req'[x].iat) # t
    BY <2>1, <2>2, <2>3 DEF Lost
  <2>5. ~Stored(t)'
    BY <2>3 DEF Lost, Stored
  <2>. QED BY <2>3, <2>4, <2>5 DEF Lost
<1>2. ASSUME NEW w \in Workers, NEW u \in Users,
             \/ Login(w, u) \/ Logout(w, u)
             \/ UpdatePassword(w, u) \/ ResetPassword(w, u)
      PROVE  Lost(t)'
  BY <1>2, <1>move DEF Login, Logout, UpdatePassword, ResetPassword
<1>3. ASSUME NEW w \in Workers, NEW x \in held, Refresh(w, x) PROVE Lost(t)'
  BY <1>3, <1>move DEF Refresh
<1>4. ASSUME NEW w \in Workers, SaveRefresh(w) PROVE Lost(t)'
  <2>. DEFINE s == [token |-> RefreshToken(req[w].user, req[w].iat),
                    until |-> now + RefreshAge, password |-> req[w].password]
  <2>1. s.token # t
    BY <1>4 DEF SaveRefresh, Lost
  <2>2. refresh' = SetEx(req[w].user, s)
    BY <1>4 DEF SaveRefresh
  <2>. HIDE DEF s
  <2>3. ~Stored(t)'
    BY <2>1, <2>2 DEF SetEx, Stored, Lost
  <2>4. /\ \A x \in Workers : req'[x] = req[x] \/ req'[x].pc # "save"
        /\ now' = now
    BY <1>4, <1>idle DEF SaveRefresh, Done, Goto, TypeOK
  <2>. QED BY <2>3, <2>4 DEF Lost
<1>5. ASSUME NEW w \in Workers, Lookup(w) \/ MintAccess(w) PROVE Lost(t)'
  BY <1>5, <1>idle, <1>move DEF Lookup, MintAccess, Done
<1>6. ASSUME NEW w \in Workers, SetPassword(w) PROVE Lost(t)'
  <2>1. req[w] = [pc |-> req[w].pc, user |-> req[w].user]
    BY <1>6, Carried DEF SetPassword
  <2>2. [req[w] EXCEPT !.pc = "revoke"].pc = "revoke"
    BY <2>1
  <2>. QED BY <1>6, <1>idle, <1>move, <2>2 DEF SetPassword, Done
<1>7. ASSUME NEW w \in Workers, Revoke(w) PROVE Lost(t)'
  <2>1. /\ \A u \in DOMAIN refresh' : u \in DOMAIN refresh /\ refresh'[u] = refresh[u]
        /\ \A x \in Workers : req'[x] = req[x] \/ req'[x].pc # "save"
        /\ now' = now
    BY <1>7, <1>idle DEF Revoke, Del, Done, Goto, TypeOK
  <2>. QED BY <1>t, <1>n, <2>1, LostKept
<1>8. ASSUME NEW w \in Workers, Abort(w) PROVE Lost(t)'
  BY <1>8, <1>idle, <1>move DEF Abort, Done
<1>9. ASSUME NEW u \in Users, DeleteUser(u) PROVE Lost(t)'
  BY <1>9, <1>t, <1>n, LostKept DEF DeleteUser
<1>10. ASSUME Tick PROVE Lost(t)'
  <2>1. /\ \A u \in DOMAIN refresh' : u \in DOMAIN refresh /\ refresh'[u] = refresh[u]
        /\ now' = now + 1 /\ req' = req
    BY <1>10 DEF Tick
  <2>. QED BY <1>t, <1>n, <2>1, LostKept
<1>11. CASE UNCHANGED vars
  BY <1>11, <1>t, <1>n, LostKept DEF vars
<1>. QED
  BY <1>1, <1>2, <1>3, <1>4, <1>5, <1>6, <1>7, <1>8, <1>9, <1>10, <1>11
     DEF Next, NextBesidesRevoke, Serve

(* Once its second is over and no login is about to store it, a refresh    *)
(* token that Redis no longer holds is never accepted again, whoever else  *)
(* logs in, for tokens of every age and any number of requests.            *)
THEOREM LostTokensAlwaysStayLost == Spec => LostTokensStayLost
<1>1. TypeOK /\ [Next]_vars => [\A t \in held : Lost(t) => Lost(t)']_vars
  BY LostNext
<1>. QED BY <1>1, TypeCorrect, PTL DEF Spec, LostTokensStayLost

-----------------------------------------------------------------------------
(* Sessions implements SessionLifecycle.                                   *)

(* What a step leaves alone, seen from the life of the sessions.           *)
LEMMA NoSessionStep ==
  ASSUME UNCHANGED <<now, refresh, held>>
  PROVE  UNCHANGED <<now, left, granted>>
BY DEF left, granted

(* A login that is about to store its tokens made them before.             *)
MintedBefore ==
  \A w \in Workers : req[w].pc = "save" => req[w].iat <= now

LEMMA MintedNext == TypeOK /\ MintedBefore /\ [Next]_vars => MintedBefore'
<1>. SUFFICES ASSUME TypeOK, MintedBefore, [Next]_vars, NEW x \in Workers,
                     req'[x].pc = "save"
              PROVE  req'[x].iat <= now'
  BY DEF MintedBefore
<1>now. now \in Nat /\ (now' = now \/ now' = now + 1)
  <2>1. now \in Nat
    BY DEF TypeOK, Times
  <2>2. ASSUME NEW w \in Workers, Serve(w) \/ Revoke(w) PROVE now' = now
    BY <2>2 DEF Serve, Login, MintTokens, SaveRefresh, Refresh, Lookup, MintAccess,
                Logout, UpdatePassword, ResetPassword, SetPassword, Revoke, Abort
  <2>3. ASSUME (\E u \in Users : DeleteUser(u)) \/ UNCHANGED vars PROVE now' = now
    BY <2>3 DEF DeleteUser, vars
  <2>4. Tick => now' = now + 1
    BY DEF Tick
  <2>. QED BY <2>1, <2>2, <2>3, <2>4 DEF Next, NextBesidesRevoke
<1>idle. Idle.pc = "idle"
  BY DEF Idle
<1>1. ASSUME req'[x] = req[x] PROVE req'[x].iat <= now'
  <2>1. req[x].pc = "save"
    BY <1>1
  <2>2. req[x].iat \in Times
    BY <2>1, Carried
  <2>3. req[x].iat <= now
    BY <2>1 DEF MintedBefore
  <2>. QED BY <1>1, <1>now, <2>2, <2>3, SessionsAssumption DEF Times
<1>2. ASSUME NEW w \in Workers, NEW r, Goto(w, r), r.pc # "save"
      PROVE  req'[x] = req[x]
  BY <1>2 DEF Goto, TypeOK
<1>3. ASSUME NEW w \in Workers, Serve(w) \/ Revoke(w)
      PROVE  req'[x].iat <= now'
  <2>1. CASE MintTokens(w)
    <3>. DEFINE r == [pc |-> "save", user |-> req[w].user,
                      password |-> req[w].password, iat |-> now]
    <3>1. req'[x] = req[x] \/ req'[x] = r
      BY <2>1 DEF MintTokens, Goto, TypeOK
    <3>2. r.iat = now /\ now' = now
      BY <2>1 DEF MintTokens
    <3>. HIDE DEF r
    <3>. QED BY <1>1, <1>now, <3>1, <3>2
  <2>2. CASE SetPassword(w)
    <3>1. req[w] = [pc |-> req[w].pc, user |-> req[w].user]
      BY <2>2, Carried DEF SetPassword
    <3>2. [req[w] EXCEPT !.pc = "revoke"].pc = "revoke"
      BY <3>1
    <3>. QED BY <1>1, <1>2, <1>idle, <2>2, <3>2 DEF SetPassword, Done
  <2>3. CASE \/ \E u \in Users : \/ Login(w, u) \/ Logout(w, u)
                                \/ UpdatePassword(w, u) \/ ResetPassword(w, u)
             \/ \E t \in held : Refresh(w, t)
    BY <1>1, <1>2, <2>3 DEF Login, Logout, UpdatePassword, ResetPassword, Refresh
  <2>4. CASE SaveRefresh(w) \/ Lookup(w) \/ MintAccess(w) \/ Revoke(w) \/ Abort(w)
    BY <1>1, <1>2, <1>idle, <2>4
       DEF SaveRefresh, Lookup, MintAccess, Revoke, Abort, Done
  <2>. QED BY <1>3, <2>1, <2>2, <2>3, <2>4 DEF Serve
<1>4. ASSUME (\E u \in Users : DeleteUser(u)) \/ Tick \/ UNCHANGED vars
      PROVE  req'[x].iat <= now'
  BY <1>1, <1>4 DEF DeleteUser, Tick, vars
<1>. QED BY <1>3, <1>4 DEF Next, NextBesidesRevoke

LEMMA MintedInit == Init => MintedBefore
  BY DEF Init, MintedBefore, Idle

(* An access token is one of its user and its second, and no refresh token.*)
LEMMA AccessIsGranted ==
  ASSUME NEW u \in Users, NEW s \in Times, NEW R, held' = held \cup R,
         AccessToken(u, s) \in R,
         \A x \in R : x = AccessToken(u, s) \/ x = RefreshToken(u, s)
  PROVE  Lifecycle!Grant(u, s)
<1>1. ASSUME NEW v \in Users, NEW t \in Times
      PROVE  /\ AccessToken(v, t) # RefreshToken(u, s)
             /\ AccessToken(v, t) = AccessToken(u, s) => v = u /\ t = s
  BY SessionsAssumption DEF AccessToken, RefreshToken, Token, Times
<1>2. ASSUME NEW v \in Users, NEW t \in Times
      PROVE  AccessToken(v, t) \in held' <=>
               AccessToken(v, t) \in held \/ (v = u /\ t = s)
  BY <1>1
<1>3. granted' = [v \in Users |-> {t \in Times : AccessToken(v, t) \in held'}]
  BY DEF granted
<1>4. granted' = [granted EXCEPT ![u] = @ \cup {s}]
  BY <1>2, <1>3 DEF granted
<1>. QED BY <1>4 DEF Lifecycle!Grant

LEMMA SaveOpens ==
  ASSUME TypeOK, MintedBefore, NEW w \in Workers, SaveRefresh(w)
  PROVE  \E u \in Users, s \in 0 .. now : Lifecycle!Open(u, s)
<1>. DEFINE u == req[w].user
            s == req[w].iat
<1>1. u \in Users /\ s \in Times /\ s \in 0 .. now /\ now' = now
  BY Carried DEF SaveRefresh, MintedBefore, Times, TypeOK
<1>2. /\ held' = held \cup {AccessToken(u, s), RefreshToken(u, s)}
      /\ DOMAIN refresh' = DOMAIN refresh \cup {u}
      /\ refresh'[u].until = now + RefreshAge
      /\ \A v \in DOMAIN refresh : v # u => refresh'[v] = refresh[v]
  BY DEF SaveRefresh, SetEx
<1>. HIDE DEF u, s
<1>3. Lifecycle!Grant(u, s)
  <2>. DEFINE R == {AccessToken(u, s), RefreshToken(u, s)}
  <2>1. AccessToken(u, s) \in R /\ held' = held \cup R
    BY <1>2
  <2>2. \A x \in R : x = AccessToken(u, s) \/ x = RefreshToken(u, s)
    OBVIOUS
  <2>. HIDE DEF R
  <2>. QED BY <1>1, <2>1, <2>2, AccessIsGranted
<1>4. left' = [left EXCEPT ![u] = RefreshAge]
  <2>1. now \in Nat /\ RefreshAge \in Nat
    BY SessionsAssumption DEF TypeOK, Times
  <2>2. left'[u] = RefreshAge
    BY <1>1, <1>2, <2>1 DEF left
  <2>3. \A v \in Users : v # u => left'[v] = left[v]
    BY <1>1, <1>2 DEF left
  <2>. QED BY <1>1, <2>2, <2>3 DEF left
<1>5. admitted' = admitted
  BY OtherMoves, MintingKept DEF admitted
<1>. QED BY <1>1, <1>3, <1>4, <1>5 DEF Lifecycle!Open

LEMMA LookupIsAdmitted ==
  ASSUME TypeOK, NEW w \in Workers, Lookup(w)
  PROVE  \E u \in Users : Lifecycle!Admit(u, w)
<1>. DEFINE u == req[w].token.sub
<1>1. /\ u \in Users /\ u \in DOMAIN refresh
      /\ \A v \in Users : w \notin Minting(v)
      /\ \A v \in Users : Minting(v)' =
           IF v = u THEN Minting(v) \cup {w} ELSE Minting(v)
  BY LookupAdmits
<1>2. UNCHANGED <<now, refresh, held>>
  BY DEF Lookup
<1>. HIDE DEF u
<1>3. refresh[u].until \in now + 1 .. now + RefreshAge /\ now \in Nat
  BY <1>1 DEF TypeOK, Times
<1>4. left[u] > 0
  BY <1>1, <1>3, SessionsAssumption DEF left
<1>5. \A v \in Users : w \notin admitted[v]
  BY <1>1 DEF admitted
<1>6. admitted' = [admitted EXCEPT ![u] = @ \cup {w}]
  BY <1>1 DEF admitted
<1>7. UNCHANGED <<now, left, granted>>
  BY <1>2, NoSessionStep
<1>. QED BY <1>1, <1>4, <1>5, <1>6, <1>7 DEF Lifecycle!Admit

(* A request that ends between its lookup and its token gives its ticket   *)
(* back.                                                                   *)
LEMMA LeavingTakesBack ==
  ASSUME TypeOK, NEW w \in Workers, Done(w), req[w].pc = "mint"
  PROVE  req[w].user \in Users /\ Lifecycle!TakeBack(req[w].user, w)
<1>. DEFINE u == req[w].user
<1>1. /\ u \in Users /\ w \in Minting(u)
      /\ \A v \in Users : Minting(v)' =
           IF v = u THEN Minting(v) \ {w} ELSE Minting(v)
  BY MintLeaves
<1>. HIDE DEF u
<1>2. w \in admitted[u] /\ admitted' = [admitted EXCEPT ![u] = @ \ {w}]
  BY <1>1 DEF admitted
<1>3. u \in Users /\ Lifecycle!TakeBack(u, w)
  BY <1>1, <1>2 DEF Lifecycle!TakeBack
<1>. QED BY <1>3 DEF u

LEMMA MintExtends ==
  ASSUME TypeOK, NEW w \in Workers, MintAccess(w)
  PROVE  \E u \in Users : Lifecycle!Extend(u, w)
<1>. DEFINE u == req[w].user
<1>1. u \in Users /\ Lifecycle!TakeBack(u, w)
  BY LeavingTakesBack DEF MintAccess
<1>2. now \in Times /\ held' = held \cup {AccessToken(u, now)}
      /\ now' = now /\ refresh' = refresh
  BY DEF MintAccess, TypeOK
<1>. HIDE DEF u
<1>3. Lifecycle!Grant(u, now)
  <2>. DEFINE R == {AccessToken(u, now)}
  <2>1. AccessToken(u, now) \in R /\ held' = held \cup R
    BY <1>2
  <2>2. \A x \in R : x = AccessToken(u, now) \/ x = RefreshToken(u, now)
    OBVIOUS
  <2>. HIDE DEF R
  <2>. QED BY <1>1, <1>2, <2>1, <2>2, AccessIsGranted
<1>4. left' = left
  BY <1>2 DEF left
<1>. QED BY <1>1, <1>2, <1>3, <1>4 DEF Lifecycle!Extend

LEMMA AbortDrops ==
  ASSUME TypeOK, NEW w \in Workers, Abort(w)
  PROVE  \/ \E u \in Users : Lifecycle!Drop(u, w)
         \/ UNCHANGED <<now, left, admitted, granted>>
<1>1. UNCHANGED <<now, left, granted>>
  BY NoSessionStep DEF Abort
<1>2. CASE req[w].pc = "mint"
  <2>1. req[w].user \in Users /\ Lifecycle!TakeBack(req[w].user, w)
    BY <1>2, LeavingTakesBack DEF Abort
  <2>2. Lifecycle!Drop(req[w].user, w)
    BY <1>1, <2>1 DEF Lifecycle!Drop
  <2>. QED BY <2>1, <2>2
<1>3. CASE req[w].pc # "mint"
  <2>1. Idle.pc # "mint"
    BY DEF Idle
  <2>2. admitted' = admitted
    BY <1>3, <2>1, MintingKept DEF Abort, Done, admitted
  <2>. QED BY <1>1, <2>2
<1>. QED BY <1>2, <1>3

(* The DEL of a key that is gone already is no step.                       *)
LEMMA RevokeCloses ==
  ASSUME TypeOK, NEW w \in Workers, Revoke(w)
  PROVE  \/ \E u \in Users : Lifecycle!Close(u)
         \/ UNCHANGED <<now, left, admitted, granted>>
<1>. DEFINE u == req[w].user
<1>1. u \in Users /\ now' = now /\ held' = held
  BY Carried DEF Revoke
<1>2. /\ DOMAIN refresh' = DOMAIN refresh \ {u}
      /\ \A v \in DOMAIN refresh' : refresh'[v] = refresh[v]
  BY DEF Revoke, Del
<1>. HIDE DEF u
<1>3. granted' = granted /\ admitted' = admitted
  BY <1>1, OtherMoves, MintingKept DEF granted, admitted
<1>4. CASE u \in DOMAIN refresh
  <2>1. refresh[u].until \in now + 1 .. now + RefreshAge /\ now \in Nat
    BY <1>4 DEF TypeOK, Times
  <2>2. left[u] > 0
    BY <1>1, <1>4, <2>1, SessionsAssumption DEF left
  <2>3. left' = [left EXCEPT ![u] = 0]
    BY <1>1, <1>2, <1>4 DEF left
  <2>. QED BY <1>1, <1>3, <2>2, <2>3 DEF Lifecycle!Close
<1>5. CASE u \notin DOMAIN refresh
  BY <1>1, <1>2, <1>3, <1>5 DEF left
<1>. QED BY <1>4, <1>5

(* The keys Redis drops are those whose sessions have no second left.      *)
LEMMA TickIsSecond ==
  ASSUME TypeOK, Tick PROVE Lifecycle!Second
<1>1. /\ now \in Nat /\ now' = now + 1 /\ held' = held
      /\ DOMAIN refresh' = {v \in DOMAIN refresh : refresh[v].until > now + 1}
      /\ \A v \in DOMAIN refresh' : refresh'[v] = refresh[v]
  BY DEF Tick, TypeOK, Times
<1>2. \A v \in DOMAIN refresh : refresh[v].until \in now + 1 .. now + RefreshAge
  BY DEF TypeOK
<1>3. ASSUME NEW v \in Users
      PROVE  left'[v] = IF left[v] = 0 THEN 0 ELSE left[v] - 1
  BY <1>1, <1>2, SessionsAssumption DEF left
<1>4. left' = [v \in Users |-> left'[v]]
  BY DEF left
<1>5. left' = [v \in Users |-> IF left[v] = 0 THEN 0 ELSE left[v] - 1]
  BY <1>3, <1>4
<1>6. granted' = granted /\ admitted' = admitted
  BY <1>1 DEF granted, admitted, Minting, Tick
<1>. QED BY <1>1, <1>5, <1>6 DEF Lifecycle!Second

LEMMA StepOfSession ==
  TypeOK /\ MintedBefore /\ [Next]_vars => [Lifecycle!Next]_(Lifecycle!sessionVars)
<1>. SUFFICES ASSUME TypeOK, MintedBefore, [Next]_vars
              PROVE  Lifecycle!Next \/ UNCHANGED <<now, left, admitted, granted>>
  BY DEF Lifecycle!sessionVars
<1>1. ASSUME NEW w \in Workers, SaveRefresh(w) PROVE Lifecycle!Next
  BY <1>1, SaveOpens DEF Lifecycle!Next
<1>2. ASSUME NEW w \in Workers, Lookup(w) PROVE Lifecycle!Next
  BY <1>2, LookupIsAdmitted DEF Lifecycle!Next
<1>3. ASSUME NEW w \in Workers, MintAccess(w) PROVE Lifecycle!Next
  BY <1>3, MintExtends DEF Lifecycle!Next
<1>4. ASSUME NEW w \in Workers, Abort(w)
      PROVE  Lifecycle!Next \/ UNCHANGED <<now, left, admitted, granted>>
  BY <1>4, AbortDrops DEF Lifecycle!Next
<1>5. ASSUME NEW w \in Workers, Revoke(w)
      PROVE  Lifecycle!Next \/ UNCHANGED <<now, left, admitted, granted>>
  BY <1>5, RevokeCloses DEF Lifecycle!Next
<1>6. CASE Tick
  BY <1>6, TickIsSecond DEF Lifecycle!Next
<1>7. ASSUME NEW w \in Workers,
             \/ \E u \in Users : \/ Login(w, u) \/ Logout(w, u)
                                 \/ UpdatePassword(w, u) \/ ResetPassword(w, u)
             \/ \E t \in held : Refresh(w, t)
             \/ MintTokens(w) \/ SetPassword(w)
      PROVE  UNCHANGED <<now, left, admitted, granted>>
  <2>1. UNCHANGED <<now, refresh, held>>
    BY <1>7 DEF Login, Logout, UpdatePassword, ResetPassword, Refresh, MintTokens,
                SetPassword
  <2>2. admitted' = admitted
    BY <1>7, OtherMoves, MintingKept DEF admitted
  <2>. QED BY <2>1, <2>2, NoSessionStep
<1>8. ASSUME (\E u \in Users : DeleteUser(u)) \/ UNCHANGED vars
      PROVE  UNCHANGED <<now, left, admitted, granted>>
  BY <1>8, NoSessionStep DEF DeleteUser, vars, admitted, Minting
<1>. QED BY <1>1, <1>2, <1>3, <1>4, <1>5, <1>6, <1>7, <1>8
         DEF Next, NextBesidesRevoke, Serve

(* Whatever requests are interleaved, cut off or late, a session runs for  *)
(* at most the age of its refresh token, ends for good when it is closed,  *)
(* and access is granted only by a login, or once to each request that saw *)
(* a session running.                                                      *)
THEOREM AlwaysImplementsSessionLifecycle == Spec => ImplementsSessionLifecycle
<1>1. Init => Lifecycle!Init
  <2>. SUFFICES ASSUME Init PROVE Lifecycle!Init
    OBVIOUS
  <2>1. left = [u \in Users |-> 0] /\ granted = [u \in Users |-> {}]
    BY DEF Init, left, granted
  <2>2. admitted = [u \in Users |-> {}]
    BY DEF Init, admitted, Minting, Idle
  <2>. QED BY <2>1, <2>2 DEF Init, Lifecycle!Init
<1>2. Spec => []MintedBefore
  BY MintedInit, MintedNext, TypeCorrect, PTL DEF Spec
<1>. QED BY <1>1, <1>2, StepOfSession, TypeCorrect, PTL
     DEF Spec, ImplementsSessionLifecycle, Lifecycle!Spec

=============================================================================
