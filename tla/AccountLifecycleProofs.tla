------------------------ MODULE AccountLifecycleProofs ------------------------
(***************************************************************************)
(* The handlers of Accounts implement AccountLifecycle, for every set of   *)
(* users, addresses and workers: the initial states correspond, and every  *)
(* statement is a step of one account's life, a purge, or no step at all.  *)
(***************************************************************************)
EXTENDS AccountsProofs

(* An account that somebody registered, whether it is still there or not.  *)
Signed(u) == \E t \in Tokens : issued[t].user = u /\ issued[t].kind = "verify"

LifeInv ==
  /\ \A u \in DOMAIN rows : Signed(u)
  /\ \A w \in Workers : req[w].pc = "store" => Signed(req[w].user)

LEMMA LifeInvInit == Init => LifeInv
  BY DEF Init, LifeInv, Idle

LEMMA LifeInvNext == TypeOK /\ LifeInv /\ [Next]_vars => LifeInv'
<1>. SUFFICES ASSUME TypeOK, LifeInv, [Next]_vars PROVE LifeInv'
  OBVIOUS
<1>1. Growth /\ RowLife /\ RequestLife
  BY StepLives DEF Lives
<1>2. \A u : Signed(u) => Signed(u)'
  BY <1>1 DEF Signed, Growth
<1>3. ASSUME NEW u \in DOMAIN rows' PROVE Signed(u)'
  <2>1. CASE u \in DOMAIN rows
    BY <1>2, <2>1 DEF LifeInv
  <2>2. CASE Born(u)
    BY <2>2 DEF Born, Signed
  <2>. QED BY <1>1, <2>1, <2>2 DEF RowLife, Kept, Linked, Spent, Moved
<1>4. ASSUME NEW w \in Workers, req'[w].pc = "store" PROVE Signed(req[w].user)'
  <2>1. req'[w] = req[w] \/ req'[w].user \in DOMAIN rows
    BY <1>1, <1>4 DEF RequestLife
  <2>2. Signed(req'[w].user)
    BY <1>4, <2>1 DEF LifeInv
  <2>3. PICK u : u = req'[w].user
    OBVIOUS
  <2>4. Signed(u)'
    BY <1>2, <2>2, <2>3
  <2>. QED BY <2>3, <2>4 DEF Signed
<1>. QED BY <1>3, <1>4 DEF LifeInv

-----------------------------------------------------------------------------
(* One statement, seen from the life of the accounts.                      *)

(* A statement that leaves slots, marks and tokens alone is no step.       *)
LEMMA NoStep ==
  ASSUME issued' = issued, DOMAIN rows' = DOMAIN rows,
         \A u \in DOMAIN rows :
           rows'[u].verified = rows[u].verified /\ rows'[u].token = rows[u].token
  PROVE  UNCHANGED <<stage, link, Len(issued)>>
<1>1. Tokens' = Tokens
  BY DEF Tokens
<1>2. stage' = stage
  BY <1>1 DEF stage
<1>3. link' = link
  BY DEF link
<1>. QED BY <1>2, <1>3

(* The stage of an account in terms of its row and its tokens.             *)
LEMMA Stages ==
  ASSUME TypeOK, LifeInv
  PROVE  /\ stage = [u \in Users |->
              IF u \in DOMAIN rows THEN IF rows[u].verified THEN "active" ELSE "pending"
              ELSE IF Signed(u) THEN "gone" ELSE "none"]
         /\ DOMAIN rows \subseteq Users
         /\ \A u \in DOMAIN rows : Signed(u)
  BY DEF stage, Signed, TypeOK, LifeInv

LEMMA StagesNext ==
  stage' = [u \in Users |->
    IF u \in DOMAIN rows' THEN IF rows'[u].verified THEN "active" ELSE "pending"
    ELSE IF Signed(u)' THEN "gone" ELSE "none"]
  BY DEF stage, Signed

LEMMA RegisterSignsUp ==
  ASSUME TypeOK, LifeInv, NEW w \in Workers, NEW u \in Users, NEW e \in Emails,
         NEW n \in Names, NEW p \in Passwords, Register(w, u, e, n, p)
  PROVE  Lifecycle!SignUp(u)
<1>. DEFINE x == [user |-> u, kind |-> "verify", addr |-> e]
<1>1. x \in TokenInfo
  BY DEF TokenInfo, Kinds
<1>2. /\ Tokens' = Tokens \cup {FreshToken} /\ FreshToken \notin Tokens
      /\ issued'[FreshToken] = x
      /\ \A t \in Tokens : issued'[t] = issued[t]
      /\ Len(issued') = Len(issued) + 1
  BY <1>1, AppendToken DEF Register, TypeOK
<1>3. /\ DOMAIN rows' = DOMAIN rows \cup {u} /\ u \notin DOMAIN rows
      /\ rows'[u].verified = FALSE /\ rows'[u].token = FreshToken
      /\ \A v \in DOMAIN rows : rows'[v] = rows[v]
  BY DEF Register, SaveUser, NewId
<1>4. ~Signed(u)
  BY DEF Register, NewId, Signed
<1>5. \A v : v # u => (Signed(v)' <=> Signed(v))
  BY <1>2 DEF Signed
<1>6. stage[u] = "none" /\ stage' = [stage EXCEPT ![u] = "pending"]
  BY <1>3, <1>4, <1>5, Stages, StagesNext
<1>7. link' = [link EXCEPT ![u] = Len(issued')]
  BY <1>2, <1>3 DEF link, FreshToken
<1>. QED BY <1>2, <1>6, <1>7 DEF Lifecycle!SignUp

LEMMA StoreIsNewLink ==
  ASSUME TypeOK, LifeInv, NEW w \in Workers, AddVerifedToken(w)
  PROVE  Lifecycle!NewLink(req[w].user)
<1>. DEFINE r == req[w]
            x == [user |-> r.user, kind |-> r.kind, addr |-> r.addr]
<1>1. r.user \in Users /\ r.kind \in {"reset", "change"} /\ r.addr \in Emails
  BY Carried DEF AddVerifedToken
<1>2. x \in TokenInfo
  BY <1>1 DEF TokenInfo, Kinds
<1>3. /\ Tokens' = Tokens \cup {FreshToken} /\ FreshToken \notin Tokens
      /\ issued'[FreshToken] = x
      /\ \A t \in Tokens : issued'[t] = issued[t]
      /\ Len(issued') = Len(issued) + 1
  BY <1>2, AppendToken DEF AddVerifedToken, TypeOK
<1>4. \A v : Signed(v)' <=> Signed(v)
  BY <1>1, <1>3 DEF Signed
<1>5. /\ DOMAIN rows' = DOMAIN rows
      /\ \A v \in DOMAIN rows : rows'[v].verified = rows[v].verified
      /\ \A v \in DOMAIN rows :
           rows'[v].token = IF v = r.user THEN FreshToken ELSE rows[v].token
  BY DEF AddVerifedToken, StoreToken, TypeOK, Row
<1>6. Signed(r.user)
  BY DEF AddVerifedToken, LifeInv
<1>7. stage' = stage
  BY <1>4, <1>5, Stages, StagesNext
<1>8. /\ stage[r.user] # "none"
      /\ stage[r.user] = "gone" <=> r.user \notin DOMAIN rows
  BY <1>1, <1>6, Stages
<1>9. link' = IF stage[r.user] = "gone" THEN link
              ELSE [link EXCEPT ![r.user] = Len(issued')]
  BY <1>3, <1>5, <1>8 DEF link, FreshToken
<1>. QED BY <1>3, <1>7, <1>8, <1>9 DEF Lifecycle!NewLink

(* The UPDATE by token writes the row the request read, or none.           *)
LEMMA SpendFollows ==
  ASSUME TypeOK, LifeInv, LinksMatchAccounts, NEW w \in Workers, VerifedToken(w)
  PROVE  Lifecycle!Follow(req[w].user) \/ UNCHANGED <<stage, link, Len(issued)>>
<1>. DEFINE u == req[w].user
            t == req[w].token
<1>1. /\ u \in Users /\ t \in Tokens /\ t # NoToken /\ issued[t].user = u
      /\ issued' = issued /\ Tokens' = Tokens
  BY Carried DEF VerifedToken, LinksMatchAccounts, Tokens, NoToken
<1>2. \A v \in DOMAIN rows : rows[v].token = t => v = u
  BY <1>1 DEF LinksMatchAccounts
<1>3. DOMAIN rows' = DOMAIN rows
  BY DEF VerifedToken, SpendToken
<1>4. \A v \in DOMAIN rows : rows[v].token # t => rows'[v] = rows[v]
  BY DEF VerifedToken, SpendToken
<1>5. CASE u \in DOMAIN rows /\ rows[u].token = t
  <2>1. rows'[u].verified = TRUE /\ rows'[u].token = NoToken
    BY <1>5 DEF VerifedToken, SpendToken, TypeOK, Row
  <2>2. \A v \in DOMAIN rows : v # u => rows'[v] = rows[v]
    BY <1>2, <1>4
  <2>3. \A v : Signed(v)' <=> Signed(v)
    BY <1>1 DEF Signed
  <2>4. stage' = [stage EXCEPT ![u] = "active"] /\ stage[u] \in {"pending", "active"}
    BY <1>1, <1>3, <1>5, <2>1, <2>2, <2>3, Stages, StagesNext
  <2>5. link' = [link EXCEPT ![u] = 0] /\ link[u] # 0
    BY <1>1, <1>3, <1>5, <2>1, <2>2 DEF link, NoToken
  <2>. QED BY <1>1, <2>4, <2>5 DEF Lifecycle!Follow
<1>6. CASE ~(u \in DOMAIN rows /\ rows[u].token = t)
  BY <1>1, <1>2, <1>3, <1>4, <1>6, NoStep
<1>. QED BY <1>5, <1>6

LEMMA DeleteCloses ==
  ASSUME TypeOK, LifeInv, NEW w \in Workers, DeleteUser(w)
  PROVE  Lifecycle!Close(req[w].user) \/ UNCHANGED <<stage, link, Len(issued)>>
<1>. DEFINE u == req[w].user
<1>1. u \in Users /\ issued' = issued
  BY Carried DEF DeleteUser
<1>2. /\ DOMAIN rows' = DOMAIN rows \ {u}
      /\ \A v \in DOMAIN rows' : rows'[v] = rows[v]
  BY DEF DeleteUser, DeleteRows
<1>3. \A v : Signed(v)' <=> Signed(v)
  BY <1>1 DEF Signed, Tokens
<1>4. CASE u \in DOMAIN rows
  <2>. HIDE DEF u
  <2>1. Signed(u)
    BY <1>4, Stages
  <2>2. stage[u] \in {"pending", "active"}
    BY <1>1, <1>4, Stages
  <2>3. stage' = [stage EXCEPT ![u] = "gone"]
    BY <1>1, <1>2, <1>3, <1>4, <2>1, Stages, StagesNext
  <2>4. link' = [link EXCEPT ![u] = 0]
    BY <1>1, <1>2 DEF link, NoToken
  <2>. QED BY <1>1, <2>2, <2>3, <2>4 DEF Lifecycle!Close, u
<1>5. CASE u \notin DOMAIN rows
  BY <1>1, <1>2, <1>5, NoStep
<1>. QED BY <1>4, <1>5

LEMMA CleanupPurges ==
  ASSUME TypeOK, LifeInv, Cleanup
  PROVE  \E S \in SUBSET Users : Lifecycle!Purge(S)
<1>. DEFINE S == {u \in DOMAIN rows : DeadRegistration(u)}
<1>1. /\ DOMAIN rows' = DOMAIN rows \ S /\ issued' = issued
      /\ \A v \in DOMAIN rows' : rows'[v] = rows[v]
  BY DEF Cleanup, DeleteRows
<1>2. \A v : Signed(v)' <=> Signed(v)
  BY <1>1 DEF Signed, Tokens
<1>3. S \subseteq Users /\ S \subseteq DOMAIN rows /\ \A u \in S : ~rows[u].verified
  BY DEF TypeOK, DeadRegistration
<1>. HIDE DEF S
<1>4. /\ \A u \in S : stage[u] = "pending"
      /\ stage' = [u \in Users |-> IF u \in S THEN "gone" ELSE stage[u]]
  BY <1>1, <1>2, <1>3, Stages, StagesNext
<1>5. link' = [u \in Users |-> IF u \in S THEN 0 ELSE link[u]]
  BY <1>1, <1>3 DEF link, NoToken
<1>. QED BY <1>1, <1>3, <1>4, <1>5 DEF Lifecycle!Purge

LEMMA StepOfLife ==
  TypeOK /\ LifeInv /\ LinksMatchAccounts /\ [Next]_vars
    => [Lifecycle!Next]_(Lifecycle!lifeVars)
<1>. SUFFICES ASSUME TypeOK, LifeInv, LinksMatchAccounts, [Next]_vars
              PROVE  Lifecycle!Next \/ UNCHANGED <<stage, link, Len(issued)>>
  BY DEF Lifecycle!lifeVars
<1>1. CASE UNCHANGED <<rows, issued>>
  BY <1>1, NoStep
<1>2. ASSUME NEW w \in Workers, NEW u \in Users, NEW e \in Emails, NEW n \in Names,
             NEW p \in Passwords, Register(w, u, e, n, p)
      PROVE  Lifecycle!Next
  BY <1>2, RegisterSignsUp DEF Lifecycle!Next
<1>3. ASSUME NEW w \in Workers, AddVerifedToken(w) PROVE Lifecycle!Next
  BY <1>3, StoreIsNewLink, Carried DEF Lifecycle!Next, AddVerifedToken
<1>4. ASSUME NEW w \in Workers, VerifedToken(w)
      PROVE  Lifecycle!Next \/ UNCHANGED <<stage, link, Len(issued)>>
  BY <1>4, SpendFollows, Carried DEF Lifecycle!Next, VerifedToken
<1>5. ASSUME NEW w \in Workers, DeleteUser(w)
      PROVE  Lifecycle!Next \/ UNCHANGED <<stage, link, Len(issued)>>
  BY <1>5, DeleteCloses, Carried DEF Lifecycle!Next, DeleteUser
<1>6. CASE Cleanup
  BY <1>6, CleanupPurges DEF Lifecycle!Next
<1>7. ASSUME NEW w \in Workers,
             \/ \E u \in Users, n \in Names : UpdateName(w, u, n)
             \/ SwapEmail(w) \/ SetUserPassword(w)
      PROVE  UNCHANGED <<stage, link, Len(issued)>>
  <2>1. /\ issued' = issued /\ DOMAIN rows' = DOMAIN rows
        /\ \A u \in DOMAIN rows :
             rows'[u].verified = rows[u].verified /\ rows'[u].token = rows[u].token
    BY <1>7 DEF UpdateName, SetName, SwapEmail, SetEmail, SetUserPassword, SetPassword,
                TypeOK, Row
  <2>. QED BY <2>1, NoStep
<1>. QED BY <1>1, <1>2, <1>3, <1>4, <1>5, <1>6, <1>7, Writers

(* Whatever requests are interleaved, aborted or late, an account is       *)
(* pending, active and gone in this order, has at most one live link, and  *)
(* a link works once: no state of the handlers is outside its life.        *)
THEOREM AlwaysImplementsLifecycle == Spec => ImplementsLifecycle
<1>1. Init => Lifecycle!Init
  <2>. SUFFICES ASSUME Init PROVE Lifecycle!Init
    OBVIOUS
  <2>1. DOMAIN rows = {} /\ Len(issued) = 0
    BY DEF Init
  <2>2. Tokens = {}
    BY <2>1 DEF Tokens
  <2>3. stage = [u \in Users |-> "none"]
    BY <2>1, <2>2 DEF stage
  <2>4. link = [u \in Users |-> 0]
    BY <2>1 DEF link, NoToken
  <2>. QED BY <2>1, <2>3, <2>4 DEF Lifecycle!Init
<1>2. Spec => []LifeInv
  BY LifeInvInit, LifeInvNext, TypeCorrect, PTL DEF Spec
<1>. QED BY <1>1, <1>2, StepOfLife, TypeCorrect, LinksAlwaysMatchAccounts, PTL
     DEF Spec, ImplementsLifecycle, Lifecycle!Spec

=============================================================================
