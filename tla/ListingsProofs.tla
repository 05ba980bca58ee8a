---------------------------- MODULE ListingsProofs ----------------------------
(***************************************************************************)
(* Theorems about Listings, for every set of users, every limit and every  *)
(* number of rows, pages and matches.                                      *)
(***************************************************************************)
EXTENDS Listings, FiniteSetTheorems, TLAPS

(* Sets of ids are finite.                                                 *)
LEMMA SetOfIds ==
  ASSUME NEW S, S \subseteq Ids
  PROVE  IsFiniteSet(S) /\ Cardinality(S) \in 0 .. MaxRows
<1>1. IsFiniteSet(Ids) /\ Cardinality(Ids) = MaxRows
  BY FS_Interval, ListingsAssumption DEF Ids
<1>2. IsFiniteSet(S) /\ Cardinality(S) <= Cardinality(Ids)
  BY <1>1, FS_Subset
<1>. QED BY <1>1, <1>2, FS_CardinalityType

LEMMA Fewer ==
  ASSUME NEW S, NEW T, S \subseteq T, T \subseteq Ids
  PROVE  Cardinality(S) <= Cardinality(T) /\ (Cardinality(S) = Cardinality(T) => S = T)
  BY FS_Subset, SetOfIds

LEMMA FewerWithout ==
  ASSUME NEW S, NEW T, S \subseteq T, T \subseteq Ids, NEW x \in T, x \notin S
  PROVE  Cardinality(S) < Cardinality(T)
<1>1. Cardinality(S) \in Int /\ Cardinality(T) \in Int
  BY SetOfIds
<1>. QED BY <1>1, Fewer

LEMMA FoundRows ==
  ASSUME NEW p
  PROVE  Found \subseteq DOMAIN rows /\ Candidates(p) \subseteq Found
  BY DEF Found, Candidates, Matches, Listed

-----------------------------------------------------------------------------
(* Arithmetic of pages.                                                    *)

LEMMA Product ==
  ASSUME NEW p \in Int, NEW q \in Int, NEW k \in Nat
  PROVE  p * k \in Int /\ (p - 1) * k + k = p * k /\ (p <= q => p * k <= q * k)
  OBVIOUS

LEMMA Quotient ==
  ASSUME NEW a \in Nat, NEW k \in Nat \ {0}
  PROVE  a \div k \in Nat /\ (a \div k) * k <= a /\ a < (a \div k) * k + k
  OBVIOUS

(* A number of rows lies beyond page p exactly if p is not the last page.  *)
LEMMA LastPage ==
  ASSUME NEW n \in Nat, NEW p \in Int, ask.limit \in Nat \ {0}
  PROVE  /\ p < TotalPages(n) => p * ask.limit < n
         /\ ~(p < TotalPages(n)) => n <= p * ask.limit
<1>. DEFINE k == ask.limit
            q == (n + k - 1) \div k
<1>1. n + k - 1 \in Nat /\ k \in Nat \ {0}
  OBVIOUS
<1>2. q \in Nat /\ q * k <= n + k - 1 /\ n + k - 1 < q * k + k
  BY <1>1, Quotient
<1>3. TotalPages(n) = q
  BY DEF TotalPages
<1>. HIDE DEF k, q
<1>4. ASSUME p < q PROVE p * k < n
  <2>1. (p + 1) * k <= q * k /\ (p + 1) * k = p * k + k /\ p * k \in Int
    BY <1>1, <1>2, <1>4, Product
  <2>2. q * k \in Int
    BY <1>1, <1>2, Product
  <2>. QED BY <2>1, <2>2, <1>1, <1>2
<1>5. ASSUME ~(p < q) PROVE n <= p * k
  <2>1. q * k <= p * k /\ p * k \in Int /\ q * k \in Int
    BY <1>1, <1>2, <1>5, Product
  <2>. QED BY <2>1, <1>1, <1>2
<1>. QED BY <1>3, <1>4, <1>5 DEF k

LEMMA ExactOffset ==
  ASSUME NEW p, (p - 1) * ask.limit \in 0 .. MaxInt
  PROVE  Offset(p) = (p - 1) * ask.limit
<1>. DEFINE n == (p - 1) * ask.limit
<1>1. MaxInt \in Nat /\ n \in Nat /\ n < 2 * (MaxInt + 1)
  BY ListingsAssumption
<1>2. n % (2 * (MaxInt + 1)) = n
  <2>. HIDE DEF n
  <2>. QED BY <1>1
<1>3. n \in -(MaxInt + 1) .. MaxInt
  BY <1>1
<1>. QED BY <1>2, <1>3 DEF Offset, Wrap

-----------------------------------------------------------------------------
(* Type correctness.                                                       *)

LEMMA TypeInit == Init => TypeOK
<1>. SUFFICES ASSUME Init PROVE TypeOK
  OBVIOUS
<1>1. ask \in Ask /\ (list # "search" => ask.limit >= 1 /\ ask.first >= 1)
  BY DEF Init, Valid
<1>2. PICK o \in [1 .. Stock -> Owners] :
        rows = [x \in 1 .. Stock |-> [owner |-> o[x], created |-> x, updated |-> x]]
  BY DEF Init
<1>3. DOMAIN rows \subseteq 1 .. serial /\ rows \in [DOMAIN rows -> Row]
  BY <1>2, ListingsAssumption DEF Init, Row
<1>4. read \in Read
  BY <1>1, ListingsAssumption DEF Init, Read, Ask
<1>5. name \in [Owners -> Names] /\ \A q, p \in Owners : name[q] = name[p] => q = p
  BY DEF Init
<1>. QED BY <1>1, <1>3, <1>4, <1>5, ListingsAssumption DEF Init, TypeOK

LEMMA Fields ==
  ASSUME TypeOK
  PROVE  /\ ask.limit \in Int /\ ask.first \in Int /\ ask.asc \in BOOLEAN
         /\ MaxRows + ask.limit <= MaxInt
         /\ read.pc \in {"page", "count", "answered", "notfound"}
         /\ read.page \in Int /\ read.shown \subseteq Ids /\ read.total \in Nat
         /\ DOMAIN rows \subseteq Ids /\ Found \subseteq Ids
         /\ serial \in Nat /\ now \in Nat /\ MaxRows \in Nat /\ MaxInt \in Nat
<1>1. DOMAIN rows \subseteq Ids
  BY ListingsAssumption DEF TypeOK, Ids
<1>. QED BY <1>1, FoundRows, ListingsAssumption DEF TypeOK, Ask, Read

LEMMA RowFields ==
  ASSUME TypeOK, NEW x \in DOMAIN rows
  PROVE  /\ rows[x] \in Row /\ rows[x].owner \in Owners
         /\ rows[x].created \in Nat
         /\ rows[x] = [owner |-> rows[x].owner, created |-> rows[x].created,
                       updated |-> rows[x].updated]
<1>1. rows[x] \in Row
  BY DEF TypeOK
<1>. QED BY <1>1 DEF Row

(* What shows on a page is in the list.                                    *)
LEMMA PageOfList ==
  ASSUME TypeOK, GetPage
  PROVE  /\ read'.shown \subseteq Found
         /\ read'.page = read.page /\ read'.total = read.total
         /\ read'.pc \in {"count", "notfound"}
<1>. DEFINE p == read.page
<1>1. PICK A \in FirstRows(Offset(p), p), B \in FirstRows(Offset(p) + ask.limit, p) :
        read' = [read EXCEPT !.shown = B \ A,
          !.pc = IF list = "posts" /\ B \subseteq A THEN "notfound" ELSE "count"]
  BY DEF GetPage
<1>2. B \subseteq Candidates(p)
  BY DEF FirstRows
<1>. QED BY <1>1, <1>2, FoundRows DEF TypeOK, Read

(* What the steps of the client leave alone, and those of the writers.     *)
LEMMA ClientKeeps == Client => UNCHANGED <<list, ask, tableVars>>
  BY DEF Client, GetPage, GetCount, Fail, TurnPage

LEMMA WritersKeep == Writers => UNCHANGED <<list, ask, read, seen, twice, old>>
  BY DEF Writers, BeginInsert, CommitInsert, Update, Delete, Remove, Rename, Drop, historyVars

LEMMA TypeRemove ==
  ASSUME TypeOK, NEW S, Remove(S), UNCHANGED <<writing, serial>>
  PROVE  /\ DOMAIN rows' = DOMAIN rows \ S
         /\ DOMAIN rows' \subseteq 1 .. serial /\ rows' \in [DOMAIN rows' -> Row]
         /\ \A w \in writing : w.id \in 1 .. serial \ DOMAIN rows'
         /\ spoiled' \subseteq Disturbances
         /\ \A x \in DOMAIN rows' : rows'[x] = rows[x]
  BY DEF TypeOK, Disturbances, Remove, Spoil, When

LEMMA TypeClient == TypeOK /\ Client => TypeOK'
<1>. SUFFICES ASSUME TypeOK, Client PROVE TypeOK'
  OBVIOUS
<1>. USE ClientKeeps, Fields
<1>. SUFFICES /\ read' \in Read /\ seen' \subseteq Ids /\ twice' \subseteq Ids
              /\ old' \subseteq Ids /\ spoiled' \subseteq Disturbances
  BY DEF TypeOK, tableVars
<1>1. CASE GetPage
  <2>1. read' \in Read
    BY <1>1, PageOfList DEF GetPage, Read, TypeOK
  <2>2. old' \subseteq Ids /\ spoiled' \subseteq Disturbances
    BY <1>1 DEF GetPage, TypeOK, Disturbances
  <2>. QED BY <1>1, <2>1, <2>2 DEF GetPage, TypeOK
<1>2. CASE GetCount
  <2>1. Cardinality(Found) \in Nat
    BY SetOfIds
  <2>. QED BY <1>2, <2>1 DEF GetCount, TypeOK, Read
<1>3. CASE Fail
  <2>1. read' \in Read
    BY <1>3 DEF Fail, TypeOK, Read
  <2>. QED BY <1>3, <2>1 DEF Fail, TypeOK, historyVars
<1>4. CASE TurnPage
  <2>1. read' = [read EXCEPT !.pc = "page", !.page = read.page + 1, !.shown = {}]
    BY <1>4 DEF TurnPage
  <2>2. read.page + 1 \in Int /\ read \in Read
    BY DEF TypeOK
  <2>3. read' \in Read
    BY <2>1, <2>2 DEF Read
  <2>. QED BY <1>4, <2>3 DEF TurnPage, TypeOK, historyVars
<1>. QED BY <1>1, <1>2, <1>3, <1>4 DEF Client

LEMMA TypeWriters == TypeOK /\ Writers => TypeOK'
<1>. SUFFICES ASSUME TypeOK, Writers PROVE TypeOK'
  OBVIOUS
<1>. USE WritersKeep, Fields
<1>1. ASSUME NEW o \in Owners, BeginInsert(o) PROVE TypeOK'
  <2>. DEFINE new == [id |-> serial + 1, owner |-> o, created |-> now']
  <2>1. serial' \in 0 .. MaxRows /\ now' \in 0 .. serial' /\ serial' = serial + 1
    BY <1>1 DEF BeginInsert, TypeOK
  <2>2. new \in Insertion
    BY <2>1 DEF Insertion, Ids
  <2>3. writing' = writing \cup {new}
    BY <1>1 DEF BeginInsert
  <2>4. \A w \in writing : w.id \in 1 .. serial
    BY DEF TypeOK
  <2>5. DOMAIN rows \subseteq 1 .. serial' /\ serial + 1 \notin DOMAIN rows
    BY <2>1 DEF TypeOK
  <2>. HIDE DEF new
  <2>6. new.id = serial + 1
    BY DEF new
  <2>7. \A w \in writing' : w.id \in 1 .. serial' \ DOMAIN rows
    BY <2>1, <2>3, <2>4, <2>5, <2>6 DEF TypeOK
  <2>8. \A v, w \in writing' : v.id = w.id => v = w
    BY <2>3, <2>4, <2>6 DEF TypeOK
  <2>. QED BY <1>1, <2>1, <2>2, <2>3, <2>5, <2>7, <2>8 DEF BeginInsert, TypeOK, historyVars
<1>2. ASSUME NEW w \in writing, CommitInsert(w) PROVE TypeOK'
  <2>1. w.id \in 1 .. serial /\ w.owner \in Owners /\ w.created \in 0 .. MaxRows
    BY DEF TypeOK, Insertion
  <2>2. DOMAIN rows' = DOMAIN rows \cup {w.id}
    BY <1>2 DEF CommitInsert
  <2>3. rows' \in [DOMAIN rows' -> Row]
    BY <1>2, <2>1 DEF CommitInsert, TypeOK, Row
  <2>4. \A v \in writing' : v.id \in 1 .. serial \ DOMAIN rows'
    BY <1>2, <2>2 DEF CommitInsert, TypeOK
  <2>5. spoiled' \subseteq Disturbances
    BY <1>2 DEF CommitInsert, TypeOK, Disturbances, Spoil, When
  <2>. QED BY <1>2, <2>1, <2>2, <2>3, <2>4, <2>5 DEF CommitInsert, TypeOK
<1>3. ASSUME NEW u \in Owners, NEW x \in DOMAIN rows, Update(u, x) PROVE TypeOK'
  <2>1. DOMAIN rows' = DOMAIN rows
    BY <1>3 DEF Update
  <2>2. rows' \in [DOMAIN rows -> Row]
    BY <1>3, RowFields DEF Update, TypeOK, Row
  <2>. QED BY <1>3, <2>1, <2>2 DEF Update, TypeOK, historyVars
<1>4. ASSUME NEW u \in Owners, NEW x \in DOMAIN rows, Delete(u, x) PROVE TypeOK'
  BY <1>4, TypeRemove DEF Delete, TypeOK
<1>5. ASSUME NEW h \in Owners \cup {Post}, Drop(h) PROVE TypeOK'
  BY <1>5, TypeRemove DEF Drop, TypeOK
<1>6. ASSUME NEW o \in Owners, NEW n \in Names, Rename(o, n) PROVE TypeOK'
  <2>1. name' \in [Owners -> Names] /\ \A p \in Owners : p # o => name'[p] = name[p]
    BY <1>6 DEF Rename, TypeOK
  <2>2. name'[o] = n /\ \A p \in Owners \cap there : name[p] # n
    BY <1>6 DEF Rename, TypeOK
  <2>3. \A p, q \in Owners \cap there : name'[p] = name'[q] => p = q
    BY <2>1, <2>2 DEF TypeOK
  <2>4. spoiled' \subseteq Disturbances
    BY <1>6 DEF Rename, TypeOK, Disturbances, Spoil, When
  <2>. QED BY <1>6, <2>1, <2>3, <2>4 DEF Rename, TypeOK
<1>. QED BY <1>1, <1>2, <1>3, <1>4, <1>5, <1>6 DEF Writers

LEMMA TypeNext == TypeOK /\ [Next]_vars => TypeOK'
<1>1. TypeOK /\ UNCHANGED vars => TypeOK'
  BY DEF TypeOK, vars, tableVars, historyVars
<1>. QED BY <1>1, TypeClient, TypeWriters DEF Next

(* Rows, requests and INSERTs under way stay in their sets.                *)
THEOREM TypeCorrect == Spec => []TypeOK
  BY TypeInit, TypeNext, PTL DEF Spec

-----------------------------------------------------------------------------
(* References.                                                             *)

(* A row refers to what was there when it became visible, and what goes    *)
(* takes its rows along.                                                   *)
LEMMA HomeNext == TypeOK /\ RowsHaveHome /\ [Next]_vars => RowsHaveHome'
<1>. SUFFICES ASSUME TypeOK, RowsHaveHome, [Next]_vars PROVE RowsHaveHome'
  OBVIOUS
<1>1. \A o : list' = list => Refs(o)' = Refs(o)
  BY DEF Refs
<1>2. CASE UNCHANGED <<list, rows, there>>
  BY <1>1, <1>2 DEF RowsHaveHome
<1>3. ASSUME NEW w \in writing, CommitInsert(w) PROVE RowsHaveHome'
  BY <1>1, <1>3 DEF CommitInsert, HasHome, RowsHaveHome
<1>4. ASSUME NEW u \in Owners, NEW x \in DOMAIN rows, Update(u, x) PROVE RowsHaveHome'
  <2>1. /\ DOMAIN rows' = DOMAIN rows
        /\ \A y \in DOMAIN rows : rows'[y].owner = rows[y].owner
    BY <1>4, RowFields DEF Update
  <2>. QED BY <1>1, <1>4, <2>1 DEF Update, RowsHaveHome
<1>5. ASSUME NEW u \in Owners, NEW x \in DOMAIN rows, Delete(u, x) PROVE RowsHaveHome'
  <2>1. DOMAIN rows' \subseteq DOMAIN rows /\ \A y \in DOMAIN rows' : rows'[y] = rows[y]
    BY <1>5, TypeRemove DEF Delete
  <2>. QED BY <1>1, <1>5, <2>1 DEF Delete, RowsHaveHome
<1>6. ASSUME NEW h \in Owners \cup {Post}, Drop(h) PROVE RowsHaveHome'
  <2>1. /\ DOMAIN rows' = DOMAIN rows \ {x \in DOMAIN rows : h \in Refs(rows[x].owner)}
        /\ \A x \in DOMAIN rows' : rows'[x] = rows[x]
    BY <1>6, TypeRemove DEF Drop
  <2>. QED BY <1>1, <1>6, <2>1 DEF Drop, RowsHaveHome
<1>7. CASE Client
  BY <1>2, <1>7, ClientKeeps DEF tableVars
<1>8. ASSUME NEW o \in Owners, BeginInsert(o) PROVE RowsHaveHome'
  BY <1>2, <1>8 DEF BeginInsert
<1>9. CASE UNCHANGED vars
  BY <1>2, <1>9 DEF vars, tableVars
<1>10. ASSUME NEW o \in Owners, NEW n \in Names, Rename(o, n) PROVE RowsHaveHome'
  BY <1>2, <1>10 DEF Rename
<1>. QED BY <1>3, <1>4, <1>5, <1>6, <1>7, <1>8, <1>9, <1>10 DEF Next, Writers

(* Nothing refers to a user or a post that is gone, for any number of      *)
(* writers and deletions in any order.                                     *)
THEOREM RowsAlwaysHaveHome == Spec => []RowsHaveHome
<1>1. Init => RowsHaveHome
  <2>. SUFFICES ASSUME Init PROVE RowsHaveHome
    OBVIOUS
  <2>1. PICK o \in [1 .. Stock -> Owners] :
          rows = [x \in 1 .. Stock |-> [owner |-> o[x], created |-> x, updated |-> x]]
    BY DEF Init
  <2>. QED BY <2>1 DEF Init, RowsHaveHome, Refs
<1>. QED BY <1>1, TypeCorrect, HomeNext, PTL DEF Spec

-----------------------------------------------------------------------------
(* The order of a list.                                                    *)

(* Scores and order of a search none of whose sources is cut.              *)
FullPoints(s, x) == IF x \in Matches(s) THEN Scale \div (RrfK + Rank(s, x)) ELSE 0
FullScore(x) ==
  FullPoints("en", x) + FullPoints("ko", x) + FullPoints("semantic", x)
Before(x, y) ==
  IF list = "search"
  THEN FullScore(x) > FullScore(y) \/ (FullScore(x) = FullScore(y) /\ x < y)
  ELSE Earlier(rows[x].created, rows[y].created)
Ahead(x) == {y \in Found : Before(y, x)}

(* The first page holds all the candidates it needs; no stamp occurs twice.*)
Ordered ==
  IF list = "search"
  THEN \A s \in Sources : \A x \in Matches(s) : Rank(s, x) <= 2 * ask.limit
  ELSE ~Ties

LEMMA OrderOfPage ==
  ASSUME TypeOK, Turns, Ordered, NEW p, Offset(p) \in Nat
  PROVE  /\ Candidates(p) = Found
         /\ \A x, y \in Found : Precedes(x, y, p) <=> Before(x, y)
<1>1. CASE list # "search"
  BY <1>1 DEF Candidates, Precedes, Before
<1>2. CASE list = "search"
  <2>1. 2 * ask.limit <= Cut(p)
    BY Fields DEF Cut
  <2>2. Cut(p) \in Int /\ 2 * ask.limit \in Int
    BY Fields DEF Cut
  <2>3. \A s \in Sources : \A x \in Matches(s) : Rank(s, x) \in Int
    <3>. TAKE s \in Sources
    <3>. TAKE x \in Matches(s)
    <3>1. {y \in Matches(s) : ask.query[s][y] <= ask.query[s][x]} \subseteq Ids
      BY Fields DEF Matches
    <3>. QED BY <3>1, SetOfIds DEF Rank
  <2>4. \A s \in Sources : Listed(s, p) = Matches(s)
    BY <1>2, <2>1, <2>2, <2>3 DEF Ordered, Listed
  <2>5. \A x \in Found : Score(x, p) = FullScore(x)
    BY <2>4 DEF Score, FullScore, Points, FullPoints, Sources
  <2>. QED BY <1>2, <2>4, <2>5 DEF Candidates, Found, Precedes, Before
<1>. QED BY <1>1, <1>2

LEMMA Scores ==
  ASSUME TypeOK, NEW x
  PROVE  FullScore(x) \in Int
<1>1. ASSUME NEW s \in Sources PROVE FullPoints(s, x) \in Int
  <2>1. {y \in Matches(s) : ask.query[s][y] <= ask.query[s][x]} \subseteq Ids
    BY Fields DEF Matches
  <2>2. Rank(s, x) \in Nat
    BY <2>1, SetOfIds DEF Rank
  <2>3. Scale \in Nat /\ RrfK + Rank(s, x) \in Nat \ {0}
    BY <2>2, ListingsAssumption DEF RrfK
  <2>4. Scale \div (RrfK + Rank(s, x)) \in Nat
    BY <2>3, Quotient
  <2>. QED BY <2>4 DEF FullPoints
<1>. QED BY <1>1 DEF FullScore, Sources

LEMMA StrictOrder ==
  ASSUME TypeOK, Ordered, NEW x \in Found, NEW y \in Found
  PROVE  ~Before(x, x) /\ (x # y => Before(x, y) \/ Before(y, x))
<1>1. x \in Int /\ y \in Int /\ x \in DOMAIN rows /\ y \in DOMAIN rows
  BY Fields, FoundRows DEF Ids
<1>2. CASE list = "search"
  BY <1>1, <1>2, Scores DEF Before
<1>3. CASE list # "search"
  <2>1. rows[x].created \in Int /\ rows[y].created \in Int
    BY <1>1, RowFields
  <2>. QED BY <1>3, <2>1 DEF Before, Earlier, Ordered, Ties
<1>. QED BY <1>2, <1>3

(* A row is among the first n exactly if fewer than n are ahead of it.     *)
LEMMA AmongTheFirst ==
  ASSUME TypeOK, Turns, Ordered, NEW p, Offset(p) \in Nat,
         NEW n \in Nat, NEW A \in FirstRows(n, p), NEW x \in Found
  PROVE  x \in A <=> Cardinality(Ahead(x)) < n
<1>. USE Fields
<1>1. /\ A \subseteq Found /\ Cardinality(A) = Least(n, Found)
      /\ \A v \in A, y \in Found : Before(y, v) => y \in A
  BY OrderOfPage DEF FirstRows
<1>2. Ahead(x) \subseteq Found /\ x \notin Ahead(x)
  BY StrictOrder DEF Ahead
<1>3. /\ Cardinality(Ahead(x)) \in Int /\ Cardinality(A) \in Int
      /\ Cardinality(Found) \in Int
  BY <1>1, <1>2, SetOfIds
<1>4. ASSUME x \in A PROVE Cardinality(Ahead(x)) < n
  <2>1. Ahead(x) \subseteq A
    BY <1>1, <1>4 DEF Ahead
  <2>2. Cardinality(Ahead(x)) < Cardinality(A)
    BY <1>1, <1>2, <1>4, <2>1, FewerWithout
  <2>. QED BY <1>1, <1>3, <2>2 DEF Least
<1>5. ASSUME x \notin A PROVE n <= Cardinality(Ahead(x))
  <2>1. A \subseteq Ahead(x)
    BY <1>1, <1>5, StrictOrder DEF Ahead
  <2>2. Cardinality(A) < Cardinality(Found)
    BY <1>1, <1>5, FewerWithout
  <2>3. Cardinality(A) = n
    BY <1>1, <1>3, <2>2 DEF Least
  <2>. QED BY <1>2, <2>1, <2>3, Fewer
<1>. QED BY <1>3, <1>4, <1>5

(* What a page shows.                                                      *)
LEMMA PageWindow ==
  ASSUME TypeOK, Turns, Ordered, GetPage
  PROVE  /\ read'.shown \subseteq Found
         /\ \A x \in Found :
              x \in read'.shown <=>
                /\ Offset(read.page) <= Cardinality(Ahead(x))
                /\ Cardinality(Ahead(x)) < Offset(read.page) + ask.limit
<1>. DEFINE p == read.page
<1>1. PICK A \in FirstRows(Offset(p), p), B \in FirstRows(Offset(p) + ask.limit, p) :
        read' = [read EXCEPT !.shown = B \ A,
          !.pc = IF list = "posts" /\ B \subseteq A THEN "notfound" ELSE "count"]
  BY DEF GetPage
<1>2. read'.shown = B \ A
  BY <1>1 DEF TypeOK, Read
<1>3. p \in Int /\ ask.limit \in Nat \ {0} /\ MaxInt \in Nat
  BY Fields DEF Turns
<1>4. (p - 1) * ask.limit \in Int
  BY <1>3, Product
<1>5. Offset(p) \in Int
  BY <1>3, <1>4 DEF Offset, Wrap
<1>6. Offset(p) \in Nat /\ Offset(p) + ask.limit \in Nat
  BY <1>3, <1>5 DEF GetPage
<1>7. \A x \in Found : Cardinality(Ahead(x)) \in Int
  <2>1. \A x : Ahead(x) \subseteq Ids
    BY Fields DEF Ahead
  <2>. QED BY <2>1, SetOfIds
<1>8. ASSUME NEW x \in Found
      PROVE  x \in B \ A <=> /\ Offset(p) <= Cardinality(Ahead(x))
                            /\ Cardinality(Ahead(x)) < Offset(p) + ask.limit
  <2>1. /\ Cardinality(Ahead(x)) \in Int
        /\ x \in A <=> Cardinality(Ahead(x)) < Offset(p)
        /\ x \in B <=> Cardinality(Ahead(x)) < Offset(p) + ask.limit
    BY <1>6, <1>7, AmongTheFirst
  <2>. HIDE DEF p
  <2>. QED BY <1>3, <1>5, <2>1
<1>. QED BY <1>2, <1>8, PageOfList

-----------------------------------------------------------------------------
(* What writing does to a list.                                            *)

(* The ids that can be in a list by now: handed out and visible once.      *)
Known == {i \in 1 .. serial : \A w \in writing : w.id # i}

(* A list of stamped rows shrinks, a row comes in, or a user's rows do.    *)
Shrinks ==
  /\ Found' \subseteq Found
  /\ \A x \in Found' : rows'[x].created = rows[x].created
  /\ "left" \notin spoiled' => Found' = Found
Grows(i, t) ==
  /\ i \notin Found /\ i \notin Known
  /\ Found' = Found \cup {i}
  /\ rows'[i].created = t
  /\ \A x \in Found : rows'[x].created = rows[x].created
  /\ "before" \notin spoiled' => \A x \in Found : ~Earlier(t, rows[x].created)
  /\ "tied" \notin spoiled' => \A x \in Found : t # rows[x].created
Joins ==
  /\ Found \subseteq Found' /\ rows' = rows
  /\ "before" \in spoiled'
  /\ "tied" \notin spoiled' => ~Ties'

LEMMA ListRemove ==
  ASSUME TypeOK, list # "search", NEW S, Remove(S), UNCHANGED <<list, ask, name>>
  PROVE  Shrinks /\ spoiled \subseteq spoiled'
  BY DEF Remove, Spoil, When, Shrinks, Found, IsOf

(* A user gives up the name the list goes by, or takes it.                 *)
LEMMA ListRename ==
  ASSUME TypeOK, list # "search", NEW o \in Owners, NEW n \in Names, Rename(o, n)
  PROVE  (Shrinks \/ Joins) /\ spoiled \subseteq spoiled'
<1>1. /\ list = "posts" /\ name[o] # n /\ name'[o] = n
      /\ \A p \in Owners : p # o => name'[p] = name[p]
      /\ UNCHANGED <<list, ask, rows>>
  BY DEF Rename, TypeOK
<1>2. /\ Found' \ Found # {} => "before" \in spoiled'
      /\ Found \ Found' # {} => "left" \in spoiled'
      /\ Ties' => "tied" \in spoiled'
      /\ spoiled \subseteq spoiled'
  BY DEF Rename, Spoil, When
<1>3. \A x \in DOMAIN rows : rows[x].owner \in Owners
  BY RowFields
<1>4. /\ Found = {x \in DOMAIN rows : name[rows[x].owner] = ask.user}
      /\ Found' = {x \in DOMAIN rows : name'[rows[x].owner] = ask.user}
  BY <1>1 DEF Found, IsOf
<1>5. CASE n = ask.user
  <2>1. Found \subseteq Found'
    BY <1>1, <1>3, <1>4, <1>5
  <2>. QED BY <1>1, <1>2, <2>1 DEF Shrinks, Joins
<1>6. CASE n # ask.user
  <2>1. Found' \subseteq Found
    BY <1>1, <1>3, <1>4, <1>6
  <2>. QED BY <1>1, <1>2, <2>1 DEF Shrinks
<1>. QED BY <1>5, <1>6

LEMMA WriterList ==
  ASSUME TypeOK, list # "search", Writers
  PROVE  /\ spoiled \subseteq spoiled' /\ Known \subseteq Known'
         /\ Shrinks \/ Joins \/ \E i, t : Grows(i, t)
<1>. USE WritersKeep
<1>. DEFINE Goal == /\ spoiled \subseteq spoiled' /\ Known \subseteq Known'
                    /\ Shrinks \/ Joins \/ \E i, t : Grows(i, t)
<1>0. CASE UNCHANGED <<name, rows, spoiled>> /\ Known \subseteq Known'
  BY <1>0 DEF Shrinks, Found, IsOf
<1>1. ASSUME NEW o \in Owners, BeginInsert(o) PROVE Goal
  <2>1. Known \subseteq Known'
    BY <1>1 DEF BeginInsert, Known, TypeOK
  <2>. QED BY <1>0, <1>1, <2>1 DEF BeginInsert, historyVars
<1>2. ASSUME NEW w \in writing, CommitInsert(w) PROVE Goal
  <2>1. Known \subseteq Known' /\ spoiled \subseteq spoiled'
    BY <1>2 DEF CommitInsert, Known, Spoil
  <2>2. /\ w.id \notin DOMAIN rows /\ w.id \notin Known
        /\ DOMAIN rows' = DOMAIN rows \cup {w.id}
        /\ rows'[w.id].owner = w.owner /\ rows'[w.id].created = w.created
        /\ \A x \in DOMAIN rows : rows'[x] = rows[x]
    BY <1>2 DEF CommitInsert, Known, TypeOK
  <2>. name' = name
    BY <1>2 DEF CommitInsert
  <2>3. CASE ~IsOf(w.owner)
    <3>1. Found' = Found
      BY <2>2, <2>3 DEF Found, IsOf
    <3>. QED BY <2>1, <2>2, <3>1, FoundRows DEF Shrinks
  <2>4. CASE IsOf(w.owner)
    <3>1. Found' = Found \cup {w.id} /\ w.id \notin Found
      BY <2>2, <2>4 DEF Found, IsOf
    <3>2. /\ "before" \notin spoiled' => \A x \in Found : ~Earlier(w.created, rows[x].created)
          /\ "tied" \notin spoiled' => \A x \in Found : w.created # rows[x].created
      BY <1>2, <2>4 DEF CommitInsert, Spoil, When
    <3>3. Grows(w.id, w.created)
      BY <2>2, <3>1, <3>2, FoundRows DEF Grows
    <3>. QED BY <2>1, <3>3
  <2>. QED BY <2>3, <2>4
<1>3. ASSUME NEW u \in Owners, NEW x \in DOMAIN rows, Update(u, x) PROVE Goal
  <2>1. /\ DOMAIN rows' = DOMAIN rows
        /\ \A y \in DOMAIN rows : /\ rows'[y].owner = rows[y].owner
                                 /\ rows'[y].created = rows[y].created
    BY <1>3, RowFields DEF Update
  <2>2. Found' = Found
    BY <1>3, <2>1 DEF Found, IsOf, Update
  <2>. QED BY <1>3, <2>1, <2>2, FoundRows DEF Update, Shrinks, Known, historyVars
<1>4. ASSUME NEW u \in Owners, NEW x \in DOMAIN rows, Delete(u, x) PROVE Goal
  BY <1>4, ListRemove DEF Delete, Known
<1>5. ASSUME NEW h \in Owners \cup {Post}, Drop(h) PROVE Goal
  BY <1>5, ListRemove DEF Drop, Known
<1>6. ASSUME NEW o \in Owners, NEW n \in Names, Rename(o, n) PROVE Goal
  BY <1>6, ListRename DEF Rename, Known
<1>. QED BY <1>1, <1>2, <1>3, <1>4, <1>5, <1>6 DEF Writers

(* The place of a row moves up only if one left the list, down only if one *)
(* came in before it.                                                      *)
LEMMA WriterPlaces ==
  ASSUME TypeOK, TypeOK', list # "search", Writers
  PROVE  /\ "before" \notin spoiled' =>
              \A x \in Found' \cap Known :
                x \in Found /\ Cardinality(Ahead(x)') <= Cardinality(Ahead(x))
         /\ "left" \notin spoiled' =>
              \A x \in Found :
                x \in Found' /\ Cardinality(Ahead(x)) <= Cardinality(Ahead(x)')
         /\ Ordered /\ "tied" \notin spoiled' => Ordered'
<1>. USE WritersKeep
<1>1. \A x : Ahead(x) \subseteq Ids /\ Ahead(x)' \subseteq Ids
  <2>1. Found \subseteq Ids /\ Found' \subseteq DOMAIN rows'
    BY Fields DEF Found, Matches
  <2>2. DOMAIN rows' \subseteq Ids
    BY ListingsAssumption DEF TypeOK, Ids
  <2>. QED BY <2>1, <2>2 DEF Ahead
<1>2. \A s, t : Earlier(s, t)' = Earlier(s, t)
  BY DEF Earlier
<1>3. CASE Shrinks
  <2>1. \A x \in Found' : Ahead(x)' \subseteq Ahead(x)
    BY <1>3 DEF Shrinks, Ahead, Before, Earlier
  <2>2. "left" \notin spoiled' => \A x \in Found : Ahead(x)' = Ahead(x)
    BY <1>3 DEF Shrinks, Ahead, Before, Earlier
  <2>3. Ordered => Ordered'
    BY <1>3 DEF Shrinks, Ordered, Ties
  <2>4. \A x \in Found' : Cardinality(Ahead(x)') <= Cardinality(Ahead(x))
    BY <1>1, <2>1, Fewer
  <2>5. \A x : Cardinality(Ahead(x)) \in Int
    BY <1>1, SetOfIds
  <2>. QED BY <1>3, <2>2, <2>3, <2>4, <2>5 DEF Shrinks
<1>4. ASSUME NEW i, NEW t, Grows(i, t)
      PROVE  /\ "before" \notin spoiled' =>
                  \A x \in Found' \cap Known :
                    x \in Found /\ Cardinality(Ahead(x)') <= Cardinality(Ahead(x))
             /\ \A x \in Found :
                    x \in Found' /\ Cardinality(Ahead(x)) <= Cardinality(Ahead(x)')
             /\ Ordered /\ "tied" \notin spoiled' => Ordered'
  <2>1. \A x \in Found : Ahead(x) \subseteq Ahead(x)'
    BY <1>4 DEF Grows, Ahead, Before, Earlier
  <2>2. "before" \notin spoiled' => \A x \in Found : Ahead(x)' = Ahead(x)
    BY <1>4 DEF Grows, Ahead, Before, Earlier
  <2>3. Ordered /\ "tied" \notin spoiled' => Ordered'
    BY <1>4 DEF Grows, Ordered, Ties
  <2>4. \A x \in Found : Cardinality(Ahead(x)) <= Cardinality(Ahead(x)')
    BY <1>1, <2>1, Fewer
  <2>5. \A x : Cardinality(Ahead(x)) \in Int
    BY <1>1, SetOfIds
  <2>. QED BY <1>4, <2>2, <2>3, <2>4, <2>5 DEF Grows
<1>5. CASE Joins
  <2>1. \A x \in Found : Ahead(x) \subseteq Ahead(x)'
    BY <1>5 DEF Joins, Ahead, Before, Earlier
  <2>2. \A x \in Found : Cardinality(Ahead(x)) <= Cardinality(Ahead(x)')
    BY <1>1, <2>1, Fewer
  <2>. QED BY <1>5, <2>2 DEF Joins, Ordered
<1>. QED BY <1>3, <1>4, <1>5, WriterList

-----------------------------------------------------------------------------
(* Where the client is.                                                    *)

(* The rows before a page and those up to its end.                         *)
From == (read.page - 1) * ask.limit
To == read.page * ask.limit

Where ==
  /\ read.page = ask.first \/ Turns
  /\ Turns => read.page \in Nat \ {0} /\ From \in 0 .. MaxRows
  /\ read.total <= MaxRows
  /\ read.page = ask.first => twice = {} /\ (read.pc # "answered" => seen = {})
  /\ seen \cup read.shown \cup old \subseteq Known

LEMMA Window ==
  ASSUME TypeOK, Where, Turns
  PROVE  /\ ask.limit \in Nat \ {0}
         /\ From \in Nat /\ To \in Nat /\ To = From + ask.limit
         /\ Offset(read.page) = From
         /\ read.page = ask.first => From = 0
<1>1. ask.limit \in Nat \ {0} /\ read.page \in Int /\ From \in 0 .. MaxRows
  BY Fields DEF Turns, Where
<1>2. To \in Int /\ To = From + ask.limit
  BY <1>1, Product DEF From, To
<1>3. From \in 0 .. MaxInt
  BY <1>1, Fields
<1>4. Offset(read.page) = From
  BY <1>3, ExactOffset DEF From
<1>5. read.page = ask.first => From = 0
  BY <1>1 DEF From, Turns
<1>. QED BY <1>1, <1>2, <1>4, <1>5

LEMMA KnownRows ==
  ASSUME TypeOK
  PROVE  Found \subseteq Known
  BY FoundRows DEF Known, TypeOK

LEMMA WhereInit == Init => Where
<1>. SUFFICES ASSUME Init PROVE Where
  OBVIOUS
<1>1. ASSUME Turns PROVE From = 0 /\ read.page = 1
  <2>1. read.page = 1 /\ ask.limit \in Int
    BY <1>1, TypeInit, Fields DEF Init, Turns
  <2>. QED BY <2>1 DEF From
<1>. QED BY <1>1, ListingsAssumption DEF Init, Where

LEMMA WhereClient == TypeOK /\ TypeOK' /\ Where /\ Client => Where'
<1>. SUFFICES ASSUME TypeOK, TypeOK', Where, Client PROVE Where'
  OBVIOUS
<1>. USE ClientKeeps, Fields
<1>1. Known' = Known /\ (Turns' <=> Turns)
  BY DEF Known, Turns, tableVars
<1>2. read'.page = read.page => From' = From
  BY DEF From
<1>3. CASE GetPage
  <2>1. /\ read'.page = read.page /\ read'.total = read.total /\ read.pc = "page"
        /\ read'.shown \subseteq Known /\ old' \subseteq Known
    BY <1>3, PageOfList, KnownRows DEF GetPage, Where
  <2>. QED BY <1>1, <1>2, <1>3, <2>1 DEF Where, GetPage
<1>4. CASE GetCount
  <2>1. /\ read'.page = read.page /\ read'.shown = read.shown
        /\ read'.pc = "answered" /\ read'.total = Cardinality(Found)
    BY <1>4 DEF GetCount, TypeOK, Read
  <2>2. Cardinality(Found) <= MaxRows
    BY SetOfIds
  <2>. QED BY <1>1, <1>2, <1>4, <2>1, <2>2 DEF Where, GetCount
<1>5. CASE Fail
  <2>1. /\ read'.page = read.page /\ read'.shown = {} /\ read'.total = read.total
    BY <1>5 DEF Fail, TypeOK, Read
  <2>. QED BY <1>1, <1>2, <1>5, <2>1 DEF Where, Fail, historyVars
<1>6. CASE TurnPage
  <2>1. /\ read'.page = read.page + 1 /\ read'.shown = {} /\ read'.total = read.total
    BY <1>6 DEF TurnPage, TypeOK, Read
  <2>2. From' = To
    BY <2>1 DEF From, To
  <2>3. Turns /\ ask.limit \in Nat \ {0} /\ read.page \in Nat \ {0} /\ To \in Nat
    BY <1>6, Window DEF TurnPage, Where
  <2>4. To < read.total
    BY <1>6, <2>3, LastPage DEF TurnPage, HasNext, To
  <2>5. To \in 0 .. MaxRows /\ read'.page # ask.first
    BY <2>1, <2>3, <2>4 DEF Where, Turns
  <2>. QED BY <1>1, <1>6, <2>1, <2>2, <2>3, <2>5 DEF Where, TurnPage, historyVars
<1>. QED BY <1>3, <1>4, <1>5, <1>6 DEF Client

LEMMA WhereNext == TypeOK /\ TypeOK' /\ Where /\ [Next]_vars => Where'
<1>. SUFFICES ASSUME TypeOK, TypeOK', Where, [Next]_vars PROVE Where'
  OBVIOUS
<1>1. CASE UNCHANGED vars
  BY <1>1 DEF vars, tableVars, historyVars, Where, Turns, From, Known
<1>2. CASE list # "search" /\ Writers
  <2>1. Known \subseteq Known' /\ (Turns' <=> Turns) /\ From' = From
    BY <1>2, WriterList, WritersKeep DEF Turns, From
  <2>. QED BY <1>2, <2>1, WritersKeep DEF Where
<1>. QED BY <1>1, <1>2, WhereClient DEF Next

-----------------------------------------------------------------------------
(* Nothing past the end.                                                   *)

PastInv ==
  /\ read.pc \in {"count", "answered"} /\ "left" \notin spoiled
  /\ From \in (IF read.pc = "count" THEN Cardinality(Found) ELSE read.total) .. MaxInt
  => read.shown = {}

(* A page whose offset is beyond all rows is empty.                        *)
LEMMA PageBeyond ==
  ASSUME TypeOK, GetPage, From \in Cardinality(Found) .. MaxInt
  PROVE  read'.shown = {}
<1>. DEFINE p == read.page
<1>. USE Fields
<1>1. PICK A \in FirstRows(Offset(p), p), B \in FirstRows(Offset(p) + ask.limit, p) :
        read' = [read EXCEPT !.shown = B \ A,
          !.pc = IF list = "posts" /\ B \subseteq A THEN "notfound" ELSE "count"]
  BY DEF GetPage
<1>2. read'.shown = B \ A
  BY <1>1 DEF TypeOK, Read
<1>3. Cardinality(Found) \in Nat /\ Cardinality(Candidates(p)) \in Nat
      /\ Cardinality(Candidates(p)) <= Cardinality(Found) /\ Candidates(p) \subseteq Ids
  BY FoundRows, SetOfIds, Fewer
<1>4. Offset(p) = From /\ From \in Int
  BY <1>3, ExactOffset DEF From
<1>5. A \subseteq Candidates(p) /\ Cardinality(A) = Cardinality(Candidates(p))
  BY <1>3, <1>4 DEF FirstRows, Least
<1>6. A = Candidates(p)
  BY <1>3, <1>5, Fewer
<1>. QED BY <1>2, <1>6 DEF FirstRows

LEMMA PastNext == TypeOK /\ TypeOK' /\ PastInv /\ [Next]_vars => PastInv'
<1>. SUFFICES ASSUME TypeOK, TypeOK', PastInv, [Next]_vars PROVE PastInv'
  OBVIOUS
<1>. USE Fields
<1>1. UNCHANGED <<list, ask, name, rows>> => Found' = Found
  BY DEF Found, Matches, IsOf
<1>2. read'.page = read.page /\ ask' = ask => From' = From
  BY DEF From
<1>3. CASE GetPage
  <2>1. From' = From /\ Found' = Found /\ read'.pc \in {"count", "notfound"}
    BY <1>1, <1>2, <1>3, PageOfList DEF GetPage, tableVars
  <2>. QED BY <1>3, <2>1, PageBeyond DEF PastInv
<1>4. CASE GetCount
  <2>1. /\ read'.page = read.page /\ read'.shown = read.shown
        /\ read'.pc = "answered" /\ read'.total = Cardinality(Found) /\ read.pc = "count"
    BY <1>4 DEF GetCount, TypeOK, Read
  <2>. QED BY <1>2, <1>4, <2>1 DEF PastInv, GetCount
<1>5. CASE Fail \/ TurnPage
  <2>1. read'.pc = "page"
    BY <1>5 DEF Fail, TurnPage, TypeOK, Read
  <2>. QED BY <2>1 DEF PastInv
<1>6. CASE list # "search" /\ Writers
  <2>1. "left" \notin spoiled' => "left" \notin spoiled /\ Found \subseteq Found'
    BY <1>6, WriterList DEF Shrinks, Grows, Joins
  <2>2. Found \subseteq Ids /\ Found' \subseteq Ids
    <3>1. Found' \subseteq DOMAIN rows'
      BY DEF Found, Matches
    <3>. QED BY <3>1, ListingsAssumption DEF TypeOK, Ids
  <2>3. "left" \notin spoiled' => Cardinality(Found) <= Cardinality(Found')
    BY <2>1, <2>2, Fewer
  <2>4. Cardinality(Found) \in Int /\ Cardinality(Found') \in Int
    BY <2>2, SetOfIds
  <2>. QED BY <1>2, <1>6, <2>1, <2>3, <2>4, WritersKeep DEF PastInv
<1>7. CASE UNCHANGED vars
  BY <1>1, <1>2, <1>7 DEF vars, tableVars, historyVars, PastInv
<1>. QED BY <1>3, <1>4, <1>5, <1>6, <1>7 DEF Next, Client

(* A page that begins beyond the total answered with it is empty, while    *)
(* nothing is deleted and the author keeps the name: rows that come in     *)
(* between the two statements only raise the total.                        *)
THEOREM AlwaysNothingPastTheEnd == Spec => []NothingPastTheEnd
<1>1. Init => PastInv
  BY DEF Init, PastInv
<1>2. PastInv => NothingPastTheEnd
  BY DEF PastInv, NothingPastTheEnd, From
<1>. QED BY <1>1, <1>2, TypeCorrect, PastNext, PTL DEF Spec

-----------------------------------------------------------------------------
(* Nothing twice, and nothing skipped.                                     *)

(* A client that turns pages of a list whose order is strict.              *)
Calm == Begun /\ Turns /\ spoiled \cap {"tied", "cut"} = {}
OrderInv == Calm => Ordered

(* What it was shown lies before the page it reads, or up to its end;      *)
(* what it was not shown lies behind.                                      *)
TwiceInv ==
  Calm /\ "before" \notin spoiled =>
    /\ twice = {}
    /\ \A x \in seen \cap Found :
         Cardinality(Ahead(x)) < (IF read.pc = "answered" THEN To ELSE From)
    /\ read.pc = "count" =>
         /\ read.shown \cap seen = {}
         /\ \A x \in read.shown \cap Found : Cardinality(Ahead(x)) < To

SkipInv ==
  Calm /\ "left" \notin spoiled =>
    /\ old \subseteq Found
    /\ read.pc \in {"page", "count"} =>
         \A x \in old \ seen : From <= Cardinality(Ahead(x))
    /\ read.pc = "count" =>
         \A x \in old \ (seen \cup read.shown) : To <= Cardinality(Ahead(x))
    /\ read.pc = "answered" =>
         \A x \in old \ seen : To <= Cardinality(Ahead(x))
    /\ read.pc = "notfound" \/ (read.pc = "answered" /\ ~HasNext) => old \subseteq seen

Inv == Where /\ OrderInv /\ TwiceInv /\ SkipInv

LEMMA InvInit == Init => Inv
<1>1. Init => ~Begun
  BY TypeInit DEF Init, Begun, TypeOK
<1>. QED BY <1>1, WhereInit DEF Inv, OrderInv, TwiceInv, SkipInv, Calm

LEMMA Places ==
  ASSUME TypeOK
  PROVE  /\ \A x : Cardinality(Ahead(x)) \in Nat
         /\ Cardinality(Found) \in Nat
<1>1. \A x : Ahead(x) \subseteq Ids
  BY Fields DEF Ahead
<1>. QED BY <1>1, Fields, SetOfIds

LEMMA BehindFew ==
  ASSUME TypeOK, Ordered, NEW x \in Found
  PROVE  Cardinality(Ahead(x)) < Cardinality(Found)
<1>1. Ahead(x) \subseteq Found /\ x \notin Ahead(x)
  BY StrictOrder DEF Ahead
<1>. QED BY <1>1, Fields, FewerWithout

(* Reading, of one state of the table.                                     *)
LEMMA SameTable ==
  ASSUME UNCHANGED <<list, ask, name, rows>>
  PROVE  /\ Found' = Found /\ (Ordered' <=> Ordered) /\ (Turns' <=> Turns)
         /\ \A x : Ahead(x)' = Ahead(x)
         /\ read'.page = read.page => From' = From /\ To' = To
<1>1. \A s : Matches(s)' = Matches(s)
  BY DEF Matches
<1>2. Found' = Found /\ \A s, x : Rank(s, x)' = Rank(s, x)
  BY <1>1 DEF Found, IsOf, Rank
<1>3. \A x : FullScore(x)' = FullScore(x)
  BY <1>1, <1>2 DEF FullScore, FullPoints, RrfK
<1>4. \A x, y : Before(x, y)' <=> Before(x, y)
  BY <1>3 DEF Before, Earlier
<1>5. Ordered' <=> Ordered
  BY <1>1, <1>2 DEF Ordered, Ties
<1>. QED BY <1>2, <1>4, <1>5 DEF Ahead, Turns, From, To

LEMMA FirstOrdered ==
  ASSUME TypeOK, Where, Turns, GetPage, read.page = ask.first,
         spoiled' \cap {"tied", "cut"} = {}
  PROVE  Ordered
<1>1. CASE list = "search"
  <2>1. \A s \in Sources : Matches(s) = Listed(s, read.page)
    BY <1>1 DEF GetPage
  <2>2. Offset(read.page) = 0 /\ ask.limit \in Int
    BY Window
  <2>3. Cut(read.page) = 2 * ask.limit
    BY <2>2 DEF Cut
  <2>. QED BY <1>1, <2>1, <2>3 DEF Ordered, Listed
<1>2. CASE list # "search"
  BY <1>2 DEF GetPage, Ordered
<1>. QED BY <1>1, <1>2

(* RowNotFound is answered only beyond the last row.                       *)
LEMMA NotFoundBeyond ==
  ASSUME TypeOK, Where, Turns, Ordered, GetPage, read'.pc = "notfound"
  PROVE  Cardinality(Found) <= From
<1>. DEFINE p == read.page
<1>. USE Fields
<1>1. PICK A \in FirstRows(Offset(p), p), B \in FirstRows(Offset(p) + ask.limit, p) :
        /\ A \subseteq B
        /\ read' = [read EXCEPT !.shown = B \ A,
             !.pc = IF list = "posts" /\ B \subseteq A THEN "notfound" ELSE "count"]
  BY DEF GetPage
<1>2. A = B
  BY <1>1 DEF TypeOK, Read
<1>3. Offset(p) = From /\ From \in Nat /\ ask.limit \in Nat \ {0}
  BY Window
<1>4. Candidates(p) = Found /\ Cardinality(Found) \in Nat
  BY <1>3, OrderOfPage, Places
<1>5. Cardinality(A) = Least(From, Found) /\ Cardinality(B) = Least(From + ask.limit, Found)
  BY <1>3, <1>4 DEF FirstRows
<1>. QED BY <1>2, <1>3, <1>4, <1>5 DEF Least

LEMMA InvGetPage ==
  ASSUME TypeOK, Inv, GetPage
  PROVE  OrderInv' /\ TwiceInv' /\ SkipInv'
<1>. USE Fields
<1>0. UNCHANGED <<list, ask, name, rows, seen, twice>> /\ read.pc = "page" /\ Where
  BY DEF GetPage, tableVars, Inv
<1>1. read'.page = read.page /\ read'.pc \in {"count", "notfound"} /\ read'.shown \subseteq Found
  BY PageOfList
<1>2. /\ Found' = Found /\ (Ordered' <=> Ordered) /\ (Turns' <=> Turns)
      /\ \A x : Ahead(x)' = Ahead(x)
      /\ From' = From /\ To' = To
  BY <1>0, <1>1, SameTable
<1>3. SUFFICES ASSUME Calm' PROVE OrderInv' /\ TwiceInv' /\ SkipInv'
  BY DEF OrderInv, TwiceInv, SkipInv
<1>4. Turns /\ spoiled' \cap {"tied", "cut"} = {}
  BY <1>2, <1>3 DEF Calm
<1>5. /\ From \in Nat /\ To \in Nat /\ To = From + ask.limit
      /\ Offset(read.page) = From /\ (read.page = ask.first => From = 0)
  BY <1>0, <1>4, Window
<1>6. read.page # ask.first => Calm /\ UNCHANGED <<old, spoiled>>
  BY <1>4 DEF GetPage, Calm, Begun
<1>7. read.page = ask.first =>
        seen = {} /\ twice = {} /\ old' = Found /\ "left" \notin spoiled'
  BY <1>0 DEF Where, GetPage
<1>8. Ordered
  BY <1>0, <1>4, <1>6, FirstOrdered DEF Inv, OrderInv
<1>9. \A x \in Found : x \in read'.shown <=>
        /\ From <= Cardinality(Ahead(x)) /\ Cardinality(Ahead(x)) < To
  BY <1>4, <1>5, <1>8, PageWindow
<1>10. \A x : Cardinality(Ahead(x)) \in Nat
  BY Places
<1>11. TwiceInv'
  <2>1. "before" \notin spoiled' =>
           twice = {} /\ \A x \in seen \cap Found : Cardinality(Ahead(x)) < From
    BY <1>0, <1>6, <1>7 DEF Inv, TwiceInv
  <2>2. "before" \notin spoiled' => read'.shown \cap seen = {}
    BY <1>1, <1>5, <1>9, <1>10, <2>1
  <2>. QED BY <1>0, <1>1, <1>2, <1>9, <2>1, <2>2 DEF TwiceInv
<1>12. SkipInv'
  <2>1. "left" \notin spoiled' =>
          old' \subseteq Found /\ \A x \in old' \ seen : From <= Cardinality(Ahead(x))
    BY <1>0, <1>5, <1>6, <1>7, <1>10 DEF Inv, SkipInv
  <2>2. "left" \notin spoiled' =>
          \A x \in old' \ (seen \cup read'.shown) : To <= Cardinality(Ahead(x))
    BY <1>5, <1>9, <1>10, <2>1
  <2>3. read'.pc = "notfound" /\ "left" \notin spoiled' => old' \subseteq seen
    <3>. SUFFICES ASSUME read'.pc = "notfound", "left" \notin spoiled',
                         NEW x \in old', x \notin seen
                  PROVE  FALSE
      OBVIOUS
    <3>1. Cardinality(Found) <= From /\ Cardinality(Found) \in Nat
      BY <1>0, <1>4, <1>8, NotFoundBeyond, Places
    <3>2. x \in Found /\ From <= Cardinality(Ahead(x))
      BY <2>1
    <3>. QED BY <1>5, <1>8, <1>10, <3>1, <3>2, BehindFew
  <2>. QED BY <1>0, <1>1, <1>2, <2>1, <2>2, <2>3 DEF SkipInv
<1>. QED BY <1>2, <1>8, <1>11, <1>12 DEF OrderInv

LEMMA InvGetCount ==
  ASSUME TypeOK, Inv, GetCount
  PROVE  OrderInv' /\ TwiceInv' /\ SkipInv'
<1>. USE Fields
<1>0. UNCHANGED <<list, ask, name, rows, old, spoiled>> /\ Where
  BY DEF GetCount, tableVars, Inv
<1>1. /\ read'.page = read.page /\ read'.shown = read.shown
      /\ read'.pc = "answered" /\ read'.total = Cardinality(Found) /\ read.pc = "count"
      /\ seen' = seen \cup read.shown /\ twice' = twice \cup (seen \cap read.shown)
  BY DEF GetCount, TypeOK, Read
<1>2. /\ Found' = Found /\ (Ordered' <=> Ordered) /\ (Turns' <=> Turns)
      /\ \A x : Ahead(x)' = Ahead(x)
      /\ From' = From /\ To' = To
  BY <1>0, <1>1, SameTable
<1>3. SUFFICES ASSUME Calm' PROVE OrderInv' /\ TwiceInv' /\ SkipInv'
  BY DEF OrderInv, TwiceInv, SkipInv
<1>4. Calm /\ Turns
  BY <1>0, <1>1, <1>2, <1>3 DEF Calm, Begun
<1>5. From \in Nat /\ To \in Nat /\ From <= To /\ ask.limit \in Nat \ {0}
  BY <1>0, <1>4, Window
<1>6. /\ \A x : Cardinality(Ahead(x)) \in Nat
      /\ Cardinality(Found) \in Nat
  BY Places
<1>7. TwiceInv'
  BY <1>0, <1>1, <1>2, <1>4, <1>5, <1>6 DEF Inv, TwiceInv
<1>8. SkipInv'
  <2>1. "left" \notin spoiled' =>
          old \subseteq Found /\ \A x \in old \ seen' : To <= Cardinality(Ahead(x))
    BY <1>0, <1>1, <1>4 DEF Inv, SkipInv
  <2>2. ~HasNext' => Cardinality(Found) <= To
    <3>1. TotalPages(Cardinality(Found))' = TotalPages(Cardinality(Found))
      BY <1>0, <1>2 DEF TotalPages
    <3>2. HasNext' <=> read.page < TotalPages(Cardinality(Found))
      BY <1>0, <1>1 DEF HasNext, TotalPages
    <3>. QED BY <1>5, <1>6, <3>2, LastPage DEF To
  <2>3. "left" \notin spoiled' /\ ~HasNext' => old \subseteq seen'
    <3>. SUFFICES ASSUME "left" \notin spoiled', ~HasNext', NEW x \in old, x \notin seen'
                  PROVE  FALSE
      OBVIOUS
    <3>1. x \in Found /\ To <= Cardinality(Ahead(x)) /\ Cardinality(Found) <= To
      BY <2>1, <2>2
    <3>2. Cardinality(Ahead(x)) < Cardinality(Found)
      BY <1>4, <3>1, BehindFew DEF Inv, OrderInv
    <3>. QED BY <1>5, <1>6, <3>1, <3>2
  <2>. QED BY <1>0, <1>1, <1>2, <2>1, <2>3 DEF SkipInv
<1>. QED BY <1>2, <1>4, <1>7, <1>8 DEF OrderInv, Inv

LEMMA InvFail ==
  ASSUME TypeOK, Inv, Fail
  PROVE  OrderInv' /\ TwiceInv' /\ SkipInv'
<1>. USE Fields
<1>0. UNCHANGED <<list, ask, name, rows, old, spoiled, seen, twice>> /\ read.pc = "count"
  BY DEF Fail, tableVars, historyVars
<1>1. read'.page = read.page /\ read'.shown = {} /\ read'.pc = "page"
  BY DEF Fail, TypeOK, Read
<1>2. /\ Found' = Found /\ (Ordered' <=> Ordered) /\ (Turns' <=> Turns)
      /\ \A x : Ahead(x)' = Ahead(x)
      /\ From' = From /\ To' = To
  BY <1>0, <1>1, SameTable
<1>3. Calm' => Calm
  BY <1>0, <1>1, <1>2 DEF Calm, Begun
<1>4. OrderInv'
  BY <1>2, <1>3 DEF Inv, OrderInv
<1>5. TwiceInv'
  BY <1>0, <1>1, <1>2, <1>3 DEF Inv, TwiceInv
<1>6. SkipInv'
  BY <1>0, <1>1, <1>2, <1>3 DEF Inv, SkipInv
<1>. QED BY <1>4, <1>5, <1>6

LEMMA InvTurnPage ==
  ASSUME TypeOK, Inv, TurnPage
  PROVE  OrderInv' /\ TwiceInv' /\ SkipInv'
<1>. USE Fields
<1>0. /\ UNCHANGED <<list, ask, name, rows, old, spoiled, seen, twice>>
      /\ read.pc = "answered" /\ Turns
  BY DEF TurnPage, tableVars, historyVars
<1>1. read'.page = read.page + 1 /\ read'.shown = {} /\ read'.pc = "page"
  BY DEF TurnPage, TypeOK, Read
<1>2. /\ Found' = Found /\ (Ordered' <=> Ordered) /\ (Turns' <=> Turns)
      /\ \A x : Ahead(x)' = Ahead(x)
  BY <1>0, SameTable
<1>3. From' = To
  BY <1>0, <1>1 DEF From, To
<1>4. Calm' => Calm
  BY <1>0, <1>2 DEF Calm, Begun
<1>5. OrderInv'
  BY <1>2, <1>4 DEF Inv, OrderInv
<1>6. TwiceInv'
  BY <1>0, <1>1, <1>2, <1>3, <1>4 DEF Inv, TwiceInv
<1>7. SkipInv'
  BY <1>0, <1>1, <1>2, <1>3, <1>4 DEF Inv, SkipInv
<1>. QED BY <1>5, <1>6, <1>7

LEMMA InvWriters ==
  ASSUME TypeOK, TypeOK', Inv, list # "search", Writers
  PROVE  OrderInv' /\ TwiceInv' /\ SkipInv'
<1>. USE WritersKeep
<1>0. spoiled \subseteq spoiled' /\ seen \cup read.shown \cup old \subseteq Known
  BY WriterList DEF Inv, Where
<1>1. /\ (Turns' <=> Turns) /\ From' = From /\ To' = To /\ (Begun' <=> Begun)
      /\ (HasNext' <=> HasNext)
  BY DEF Turns, From, To, Begun, HasNext, TotalPages
<1>2. Calm' => Calm
  BY <1>0, <1>1 DEF Calm
<1>3. /\ \A x : Cardinality(Ahead(x)) \in Nat /\ Cardinality(Ahead(x)') \in Nat
      /\ From \in Int /\ To \in Int
  <2>1. Found' \subseteq Ids
    <3>1. Found' \subseteq DOMAIN rows'
      BY DEF Found, Matches
    <3>. QED BY <3>1, ListingsAssumption DEF TypeOK, Ids
  <2>2. \A x : Ahead(x)' \subseteq Ids
    BY <2>1 DEF Ahead
  <2>3. read.page \in Int /\ ask.limit \in Int
    BY Fields
  <2>4. From \in Int /\ To \in Int
    BY <2>3, Product DEF From, To
  <2>. QED BY <2>2, <2>4, Places, SetOfIds
<1>4. OrderInv'
  BY <1>2, WriterPlaces DEF Inv, OrderInv, Calm
<1>5. TwiceInv'
  <2>. SUFFICES ASSUME Calm', "before" \notin spoiled' PROVE TwiceInv'
    BY DEF TwiceInv
  <2>1. Calm /\ "before" \notin spoiled
    BY <1>0, <1>2
  <2>2. \A x \in Found' \cap Known :
          x \in Found /\ Cardinality(Ahead(x)') <= Cardinality(Ahead(x))
    BY WriterPlaces
  <2>3. /\ twice = {}
        /\ \A x \in seen \cap Found' :
             Cardinality(Ahead(x)') < (IF read.pc = "answered" THEN To ELSE From)
    BY <1>0, <1>3, <2>1, <2>2 DEF Inv, TwiceInv
  <2>4. read.pc = "count" =>
          /\ read.shown \cap seen = {}
          /\ \A x \in read.shown \cap Found' : Cardinality(Ahead(x)') < To
    BY <1>0, <1>3, <2>1, <2>2 DEF Inv, TwiceInv
  <2>. QED BY <1>1, <2>3, <2>4 DEF TwiceInv
<1>6. SkipInv'
  <2>. SUFFICES ASSUME Calm', "left" \notin spoiled' PROVE SkipInv'
    BY DEF SkipInv
  <2>1. Calm /\ "left" \notin spoiled
    BY <1>0, <1>2
  <2>2. \A x \in Found :
          x \in Found' /\ Cardinality(Ahead(x)) <= Cardinality(Ahead(x)')
    BY WriterPlaces
  <2>3. old \subseteq Found /\ old \subseteq Found'
    BY <2>1, <2>2 DEF Inv, SkipInv
  <2>4. \A x \in old : \A n \in Int :
          n <= Cardinality(Ahead(x)) => n <= Cardinality(Ahead(x)')
    BY <1>3, <2>2, <2>3
  <2>. QED BY <1>1, <1>3, <2>1, <2>3, <2>4 DEF Inv, SkipInv
<1>. QED BY <1>4, <1>5, <1>6

LEMMA InvNext == TypeOK /\ TypeOK' /\ Inv /\ [Next]_vars => Inv'
<1>. SUFFICES ASSUME TypeOK, TypeOK', Inv, [Next]_vars PROVE Inv'
  OBVIOUS
<1>1. Where'
  BY WhereNext DEF Inv
<1>2. CASE UNCHANGED vars
  <2>1. /\ Found' = Found /\ (Ordered' <=> Ordered) /\ (Turns' <=> Turns)
        /\ \A x : Ahead(x)' = Ahead(x)
        /\ From' = From /\ To' = To
    BY <1>2, SameTable DEF vars, tableVars
  <2>2. (Calm' <=> Calm) /\ (HasNext' <=> HasNext)
    BY <1>2, <2>1 DEF vars, historyVars, Calm, Begun, HasNext, TotalPages
  <2>. QED BY <1>1, <1>2, <2>1, <2>2
       DEF vars, historyVars, Inv, OrderInv, TwiceInv, SkipInv
<1>. QED BY <1>1, <1>2, InvGetPage, InvGetCount, InvFail, InvTurnPage, InvWriters
     DEF Next, Client, Inv

LEMMA InvHolds == Spec => []Inv
  BY InvInit, InvNext, TypeCorrect, PTL DEF Spec

(* No row is shown on two pages, whatever is deleted, edited, renamed away *)
(* or failing in between, as long as what comes in comes in at the end.    *)
THEOREM AlwaysNothingTwice == Spec => []NothingTwice
<1>1. TypeOK /\ Inv => NothingTwice
  <2>. SUFFICES ASSUME TypeOK, Inv, spoiled \cap {"before", "tied", "cut"} = {}
                PROVE  twice = {}
    BY DEF NothingTwice
  <2>1. CASE Calm
    BY <2>1 DEF Inv, TwiceInv
  <2>2. CASE ~Calm
    BY <2>2 DEF Calm, Begun, Inv, Where
  <2>. QED BY <2>1, <2>2
<1>. QED BY <1>1, TypeCorrect, InvHolds, PTL

(* Every row that was there is shown by the last page, whatever comes in   *)
(* or fails in between, as long as nothing is deleted and the author keeps *)
(* the name.                                                               *)
THEOREM AlwaysNothingSkipped == Spec => []NothingSkipped
<1>1. Inv => NothingSkipped
  BY DEF NothingSkipped, AtEnd, Inv, SkipInv, Calm, Begun
<1>. QED BY <1>1, InvHolds, PTL

-----------------------------------------------------------------------------
(* Short searches.                                                         *)

(* Nothing moves the rows of a search between its pages, unless a source   *)
(* has more than the first page looks at.                                  *)
SearchInv ==
  list = "search" /\ Begun /\ Turns =>
    /\ spoiled \subseteq {"cut"}
    /\ "cut" \in spoiled => 2 * ask.limit < Cardinality(old)

(* The places of a source are no more than the rows it finds.              *)
LEMMA RankBound ==
  ASSUME TypeOK, list = "search", NEW s \in Sources, NEW x \in Matches(s)
  PROVE  Rank(s, x) \in Nat /\ Rank(s, x) <= Cardinality(Found)
<1>1. {y \in Matches(s) : ask.query[s][y] <= ask.query[s][x]} \subseteq Found
  BY DEF Found
<1>2. Found \subseteq Ids
  BY Fields
<1>. QED BY <1>1, <1>2, Fewer, SetOfIds DEF Rank

LEMMA SearchGetPage ==
  ASSUME TypeOK, Where, SearchInv, GetPage
  PROVE  SearchInv'
<1>1. UNCHANGED <<list, ask, name, rows>> /\ read'.page = read.page
  BY PageOfList DEF GetPage, tableVars
<1>2. SUFFICES ASSUME list = "search", Turns PROVE SearchInv'
  BY <1>1 DEF SearchInv, Turns
<1>3. CASE read.page # ask.first
  <2>1. Begun /\ UNCHANGED <<old, spoiled>>
    BY <1>3 DEF Begun, GetPage
  <2>. QED BY <1>1, <1>2, <2>1 DEF SearchInv, Begun, Turns
<1>4. CASE read.page = ask.first
  <2>1. /\ old' = Found
        /\ spoiled' = IF \E s \in Sources : Matches(s) # Listed(s, read.page)
                      THEN {"cut"} ELSE {}
    BY <1>2, <1>4 DEF GetPage
  <2>2. Cut(read.page) = 2 * ask.limit /\ 2 * ask.limit \in Int
    BY <1>2, <1>4, Window DEF Cut
  <2>3. ASSUME NEW s \in Sources, Matches(s) # Listed(s, read.page)
        PROVE  2 * ask.limit < Cardinality(Found)
    <3>1. PICK x \in Matches(s) : ~(Rank(s, x) <= 2 * ask.limit)
      BY <2>2, <2>3 DEF Listed
    <3>2. Rank(s, x) \in Nat /\ Rank(s, x) <= Cardinality(Found)
      BY <1>2, RankBound
    <3>3. Cardinality(Found) \in Int
      BY Fields, SetOfIds
    <3>. QED BY <2>2, <3>1, <3>2, <3>3
  <2>. QED BY <1>1, <2>1, <2>3 DEF SearchInv
<1>. QED BY <1>3, <1>4

LEMMA SearchNext == TypeOK /\ Where /\ SearchInv /\ [Next]_vars => SearchInv'
<1>. SUFFICES ASSUME TypeOK, Where, SearchInv, [Next]_vars PROVE SearchInv'
  OBVIOUS
<1>1. CASE GetPage
  BY <1>1, SearchGetPage
<1>2. CASE GetCount \/ Fail \/ TurnPage
  <2>1. Begun /\ UNCHANGED <<list, ask, old, spoiled>>
    <3>1. CASE GetCount \/ Fail
      BY <3>1 DEF GetCount, Fail, Begun, tableVars, historyVars
    <3>2. CASE TurnPage
      BY <3>2 DEF TurnPage, Begun, tableVars, historyVars
    <3>. QED BY <1>2, <3>1, <3>2
  <2>. QED BY <2>1 DEF SearchInv, Turns
<1>3. CASE list # "search" /\ Writers
  BY <1>3, WritersKeep DEF SearchInv
<1>4. CASE UNCHANGED vars
  BY <1>4 DEF vars, tableVars, historyVars, SearchInv, Begun, Turns
<1>. QED BY <1>1, <1>2, <1>3, <1>4 DEF Next, Client

(* A search that finds at most twice the posts of a page shows every one   *)
(* of them on its pages, and none twice.                                   *)
THEOREM ShortSearchesAlwaysShowAll == Spec => []ShortSearchesShowAll
<1>1. Init => SearchInv
  <2>1. Init => ~Begun
    BY TypeInit DEF Init, Begun, TypeOK
  <2>. QED BY <2>1 DEF SearchInv
<1>2. TypeOK /\ SearchInv /\ NothingTwice /\ NothingSkipped => ShortSearchesShowAll
  <2>. SUFFICES ASSUME TypeOK, SearchInv, NothingTwice, NothingSkipped,
                       list = "search", AtEnd, Cardinality(old) <= 2 * ask.limit
                PROVE  old \subseteq seen /\ twice = {}
    BY DEF ShortSearchesShowAll
  <2>1. Begun /\ Turns
    BY DEF AtEnd, Begun
  <2>2. Cardinality(old) \in Int /\ 2 * ask.limit \in Int
    BY Fields, SetOfIds DEF TypeOK
  <2>3. spoiled = {}
    BY <2>1, <2>2 DEF SearchInv
  <2>. QED BY <2>3 DEF NothingTwice, NothingSkipped
<1>3. Inv => Where
  BY DEF Inv
<1>. QED BY <1>1, <1>2, <1>3, SearchNext, TypeCorrect, InvHolds,
            AlwaysNothingTwice, AlwaysNothingSkipped, PTL DEF Spec

=============================================================================
