------------------------- MODULE LoginLimiterProofs -------------------------
(***************************************************************************)
(* Theorems about LoginLimiter, for any number of workers, addresses and   *)
(* identifiers, any limits and any times to live.                          *)
(***************************************************************************)
EXTENDS LoginLimiter, FiniteSetTheorems, TLAPS

LEMMA TypeInit == Init => TypeOK
BY LimiterAssumption DEF Init, TypeOK, Request

LEMMA TypeNext == TypeOK /\ [Next]_vars => TypeOK'
<1>. SUFFICES ASSUME TypeOK, [Next]_vars PROVE TypeOK'
  OBVIOUS
<1>. USE LimiterAssumption
<1>0. Idle \in Request
  BY DEF Request
<1>1. ASSUME NEW w \in Workers, NEW k \in Pairs, ReadIp(w, k)
      PROVE  TypeOK'
  BY <1>1 DEF ReadIp, counters, TypeOK, Request
<1>2. ASSUME NEW w \in Workers, ReadPair(w)
      PROVE  TypeOK'
  BY <1>0, <1>2 DEF ReadPair, At, Step, Done, counters, TypeOK, Request, Idle
<1>3. ASSUME NEW w \in Workers, Authenticate(w)
      PROVE  TypeOK'
  BY <1>3 DEF Authenticate, At, Step, counters, TypeOK, Request, Idle
<1>4. ASSUME NEW w \in Workers, Clear(w)
      PROVE  TypeOK'
  BY <1>0, <1>4 DEF Clear, At, Done, TypeOK, Request, Idle
<1>5. ASSUME NEW w \in Workers, CountFailure(w)
      PROVE  TypeOK'
  <2>. DEFINE k == req[w].pair
  <2>1. k \in Pairs /\ k[1] \in Ips
    BY <1>5 DEF CountFailure, At, TypeOK, Request, Idle, Pairs
  <2>2. ipCount' \in [Ips -> Nat] /\ pairCount' \in [Pairs -> Nat]
    BY <1>5, <2>1 DEF CountFailure, TypeOK
  <2>3. ipTTL' \in [Ips -> 0 .. IpTTL] /\ pairTTL' \in [Pairs -> 0 .. PairTTL]
    BY <1>5, <2>1 DEF CountFailure, SetTTLs, TypeOK
  <2>4. req' \in [Workers -> Request]
    BY <1>0, <1>5 DEF CountFailure, Done, TypeOK
  <2>5. /\ \A i \in Ips : ipCount'[i] > 0 <=> ipTTL'[i] > 0
        /\ \A j \in Pairs : pairCount'[j] > 0 <=> pairTTL'[j] > 0
    BY <1>5, <2>1 DEF CountFailure, SetTTLs, TypeOK
  <2>. QED BY <2>2, <2>3, <2>4, <2>5 DEF TypeOK
<1>6. ASSUME NEW w \in Workers, Abort(w)
      PROVE  TypeOK'
  BY <1>0, <1>6 DEF Abort, Done, counters, TypeOK
<1>7. CASE Tick
  BY <1>7 DEF Tick, Less, TypeOK
<1>8. CASE UNCHANGED vars
  BY <1>8 DEF vars, TypeOK
<1>. QED BY <1>1, <1>2, <1>3, <1>4, <1>5, <1>6, <1>7, <1>8 DEF Next

(* No interleaving leaves a counter without a time to live. *)
THEOREM TypeCorrect == Spec => []TypeOK
BY TypeInit, TypeNext, PTL DEF Spec

-----------------------------------------------------------------------------
(* The overshoot.                                                          *)

N == Cardinality(Workers)

(* Requests are never more than the workers. *)
LEMMA Sizes ==
  ASSUME NEW S, S \subseteq Workers
  PROVE  IsFiniteSet(S) /\ Cardinality(S) \in Nat /\ N \in Nat \ {0} /\ Cardinality(S) <= N
<1>1. IsFiniteSet(S) /\ Cardinality(S) <= N
  BY LimiterAssumption, FS_Subset DEF N
<1>2. Cardinality(S) \in Nat /\ N \in Nat
  BY <1>1, LimiterAssumption, FS_CardinalityType DEF N
<1>3. N # 0
  BY LimiterAssumption, FS_EmptySet DEF N
<1>. QED BY <1>1, <1>2, <1>3

(* A worker that leaves a set of requests makes room for one. *)
LEMMA Leaves ==
  ASSUME NEW S, S \subseteq Workers, NEW w \in S
  PROVE  Cardinality(S \ {w}) = Cardinality(S) - 1
BY Sizes, FS_RemoveElement

(* A counter that does not grow, and requests that do not become more.     *)
LEMMA NotMore ==
  ASSUME NEW S, NEW T, S \subseteq Workers, T \subseteq S,
         NEW c \in Nat, NEW d \in Nat, d <= c, NEW L \in Nat,
         c + Cardinality(S) <= L + N - 1
  PROVE  d + Cardinality(T) <= L + N - 1
<1>1. Cardinality(T) <= Cardinality(S) /\ Cardinality(T) \in Nat /\ Cardinality(S) \in Nat
      /\ N \in Nat
  BY Sizes, FS_Subset
<1>. QED BY <1>1

(* A counter below the limit admits one more request.                      *)
LEMMA Admitted ==
  ASSUME NEW T, T \subseteq Workers, NEW c \in Nat, NEW L \in Nat, c < L
  PROVE  c + Cardinality(T) <= L + N - 1
<1>1. Cardinality(T) \in Nat /\ N \in Nat /\ Cardinality(T) <= N
  BY Sizes
<1>. QED BY <1>1

(* A request that is counted is one less on its way.                       *)
LEMMA Counted ==
  ASSUME NEW S, S \subseteq Workers, NEW w \in S, NEW c \in Nat, NEW L \in Nat,
         c + Cardinality(S) <= L + N - 1
  PROVE  (c + 1) + Cardinality(S \ {w}) <= L + N - 1
<1>1. Cardinality(S) \in Nat /\ N \in Nat
  BY Sizes
<1>. QED BY <1>1, Leaves

IpBound(i) == ipCount[i] + Cardinality(PastIp(i)) <= IpLimit + N - 1
PairBound(k) == pairCount[k] + Cardinality(PastPair(k)) <= PairLimit + N - 1

LEMMA Bounds ==
  OvershootBounded <=> (\A i \in Ips : IpBound(i)) /\ (\A k \in Pairs : PairBound(k))
BY DEF OvershootBounded, IpBound, PairBound, N

LEMMA BoundsNext ==
  ASSUME \A i \in Ips : IpBound(i)', \A k \in Pairs : PairBound(k)'
  PROVE  OvershootBounded'
BY DEF OvershootBounded, IpBound, PairBound, N

(* A request that runs is a record with a pair, and moving it on keeps it. *)
LEMMA Busy ==
  ASSUME TypeOK, NEW w \in Workers, req[w].pc # "idle"
  PROVE  /\ req[w] # Idle
         /\ \A pc : [req[w] EXCEPT !.pc = pc] = [pc |-> pc, pair |-> req[w].pair]
<1>1. req[w] # Idle
  BY DEF Idle
<1>2. req[w] \in [pc : {"readPair", "authenticate", "clear", "count"}, pair : Pairs]
  BY <1>1 DEF TypeOK, Request
<1>. QED BY <1>1, <1>2

LEMMA BoundInit == Init => OvershootBounded
<1>. SUFFICES ASSUME Init PROVE OvershootBounded
  OBVIOUS
<1>1. ASSUME NEW i \in Ips PROVE IpBound(i)
  <2>1. ipCount[i] = 0 /\ PastIp(i) = {}
    BY DEF Init, PastIp
  <2>. QED BY <2>1, LimiterAssumption, Admitted DEF IpBound
<1>2. ASSUME NEW k \in Pairs PROVE PairBound(k)
  <2>1. pairCount[k] = 0 /\ PastPair(k) = {}
    BY DEF Init, PastPair
  <2>. QED BY <2>1, LimiterAssumption, Admitted DEF PairBound
<1>. QED BY <1>1, <1>2, Bounds

(* Steps with which no counter grows and no request gets further.          *)
LEMMA Shrinks ==
  ASSUME TypeOK, TypeOK', OvershootBounded,
         \A i \in Ips : ipCount'[i] <= ipCount[i] /\ PastIp(i)' \subseteq PastIp(i),
         \A k \in Pairs : pairCount'[k] <= pairCount[k] /\ PastPair(k)' \subseteq PastPair(k)
  PROVE  OvershootBounded'
<1>1. ASSUME NEW i \in Ips PROVE IpBound(i)'
  <2>1. /\ ipCount[i] \in Nat /\ ipCount'[i] \in Nat
        /\ PastIp(i) \subseteq Workers /\ PastIp(i)' \subseteq PastIp(i)
        /\ ipCount'[i] <= ipCount[i]
    BY DEF TypeOK, PastIp
  <2>. QED BY <2>1, LimiterAssumption, NotMore, Bounds DEF IpBound
<1>2. ASSUME NEW k \in Pairs PROVE PairBound(k)'
  <2>1. /\ pairCount[k] \in Nat /\ pairCount'[k] \in Nat
        /\ PastPair(k) \subseteq Workers /\ PastPair(k)' \subseteq PastPair(k)
        /\ pairCount'[k] <= pairCount[k]
    BY DEF TypeOK, PastPair
  <2>. QED BY <2>1, LimiterAssumption, NotMore, Bounds DEF PairBound
<1>. QED BY <1>1, <1>2, BoundsNext

LEMMA BoundNext == TypeOK /\ OvershootBounded /\ [Next]_vars => OvershootBounded'
<1>. SUFFICES ASSUME TypeOK, OvershootBounded, [Next]_vars PROVE OvershootBounded'
  OBVIOUS
<1>0. TypeOK'
  BY TypeNext
<1>. USE LimiterAssumption
<1>1. ASSUME NEW w \in Workers, NEW k \in Pairs, ReadIp(w, k)
      PROVE  OvershootBounded'
  <2>1. ASSUME NEW i \in Ips PROVE IpBound(i)'
    <3>1. CASE i = k[1]
      <4>1. ipCount'[i] \in Nat /\ ipCount'[i] < IpLimit /\ PastIp(i)' \subseteq Workers
        BY <1>1, <3>1 DEF ReadIp, counters, TypeOK, PastIp
      <4>. QED BY <4>1, Admitted DEF IpBound
    <3>2. CASE i # k[1]
      <4>1. ipCount'[i] = ipCount[i] /\ PastIp(i)' = PastIp(i)
        BY <1>1, <3>2 DEF ReadIp, counters, TypeOK, PastIp, Idle
      <4>. QED BY <4>1, Bounds DEF IpBound
    <3>. QED BY <3>1, <3>2
  <2>2. ASSUME NEW j \in Pairs PROVE PairBound(j)'
    <3>1. pairCount'[j] = pairCount[j] /\ PastPair(j)' = PastPair(j)
      BY <1>1 DEF ReadIp, counters, TypeOK, PastPair, Idle
    <3>. QED BY <3>1, Bounds DEF PairBound
  <2>. QED BY <2>1, <2>2, BoundsNext
<1>2. ASSUME NEW w \in Workers, ReadPair(w)
      PROVE  OvershootBounded'
  <2>. DEFINE k == req[w].pair
  <2>1. CASE PairOpen(k)
    <3>0. /\ UNCHANGED counters /\ At(w, "readPair")
          /\ req' = [req EXCEPT ![w].pc = "authenticate"]
      BY <1>2, <2>1 DEF ReadPair, Step
    <3>1. req' = [req EXCEPT ![w] = [pc |-> "authenticate", pair |-> k]]
      BY <3>0, Busy DEF At, TypeOK
    <3>4. /\ req[w] # Idle /\ req[w].pc = "readPair" /\ req[w].pair = k
          /\ req'[w] # Idle /\ req'[w].pc = "authenticate" /\ req'[w].pair = k
          /\ \A v \in Workers \ {w} : req'[v] = req[v]
      BY <3>0, <3>1 DEF At, TypeOK, Idle
    <3>2. ASSUME NEW i \in Ips PROVE IpBound(i)'
      <4>1. ipCount'[i] = ipCount[i] /\ PastIp(i)' = PastIp(i)
        BY <3>0, <3>4 DEF counters, PastIp
      <4>. QED BY <4>1, Bounds DEF IpBound
    <3>3. ASSUME NEW j \in Pairs PROVE PairBound(j)'
      <4>1. CASE j = k
        <5>1. /\ pairCount'[j] \in Nat /\ pairCount'[j] < PairLimit
              /\ PastPair(j)' \subseteq Workers
          BY <2>1, <3>0, <4>1 DEF PairOpen, counters, TypeOK, PastPair
        <5>. QED BY <5>1, Admitted DEF PairBound
      <4>2. CASE j # k
        <5>1. pairCount'[j] = pairCount[j] /\ PastPair(j)' = PastPair(j)
          BY <3>0, <3>4, <4>2 DEF counters, PastPair
        <5>. QED BY <5>1, Bounds DEF PairBound
      <4>. QED BY <4>1, <4>2
    <3>. QED BY <3>2, <3>3, BoundsNext
  <2>2. CASE ~PairOpen(k)
    <3>1. UNCHANGED counters /\ req' = [req EXCEPT ![w] = Idle]
      BY <1>2, <2>2 DEF ReadPair, Done
    <3>. QED BY <1>0, <3>1, Shrinks DEF counters, TypeOK, PastIp, PastPair
  <2>. QED BY <2>1, <2>2
<1>3. ASSUME NEW w \in Workers, Authenticate(w)
      PROVE  OvershootBounded'
  <2>1. PICK pc \in {"clear", "count"} : req' = [req EXCEPT ![w].pc = pc]
    BY <1>3 DEF Authenticate, Step
  <2>2. req' = [req EXCEPT ![w] = [pc |-> pc, pair |-> req[w].pair]]
    BY <1>3, <2>1, Busy DEF Authenticate, At, TypeOK
  <2>3. /\ \A i \in Ips : PastIp(i)' \subseteq PastIp(i)
        /\ \A k \in Pairs : PastPair(k)' \subseteq PastPair(k)
    BY <1>3, <2>2 DEF Authenticate, At, TypeOK, PastIp, PastPair, Idle
  <2>. QED BY <1>0, <1>3, <2>3, Shrinks DEF Authenticate, counters, TypeOK
<1>4. ASSUME NEW w \in Workers, Clear(w)
      PROVE  OvershootBounded'
  <2>1. \A k \in Pairs : pairCount'[k] <= pairCount[k]
    BY <1>4 DEF Clear, TypeOK
  <2>2. /\ \A i \in Ips : PastIp(i)' \subseteq PastIp(i)
        /\ \A k \in Pairs : PastPair(k)' \subseteq PastPair(k)
    BY <1>4 DEF Clear, Done, TypeOK, PastIp, PastPair
  <2>. QED BY <1>0, <1>4, <2>1, <2>2, Shrinks DEF Clear, TypeOK
<1>5. ASSUME NEW w \in Workers, CountFailure(w)
      PROVE  OvershootBounded'
  <2>. DEFINE k == req[w].pair
  <2>0. /\ k \in Pairs /\ k[1] \in Ips
        /\ w \in PastIp(k[1]) /\ w \in PastPair(k)
    BY <1>5 DEF CountFailure, At, TypeOK, Request, Idle, Pairs, PastIp, PastPair
  <2>1. /\ ipCount' = [ipCount EXCEPT ![k[1]] = @ + 1]
        /\ pairCount' = [pairCount EXCEPT ![k] = @ + 1]
        /\ req' = [req EXCEPT ![w] = Idle]
    BY <1>5 DEF CountFailure, Done
  <2>2. ASSUME NEW i \in Ips PROVE IpBound(i)'
    <3>1. /\ PastIp(i)' = PastIp(i) \ {w} /\ PastIp(i) \subseteq Workers
          /\ ipCount[i] \in Nat /\ IpBound(i)
      BY <2>1, Bounds DEF PastIp, TypeOK
    <3>2. CASE i = k[1]
      <4>1. ipCount'[i] = ipCount[i] + 1 /\ w \in PastIp(i)
        BY <2>0, <2>1, <3>2 DEF TypeOK
      <4>. QED BY <3>1, <4>1, Counted DEF IpBound
    <3>3. CASE i # k[1]
      <4>1. ipCount'[i] = ipCount[i]
        BY <2>1, <3>3 DEF TypeOK
      <4>. QED BY <3>1, <4>1, NotMore DEF IpBound
    <3>. QED BY <3>2, <3>3
  <2>3. ASSUME NEW j \in Pairs PROVE PairBound(j)'
    <3>1. /\ PastPair(j)' = PastPair(j) \ {w} /\ PastPair(j) \subseteq Workers
          /\ pairCount[j] \in Nat /\ PairBound(j)
      BY <2>1, Bounds DEF PastPair, TypeOK
    <3>2. CASE j = k
      <4>1. pairCount'[j] = pairCount[j] + 1 /\ w \in PastPair(j)
        BY <2>0, <2>1, <3>2 DEF TypeOK
      <4>. QED BY <3>1, <4>1, Counted DEF PairBound
    <3>3. CASE j # k
      <4>1. pairCount'[j] = pairCount[j]
        BY <2>1, <3>3 DEF TypeOK
      <4>. QED BY <3>1, <4>1, NotMore DEF PairBound
    <3>. QED BY <3>2, <3>3
  <2>. QED BY <2>2, <2>3, BoundsNext
<1>6. ASSUME NEW w \in Workers, Abort(w)
      PROVE  OvershootBounded'
  BY <1>0, <1>6, Shrinks DEF Abort, Done, counters, TypeOK, PastIp, PastPair
<1>7. CASE Tick
  <2>1. /\ \A i \in Ips : ipCount'[i] <= ipCount[i] /\ PastIp(i)' = PastIp(i)
        /\ \A k \in Pairs : pairCount'[k] <= pairCount[k] /\ PastPair(k)' = PastPair(k)
    BY <1>7 DEF Tick, TypeOK, PastIp, PastPair
  <2>. QED BY <1>0, <2>1, Shrinks
<1>8. CASE UNCHANGED vars
  BY <1>0, <1>8, Shrinks DEF vars, TypeOK, PastIp, PastPair
<1>. QED BY <1>1, <1>2, <1>3, <1>4, <1>5, <1>6, <1>7, <1>8 DEF Next

(* Reading and counting apart costs at most one attempt per other request  *)
(* in flight: the count of an address or a pair never exceeds its limit by *)
(* more than the number of workers less one.                               *)
THEOREM OvershootAlwaysBounded == Spec => []OvershootBounded
<1>1. Init => TypeOK /\ OvershootBounded
  BY TypeInit, BoundInit
<1>2. TypeOK /\ OvershootBounded /\ [Next]_vars => (TypeOK /\ OvershootBounded)'
  BY TypeNext, BoundNext
<1>. QED BY <1>1, <1>2, PTL DEF Spec

-----------------------------------------------------------------------------
(* The counter of an address and those of its accounts.  It stays ahead    *)
(* because it also lives longer.                                           *)

Outlives(i) == \A d \in Identifiers : pairTTL[<<i, d>>] <= ipTTL[i]

Covers(i) ==
  IsFiniteSet(Remembered(i)) /\ Cardinality(Remembered(i)) <= ipCount[i]

CoverInv == \A i \in Ips : Covers(i) /\ Outlives(i)

(* What is remembered, ... *)
LEMMA Recorded ==
  ASSUME NEW i, NEW d \in Identifiers, NEW n \in 1 .. pairCount[<<i, d>>]
  PROVE  <<d, n>> \in Remembered(i)
<1>1. <<d, n>> \in {d} \X (1 .. pairCount[<<i, d>>])
  OBVIOUS
<1>. QED BY <1>1 DEF Remembered

LEMMA Recalled ==
  ASSUME NEW i, NEW m \in Remembered(i)
  PROVE  \E e \in Identifiers : \E x \in 1 .. pairCount[<<i, e>>] : m = <<e, x>>
<1>1. PICK e \in Identifiers : m \in {e} \X (1 .. pairCount[<<i, e>>])
  BY DEF Remembered
<1>2. \E x \in 1 .. pairCount[<<i, e>>] : m = <<e, x>>
  BY <1>1
<1>. QED BY <1>2

(* ... and what is after a step. *)
LEMMA RecordedNext ==
  ASSUME NEW i, NEW d \in Identifiers, NEW n \in 1 .. pairCount'[<<i, d>>]
  PROVE  <<d, n>> \in Remembered(i)'
<1>1. <<d, n>> \in {d} \X (1 .. pairCount'[<<i, d>>])
  OBVIOUS
<1>. QED BY <1>1 DEF Remembered

LEMMA RecalledNext ==
  ASSUME NEW i, NEW m \in Remembered(i)'
  PROVE  \E e \in Identifiers : \E x \in 1 .. pairCount'[<<i, e>>] : m = <<e, x>>
<1>1. PICK e \in Identifiers : m \in {e} \X (1 .. pairCount'[<<i, e>>])
  BY DEF Remembered
<1>2. \E x \in 1 .. pairCount'[<<i, e>>] : m = <<e, x>>
  BY <1>1
<1>. QED BY <1>2

(* Pairs that remember no more than before, under a counter that is kept.  *)
LEMMA RemembersLess ==
  ASSUME TypeOK, TypeOK', NEW i \in Ips, Covers(i), ipCount'[i] = ipCount[i],
         \A d \in Identifiers : pairCount'[<<i, d>>] <= pairCount[<<i, d>>]
  PROVE  Covers(i)'
<1>1. Remembered(i)' \subseteq Remembered(i)
  <2>. SUFFICES ASSUME NEW m, m \in Remembered(i)' PROVE m \in Remembered(i)
    OBVIOUS
  <2>1. PICK d \in Identifiers : \E n \in 1 .. pairCount'[<<i, d>>] : m = <<d, n>>
    BY RecalledNext
  <2>2. PICK n \in 1 .. pairCount'[<<i, d>>] : m = <<d, n>>
    BY <2>1
  <2>3. pairCount[<<i, d>>] \in Nat /\ pairCount'[<<i, d>>] \in Nat
    BY DEF TypeOK, Pairs
  <2>4. n \in 1 .. pairCount[<<i, d>>]
    BY <2>2, <2>3
  <2>. QED BY <2>2, <2>4, Recorded
<1>2. /\ IsFiniteSet(Remembered(i)')
      /\ Cardinality(Remembered(i)') <= Cardinality(Remembered(i))
  BY <1>1, FS_Subset DEF Covers
<1>3. /\ Cardinality(Remembered(i)') \in Nat /\ Cardinality(Remembered(i)) \in Nat
      /\ ipCount[i] \in Nat
  BY <1>2, FS_CardinalityType DEF Covers, TypeOK
<1>. QED BY <1>2, <1>3 DEF Covers

(* One failure more for a pair, and for its address.                       *)
LEMMA RemembersOneMore ==
  ASSUME TypeOK, NEW i \in Ips, NEW d \in Identifiers, Covers(i),
         ipCount'[i] = ipCount[i] + 1,
         pairCount' = [pairCount EXCEPT ![<<i, d>>] = @ + 1]
  PROVE  Covers(i)'
<1>. DEFINE n == pairCount[<<i, d>>] + 1
<1>1. /\ n \in Nat /\ pairCount'[<<i, d>>] = n
      /\ \A e \in Identifiers \ {d} : pairCount'[<<i, e>>] = pairCount[<<i, e>>]
      /\ \A e \in Identifiers : pairCount[<<i, e>>] \in Nat
  BY DEF TypeOK, Pairs
<1>2. ASSUME NEW m
      PROVE  m \in Remembered(i)' <=> m \in Remembered(i) \cup {<<d, n>>}
  <2>1. m \in Remembered(i) => m \in Remembered(i)'
    <3>. HAVE m \in Remembered(i)
    <3>1. PICK e \in Identifiers : \E x \in 1 .. pairCount[<<i, e>>] : m = <<e, x>>
      BY Recalled
    <3>2. PICK x \in 1 .. pairCount[<<i, e>>] : m = <<e, x>>
      BY <3>1
    <3>3. x \in 1 .. pairCount'[<<i, e>>]
      BY <1>1
    <3>. QED BY <3>2, <3>3, RecordedNext
  <2>2. m = <<d, n>> => m \in Remembered(i)'
    <3>1. n \in 1 .. pairCount'[<<i, d>>]
      BY <1>1
    <3>. QED BY <3>1, RecordedNext
  <2>3. m \in Remembered(i)' => m \in Remembered(i) \/ m = <<d, n>>
    <3>. HAVE m \in Remembered(i)'
    <3>1. PICK e \in Identifiers : \E x \in 1 .. pairCount'[<<i, e>>] : m = <<e, x>>
      BY RecalledNext
    <3>2. PICK x \in 1 .. pairCount'[<<i, e>>] : m = <<e, x>>
      BY <3>1
    <3>3. x \in 1 .. pairCount[<<i, e>>] \/ (e = d /\ x = n)
      BY <1>1
    <3>. QED BY <3>2, <3>3, Recorded
  <2>. QED BY <2>1, <2>2, <2>3
<1>3. <<d, n>> \notin Remembered(i)
  <2>. SUFFICES ASSUME <<d, n>> \in Remembered(i) PROVE FALSE
    OBVIOUS
  <2>1. PICK e \in Identifiers : \E x \in 1 .. pairCount[<<i, e>>] : <<d, n>> = <<e, x>>
    BY Recalled
  <2>2. n \in 1 .. pairCount[<<i, d>>]
    BY <2>1
  <2>. QED BY <1>1, <2>2
<1>4. Remembered(i)' = Remembered(i) \cup {<<d, n>>}
  BY <1>2
<1>5. /\ IsFiniteSet(Remembered(i)')
      /\ Cardinality(Remembered(i)') = Cardinality(Remembered(i)) + 1
  <2>. DEFINE S == Remembered(i)
              x == <<d, n>>
  <2>1. IsFiniteSet(S) /\ x \notin S
    BY <1>3 DEF Covers
  <2>. HIDE DEF S, x
  <2>2. IsFiniteSet(S \cup {x}) /\ Cardinality(S \cup {x}) = Cardinality(S) + 1
    BY <2>1, FS_AddElement
  <2>. QED BY <1>4, <2>2 DEF S, x
<1>6. Cardinality(Remembered(i)) \in Nat /\ ipCount[i] \in Nat
  BY FS_CardinalityType DEF Covers, TypeOK
<1>. QED BY <1>5, <1>6 DEF Covers

(* Nothing remembered is covered by any counter.                           *)
LEMMA RemembersNothing ==
  ASSUME NEW i \in Ips, ipCount[i] \in Nat,
         \A d \in Identifiers : pairCount[<<i, d>>] = 0
  PROVE  Covers(i)
<1>1. Remembered(i) = {}
  <2>. SUFFICES ASSUME NEW m \in Remembered(i) PROVE FALSE
    OBVIOUS
  <2>1. PICK d \in Identifiers : \E n \in 1 .. pairCount[<<i, d>>] : m = <<d, n>>
    BY Recalled
  <2>. QED BY <2>1
<1>. QED BY <1>1, FS_EmptySet DEF Covers

LEMMA RemembersNothingNext ==
  ASSUME NEW i \in Ips, ipCount'[i] \in Nat,
         \A d \in Identifiers : pairCount'[<<i, d>>] = 0
  PROVE  Covers(i)'
<1>1. Remembered(i)' = {}
  <2>. SUFFICES ASSUME NEW m \in Remembered(i)' PROVE FALSE
    OBVIOUS
  <2>1. PICK d \in Identifiers : \E n \in 1 .. pairCount'[<<i, d>>] : m = <<d, n>>
    BY RecalledNext
  <2>. QED BY <2>1
<1>. QED BY <1>1, FS_EmptySet DEF Covers

LEMMA CoverInit == Init => CoverInv
<1>. SUFFICES ASSUME Init, NEW i \in Ips PROVE Covers(i) /\ Outlives(i)
  BY DEF CoverInv
<1>1. /\ ipCount[i] \in Nat /\ ipTTL[i] = 0
      /\ \A d \in Identifiers : pairCount[<<i, d>>] = 0 /\ pairTTL[<<i, d>>] = 0
  BY DEF Init, Pairs
<1>. QED BY <1>1, RemembersNothing DEF Outlives

(* Steps that leave all counters alone.                                    *)
LEMMA CoverKept ==
  ASSUME TypeOK, TypeOK', CoverInv, UNCHANGED counters
  PROVE  CoverInv'
<1>. SUFFICES ASSUME NEW i \in Ips PROVE Covers(i)' /\ Outlives(i)'
  BY DEF CoverInv
<1>1. Covers(i) /\ Outlives(i)
  BY DEF CoverInv
<1>2. \A d \in Identifiers : pairCount[<<i, d>>] \in Nat
  BY DEF TypeOK, Pairs
<1>. QED BY <1>1, <1>2, RemembersLess DEF counters, Outlives

LEMMA CoverNext == TypeOK /\ CoverInv /\ [Next]_vars => CoverInv'
<1>. SUFFICES ASSUME TypeOK, CoverInv, [Next]_vars PROVE CoverInv'
  OBVIOUS
<1>0. TypeOK'
  BY TypeNext
<1>1. ASSUME NEW w \in Workers,
             \/ \E k \in Pairs : ReadIp(w, k)
             \/ ReadPair(w) \/ Authenticate(w) \/ Abort(w)
      PROVE  CoverInv'
  BY <1>0, <1>1, CoverKept DEF ReadIp, ReadPair, Authenticate, Abort
<1>2. ASSUME NEW w \in Workers, Clear(w)
      PROVE  CoverInv'
  <2>. SUFFICES ASSUME NEW i \in Ips PROVE Covers(i)' /\ Outlives(i)'
    BY DEF CoverInv
  <2>1. /\ ipCount'[i] = ipCount[i] /\ ipTTL'[i] = ipTTL[i]
        /\ \A d \in Identifiers :
             /\ pairCount'[<<i, d>>] <= pairCount[<<i, d>>]
             /\ pairTTL'[<<i, d>>] <= ipTTL[i]
    BY <1>2, LimiterAssumption DEF Clear, TypeOK, Pairs, CoverInv, Outlives
  <2>. QED BY <1>0, <2>1, RemembersLess DEF CoverInv, Outlives
<1>3. ASSUME NEW w \in Workers, CountFailure(w)
      PROVE  CoverInv'
  <2>. DEFINE k == req[w].pair
  <2>0. k \in Pairs /\ k = <<k[1], k[2]>> /\ k[1] \in Ips /\ k[2] \in Identifiers
    BY <1>3 DEF CountFailure, At, TypeOK, Request, Idle, Pairs
  <2>1. /\ ipCount' = [ipCount EXCEPT ![k[1]] = @ + 1]
        /\ pairCount' = [pairCount EXCEPT ![k] = @ + 1]
        /\ ipTTL' = [ipTTL EXCEPT ![k[1]] = IpTTL]
        /\ pairTTL' = [pairTTL EXCEPT ![k] = PairTTL]
    BY <1>3 DEF CountFailure, SetTTLs
  <2>. SUFFICES ASSUME NEW i \in Ips PROVE Covers(i)' /\ Outlives(i)'
    BY DEF CoverInv
  <2>2. Covers(i) /\ Outlives(i)
    BY DEF CoverInv
  <2>3. CASE i = k[1]
    <3>1. ipCount'[i] = ipCount[i] + 1
      BY <2>1, <2>3 DEF TypeOK
    <3>2. Covers(i)'
      BY <2>0, <2>1, <2>2, <2>3, <3>1, RemembersOneMore
    <3>3. ipTTL'[i] = IpTTL
      BY <2>1, <2>3 DEF TypeOK
    <3>4. \A d \in Identifiers : pairTTL'[<<i, d>>] \in 0 .. PairTTL
      BY <1>0 DEF TypeOK, Pairs
    <3>5. Outlives(i)'
      BY <3>3, <3>4, LimiterAssumption DEF Outlives
    <3>. QED BY <3>2, <3>5
  <2>4. CASE i # k[1]
    <3>1. /\ ipCount'[i] = ipCount[i] /\ ipTTL'[i] = ipTTL[i]
          /\ \A d \in Identifiers :
               /\ pairCount'[<<i, d>>] = pairCount[<<i, d>>]
               /\ pairTTL'[<<i, d>>] = pairTTL[<<i, d>>]
               /\ pairCount[<<i, d>>] \in Nat
      BY <2>0, <2>1, <2>4 DEF TypeOK, Pairs
    <3>. QED BY <1>0, <2>2, <3>1, RemembersLess DEF Outlives
  <2>. QED BY <2>3, <2>4
<1>4. CASE Tick
  <2>. SUFFICES ASSUME NEW i \in Ips PROVE Covers(i)' /\ Outlives(i)'
    BY DEF CoverInv
  <2>1. /\ ipTTL[i] \in Nat /\ ipTTL'[i] = Less(ipTTL[i])
        /\ ipCount'[i] = IF ipTTL[i] = 1 THEN 0 ELSE ipCount[i]
    BY <1>4, LimiterAssumption DEF Tick, TypeOK
  <2>2. \A d \in Identifiers :
          /\ pairTTL[<<i, d>>] \in Nat /\ pairCount[<<i, d>>] \in Nat
          /\ pairTTL[<<i, d>>] <= ipTTL[i]
          /\ pairCount[<<i, d>>] > 0 <=> pairTTL[<<i, d>>] > 0
          /\ pairTTL'[<<i, d>>] = Less(pairTTL[<<i, d>>])
          /\ pairCount'[<<i, d>>] =
               IF pairTTL[<<i, d>>] = 1 THEN 0 ELSE pairCount[<<i, d>>]
    BY <1>4, LimiterAssumption DEF Tick, TypeOK, Pairs, CoverInv, Outlives
  <2>3. Outlives(i)'
    BY <2>1, <2>2 DEF Outlives, Less
  <2>4. CASE ipTTL[i] = 1
    <3>1. ipCount'[i] \in Nat /\ \A d \in Identifiers : pairCount'[<<i, d>>] = 0
      BY <2>1, <2>2, <2>4
    <3>. QED BY <2>3, <3>1, RemembersNothingNext
  <2>5. CASE ipTTL[i] # 1
    <3>1. /\ ipCount'[i] = ipCount[i]
          /\ \A d \in Identifiers : pairCount'[<<i, d>>] <= pairCount[<<i, d>>]
      BY <2>1, <2>2, <2>5
    <3>. QED BY <1>0, <2>3, <3>1, RemembersLess DEF CoverInv
  <2>. QED BY <2>4, <2>5
<1>5. CASE UNCHANGED vars
  BY <1>0, <1>5, CoverKept DEF vars, counters
<1>. QED BY <1>1, <1>2, <1>3, <1>4, <1>5 DEF Next

(* The counter of an address is never behind the failures its pairs        *)
(* remember together, for any number of identifiers, times to live and     *)
(* interleavings.                                                          *)
THEOREM IpAlwaysCoversPairs == Spec => []IpCoversPairs
<1>1. Init => TypeOK /\ CoverInv
  BY TypeInit, CoverInit
<1>2. TypeOK /\ CoverInv /\ [Next]_vars => (TypeOK /\ CoverInv)'
  BY TypeNext, CoverNext
<1>3. CoverInv => IpCoversPairs
  BY DEF CoverInv, Covers, IpCoversPairs
<1>. QED BY <1>1, <1>2, <1>3, PTL DEF Spec

-----------------------------------------------------------------------------
(* Lockouts.                                                               *)

IpDrains(i) ==
  Drains(IpLimit, ipCount[i], ipTTL[i], PastIp(i), ipCount'[i], ipTTL'[i], PastIp(i)')
PairDrains(k) ==
  Drains(PairLimit, pairCount[k], pairTTL[k], PastPair(k),
         pairCount'[k], pairTTL'[k], PastPair(k)')

DrainStep == (\A i \in Ips : IpDrains(i)) /\ (\A k \in Pairs : PairDrains(k))

(* A step with which no time to live grows and no request gets further.    *)
LEMMA NothingStarts ==
  ASSUME TypeOK, TypeOK',
         \A i \in Ips : ipTTL'[i] <= ipTTL[i] /\ PastIp(i)' \subseteq PastIp(i),
         \A k \in Pairs : pairTTL'[k] <= pairTTL[k] /\ PastPair(k)' \subseteq PastPair(k)
  PROVE  DrainStep
<1>1. /\ \A i \in Ips : ipTTL[i] \in Int /\ ipTTL'[i] \in Int
      /\ \A k \in Pairs : pairTTL[k] \in Int /\ pairTTL'[k] \in Int
  BY DEF TypeOK
<1>. QED BY <1>1 DEF DrainStep, IpDrains, PairDrains, Drains

LEMMA DrainNext == TypeOK /\ [Next]_vars => DrainStep
<1>. SUFFICES ASSUME TypeOK, [Next]_vars PROVE DrainStep
  OBVIOUS
<1>0. TypeOK'
  BY TypeNext
<1>t. /\ \A i \in Ips : ipTTL[i] \in Int /\ ipCount[i] \in Int
      /\ \A k \in Pairs : pairTTL[k] \in Int /\ pairCount[k] \in Int
  BY DEF TypeOK
<1>. USE LimiterAssumption
<1>1. ASSUME NEW w \in Workers, NEW k \in Pairs, ReadIp(w, k)
      PROVE  DrainStep
  <2>1. ASSUME NEW i \in Ips PROVE IpDrains(i)
    <3>1. CASE i = k[1]
      BY <1>1, <1>t, <3>1 DEF ReadIp, IpDrains, Drains
    <3>2. CASE i # k[1]
      <4>1. ipTTL'[i] = ipTTL[i] /\ PastIp(i)' = PastIp(i)
        BY <1>1, <3>2 DEF ReadIp, counters, TypeOK, PastIp, Idle
      <4>. QED BY <1>t, <4>1 DEF IpDrains, Drains
    <3>. QED BY <3>1, <3>2
  <2>2. ASSUME NEW j \in Pairs PROVE PairDrains(j)
    <3>1. pairTTL'[j] = pairTTL[j] /\ PastPair(j)' = PastPair(j)
      BY <1>1 DEF ReadIp, counters, TypeOK, PastPair, Idle
    <3>. QED BY <1>t, <3>1 DEF PairDrains, Drains
  <2>. QED BY <2>1, <2>2 DEF DrainStep
<1>2. ASSUME NEW w \in Workers, ReadPair(w)
      PROVE  DrainStep
  <2>. DEFINE k == req[w].pair
  <2>1. CASE PairOpen(k)
    <3>0. /\ UNCHANGED counters /\ At(w, "readPair")
          /\ req' = [req EXCEPT ![w].pc = "authenticate"]
      BY <1>2, <2>1 DEF ReadPair, Step
    <3>1. req' = [req EXCEPT ![w] = [pc |-> "authenticate", pair |-> k]]
      BY <3>0, Busy DEF At, TypeOK
    <3>2. /\ req[w] # Idle /\ req[w].pc = "readPair" /\ req[w].pair = k
          /\ req'[w] # Idle /\ req'[w].pc = "authenticate" /\ req'[w].pair = k
          /\ \A v \in Workers \ {w} : req'[v] = req[v]
      BY <3>0, <3>1 DEF At, TypeOK, Idle
    <3>3. ASSUME NEW i \in Ips PROVE IpDrains(i)
      <4>1. ipTTL'[i] = ipTTL[i] /\ PastIp(i)' = PastIp(i)
        BY <3>0, <3>2 DEF counters, PastIp
      <4>. QED BY <1>t, <4>1 DEF IpDrains, Drains
    <3>4. ASSUME NEW j \in Pairs PROVE PairDrains(j)
      <4>1. CASE j = k
        BY <1>t, <2>1, <4>1 DEF PairOpen, PairDrains, Drains
      <4>2. CASE j # k
        <5>1. pairTTL'[j] = pairTTL[j] /\ PastPair(j)' = PastPair(j)
          BY <3>0, <3>2, <4>2 DEF counters, PastPair
        <5>. QED BY <1>t, <5>1 DEF PairDrains, Drains
      <4>. QED BY <4>1, <4>2
    <3>. QED BY <3>3, <3>4 DEF DrainStep
  <2>2. CASE ~PairOpen(k)
    <3>1. UNCHANGED counters /\ req' = [req EXCEPT ![w] = Idle]
      BY <1>2, <2>2 DEF ReadPair, Done
    <3>. QED BY <1>0, <3>1, NothingStarts DEF counters, TypeOK, PastIp, PastPair
  <2>. QED BY <2>1, <2>2
<1>3. ASSUME NEW w \in Workers, Authenticate(w)
      PROVE  DrainStep
  <2>1. PICK pc \in {"clear", "count"} : req' = [req EXCEPT ![w].pc = pc]
    BY <1>3 DEF Authenticate, Step
  <2>2. req' = [req EXCEPT ![w] = [pc |-> pc, pair |-> req[w].pair]]
    BY <1>3, <2>1, Busy DEF Authenticate, At, TypeOK
  <2>3. /\ \A i \in Ips : PastIp(i)' \subseteq PastIp(i)
        /\ \A k \in Pairs : PastPair(k)' \subseteq PastPair(k)
    BY <1>3, <2>2 DEF Authenticate, At, TypeOK, PastIp, PastPair, Idle
  <2>. QED BY <1>0, <1>3, <2>3, NothingStarts DEF Authenticate, counters, TypeOK
<1>4. ASSUME NEW w \in Workers, Clear(w)
      PROVE  DrainStep
  <2>1. \A k \in Pairs : pairTTL'[k] <= pairTTL[k]
    BY <1>4 DEF Clear, TypeOK
  <2>2. /\ \A i \in Ips : PastIp(i)' \subseteq PastIp(i)
        /\ \A k \in Pairs : PastPair(k)' \subseteq PastPair(k)
    BY <1>4 DEF Clear, Done, TypeOK, PastIp, PastPair
  <2>. QED BY <1>0, <1>4, <2>1, <2>2, NothingStarts DEF Clear, TypeOK
<1>5. ASSUME NEW w \in Workers, CountFailure(w)
      PROVE  DrainStep
  <2>. DEFINE k == req[w].pair
  <2>0. /\ k \in Pairs /\ k[1] \in Ips
        /\ w \in PastIp(k[1]) /\ w \in PastPair(k)
    BY <1>5 DEF CountFailure, At, TypeOK, Request, Idle, Pairs, PastIp, PastPair
  <2>1. /\ ipTTL' = [ipTTL EXCEPT ![k[1]] = IpTTL]
        /\ pairTTL' = [pairTTL EXCEPT ![k] = PairTTL]
        /\ req' = [req EXCEPT ![w] = Idle]
    BY <1>5 DEF CountFailure, Done, SetTTLs
  <2>2. ASSUME NEW i \in Ips PROVE IpDrains(i)
    <3>1. PastIp(i)' = PastIp(i) \ {w}
      BY <2>1 DEF PastIp, TypeOK
    <3>2. i # k[1] => ipTTL'[i] = ipTTL[i]
      BY <2>1 DEF TypeOK
    <3>. QED BY <1>t, <2>0, <3>1, <3>2 DEF IpDrains, Drains
  <2>3. ASSUME NEW j \in Pairs PROVE PairDrains(j)
    <3>1. PastPair(j)' = PastPair(j) \ {w}
      BY <2>1 DEF PastPair, TypeOK
    <3>2. j # k => pairTTL'[j] = pairTTL[j]
      BY <2>1 DEF TypeOK
    <3>. QED BY <1>t, <2>0, <3>1, <3>2 DEF PairDrains, Drains
  <2>. QED BY <2>2, <2>3 DEF DrainStep
<1>6. ASSUME NEW w \in Workers, Abort(w)
      PROVE  DrainStep
  BY <1>0, <1>6, NothingStarts DEF Abort, Done, counters, TypeOK, PastIp, PastPair
<1>7. CASE Tick
  <2>1. /\ \A i \in Ips : ipTTL'[i] <= ipTTL[i] /\ PastIp(i)' = PastIp(i)
        /\ \A k \in Pairs : pairTTL'[k] <= pairTTL[k] /\ PastPair(k)' = PastPair(k)
    BY <1>7 DEF Tick, Less, TypeOK, PastIp, PastPair
  <2>. QED BY <1>0, <2>1, NothingStarts
<1>8. CASE UNCHANGED vars
  BY <1>0, <1>8, NothingStarts DEF vars, TypeOK, PastIp, PastPair
<1>. QED BY <1>1, <1>2, <1>3, <1>4, <1>5, <1>6, <1>7, <1>8 DEF Next

(* No request passes a counter that is at its limit, and each failure that *)
(* prolongs a lockout uses up one that had passed: the safety half of      *)
(* LockoutEnds, for any number of requests.                                *)
THEOREM LockoutsAlwaysDrain == Spec => LockoutsDrain
<1>1. TypeOK /\ [Next]_vars =>
        [/\ \A i \in Ips :
              Drains(IpLimit, ipCount[i], ipTTL[i], PastIp(i),
                     ipCount'[i], ipTTL'[i], PastIp(i)')
         /\ \A k \in Pairs :
              Drains(PairLimit, pairCount[k], pairTTL[k], PastPair(k),
                     pairCount'[k], pairTTL'[k], PastPair(k)')]_vars
  BY DrainNext DEF DrainStep, IpDrains, PairDrains
<1>. QED BY <1>1, TypeCorrect, PTL DEF Spec, LockoutsDrain

====
