---------------------------- MODULE LoginLimiter ----------------------------
(***************************************************************************)
(* The attempt counters around POST /login (handler/auth.rs, redisdb.rs):  *)
(* two Redis counters are read, one after the other, before a password is  *)
(* tried, and written after it was.  An action is one Redis command, or    *)
(* the whole MULTI of increment_attempts, with the code up to the next     *)
(* await.  What the password check itself does is its outcome only.        *)
(***************************************************************************)
EXTENDS Integers, FiniteSets

CONSTANTS
  Workers,       \* login requests served at the same time
  Ips,           \* client addresses
  Identifiers,   \* what is typed as e-mail or username
  IpLimit,       \* 100 in login
  PairLimit,     \* 10 in login
  IpTTL,         \* 86400 seconds in increment_attempts, here in ticks
  PairTTL        \* 3600 seconds

ASSUME LimiterAssumption ==
  /\ IsFiniteSet(Workers) /\ Workers # {}
  /\ IpLimit \in Nat \ {0} /\ PairLimit \in Nat \ {0}
  /\ IpTTL \in Nat \ {0} /\ PairTTL \in Nat \ {0}
  /\ PairTTL <= IpTTL

VARIABLES
  ipCount,     \* login_fail_ip:{ip}; 0 stands for no key
  ipTTL,       \* ticks the key still lives, 0 when there is none
  pairCount,   \* login_fail_identifier_ip:{identifier}_{ip}
  pairTTL,
  req          \* what each worker is in the middle of

vars == <<ipCount, ipTTL, pairCount, pairTTL, req>>

Pairs == Ips \X Identifiers

Idle == [pc |-> "idle"]
Request ==
  {Idle} \cup [pc : {"readPair", "authenticate", "clear", "count"}, pair : Pairs]

Init ==
  /\ ipCount = [i \in Ips |-> 0]
  /\ ipTTL = [i \in Ips |-> 0]
  /\ pairCount = [k \in Pairs |-> 0]
  /\ pairTTL = [k \in Pairs |-> 0]
  /\ req = [w \in Workers |-> Idle]

counters == <<ipCount, ipTTL, pairCount, pairTTL>>

At(w, pc) == req[w].pc = pc
Step(w, pc) == req' = [req EXCEPT ![w].pc = pc]
Done(w) == req' = [req EXCEPT ![w] = Idle]

-----------------------------------------------------------------------------

(* login, get_ip_attempts: at the limit the request is refused. *)
ReadIp(w, k) ==
  /\ req[w] = Idle
  /\ ipCount[k[1]] < IpLimit
  /\ req' = [req EXCEPT ![w] = [pc |-> "readPair", pair |-> k]]
  /\ UNCHANGED counters

(* login, get_identifier_ip_attempts, by a later command. *)
PairOpen_OffByOne(k) == pairCount[k] <= PairLimit
PairOpen(k) == pairCount[k] < PairLimit

ReadPair(w) ==
  /\ At(w, "readPair")
  /\ IF PairOpen(req[w].pair) THEN Step(w, "authenticate") ELSE Done(w)
  /\ UNCHANGED counters

(* authenticate_process: success, or any of its errors (invalid input, no  *)
(* such user, wrong password, a failing database or Redis), which all      *)
(* count.                                                                  *)
Authenticate(w) ==
  /\ At(w, "authenticate")
  /\ Step(w, "clear") \/ Step(w, "count")
  /\ UNCHANGED counters

(* delete_identifier_ip_attempts after a success; the counter of the       *)
(* address stays.                                                          *)
Clear(w) ==
  /\ At(w, "clear")
  /\ pairCount' = [pairCount EXCEPT ![req[w].pair] = 0]
  /\ pairTTL' = [pairTTL EXCEPT ![req[w].pair] = 0]
  /\ Done(w)
  /\ UNCHANGED <<ipCount, ipTTL>>

(* increment_attempts: INCR and EXPIRE of both keys in one MULTI; EXPIRE   *)
(* starts the time to live again.                                          *)
SetTTLs_Swapped(k) ==
  /\ ipTTL' = [ipTTL EXCEPT ![k[1]] = PairTTL]
  /\ pairTTL' = [pairTTL EXCEPT ![k] = IpTTL]
SetTTLs_NoExpire(k) ==
  /\ ipTTL' = [ipTTL EXCEPT ![k[1]] = 0]
  /\ pairTTL' = [pairTTL EXCEPT ![k] = PairTTL]
SetTTLs(k) ==
  /\ ipTTL' = [ipTTL EXCEPT ![k[1]] = IpTTL]
  /\ pairTTL' = [pairTTL EXCEPT ![k] = PairTTL]

CountFailure(w) ==
  LET k == req[w].pair IN
  /\ At(w, "count")
  /\ ipCount' = [ipCount EXCEPT ![k[1]] = @ + 1]
  /\ pairCount' = [pairCount EXCEPT ![k] = @ + 1]
  /\ SetTTLs(k)
  /\ Done(w)

(* Redis fails, which is logged in the last two steps and ends the request *)
(* in the first two, or the request is dropped at an await.                *)
Abort(w) ==
  /\ req[w] # Idle
  /\ Done(w)
  /\ UNCHANGED counters

(* Redis: time passes, and keys whose time to live is over are gone. *)
Less(n) == IF n > 0 THEN n - 1 ELSE 0

Tick ==
  /\ \/ \E i \in Ips : ipTTL[i] > 0
     \/ \E k \in Pairs : pairTTL[k] > 0
  /\ ipTTL' = [i \in Ips |-> Less(ipTTL[i])]
  /\ ipCount' = [i \in Ips |-> IF ipTTL[i] = 1 THEN 0 ELSE ipCount[i]]
  /\ pairTTL' = [k \in Pairs |-> Less(pairTTL[k])]
  /\ pairCount' = [k \in Pairs |-> IF pairTTL[k] = 1 THEN 0 ELSE pairCount[k]]
  /\ UNCHANGED req

Next ==
  \/ \E w \in Workers :
       \/ \E k \in Pairs : ReadIp(w, k)
       \/ ReadPair(w)
       \/ Authenticate(w)
       \/ Clear(w)
       \/ CountFailure(w)
       \/ Abort(w)
  \/ Tick

(* Time passes in Redis whatever clients do. *)
Spec == Init /\ [][Next]_vars /\ WF_vars(Tick)

-----------------------------------------------------------------------------
(* Properties.                                                             *)

(* Counters and times to live are naturals, and a counter without a time   *)
(* to live, which would lock its address or account for ever, never exists.*)
TypeOK ==
  /\ ipCount \in [Ips -> Nat] /\ ipTTL \in [Ips -> 0 .. IpTTL]
  /\ pairCount \in [Pairs -> Nat] /\ pairTTL \in [Pairs -> 0 .. PairTTL]
  /\ req \in [Workers -> Request]
  /\ \A i \in Ips : ipCount[i] > 0 <=> ipTTL[i] > 0
  /\ \A k \in Pairs : pairCount[k] > 0 <=> pairTTL[k] > 0

(* Requests that passed the reading of a counter and may still write it.   *)
PastIp(i) ==
  {w \in Workers : req[w] # Idle /\ req[w].pair[1] = i}
PastPair(k) ==
  {w \in Workers : req[w] # Idle /\ req[w].pc # "readPair" /\ req[w].pair = k}

(* The limits can be overrun, since reading and counting are apart, but    *)
(* not by more than the other requests that run at the same time: passwords*)
(* tried and counted together with those on their way stay within the      *)
(* limit plus one less than the number of workers.                         *)
OvershootBounded ==
  /\ \A i \in Ips :
       ipCount[i] + Cardinality(PastIp(i)) <= IpLimit + Cardinality(Workers) - 1
  /\ \A k \in Pairs :
       pairCount[k] + Cardinality(PastPair(k)) <= PairLimit + Cardinality(Workers) - 1

(* The failures the pairs of an address count, each by its identifier and  *)
(* its number: as many as the sum of their counters.                       *)
Remembered(i) ==
  UNION {{d} \X (1 .. pairCount[<<i, d>>]) : d \in Identifiers}

(* The counter of an address is never behind those of its accounts taken   *)
(* together: it outlives them because its time to live is the longer one   *)
(* and is started again with theirs.  Otherwise trying many accounts in    *)
(* turn would leave no trace on the address.                               *)
IpCoversPairs ==
  \A i \in Ips :
    IsFiniteSet(Remembered(i)) /\ Cardinality(Remembered(i)) <= ipCount[i]

(* A lockout is prolonged, by a failure that starts the time to live of    *)
(* its counter again, only at the expense of a request that passed the     *)
(* counter before, and as long as it lasts no other one passes: the        *)
(* requests that can prolong it become fewer each time, and never more.    *)
Drains(limit, count, ttl, past, countNext, ttlNext, pastNext) ==
  count >= limit /\ countNext >= limit =>
    /\ pastNext \subseteq past
    /\ ttlNext > ttl => pastNext # past

LockoutsDrain ==
  [][/\ \A i \in Ips :
          Drains(IpLimit, ipCount[i], ipTTL[i], PastIp(i),
                 ipCount'[i], ipTTL'[i], PastIp(i)')
     /\ \A k \in Pairs :
          Drains(PairLimit, pairCount[k], pairTTL[k], PastPair(k),
                 pairCount'[k], pairTTL'[k], PastPair(k)')]_vars

(* Nobody is locked out for good: the requests admitted before a counter   *)
(* reached its limit can start its time to live again, but each only once. *)
LockoutEnds ==
  /\ \A i \in Ips : (ipCount[i] >= IpLimit) ~> (ipCount[i] < IpLimit)
  /\ \A k \in Pairs : (pairCount[k] >= PairLimit) ~> (pairCount[k] < PairLimit)

(* redisdb.rs says the atomic pipeline "Prevents race conditions when      *)
(* multiple login attempts happen simultaneously".  Read as the limit of   *)
(* login: no more than PairLimit failures of one pair are ever counted.    *)
FailuresWithinLimit == \A k \in Pairs : pairCount[k] <= PairLimit

=============================================================================
