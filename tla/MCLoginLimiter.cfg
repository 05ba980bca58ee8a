CONSTANTS
  Workers = {w1, w2, w3}
  Ips = {i1}
  Identifiers = {d1, d2}
  IpLimit = 3
  PairLimit = 2
  IpTTL = 3
  PairTTL = 2
SPECIFICATION Spec
INVARIANTS TypeOK OvershootBounded IpCoversPairs
PROPERTIES LockoutsDrain LockoutEnds
CHECK_DEADLOCK FALSE
