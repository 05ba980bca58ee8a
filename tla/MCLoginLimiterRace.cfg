CONSTANTS
  Workers = {w1, w2}
  Ips = {i1}
  Identifiers = {d1}
  IpLimit = 100
  PairLimit = 10
  IpTTL = 24
  PairTTL = 1
SPECIFICATION Spec
INVARIANT FailuresWithinLimit
CHECK_DEADLOCK FALSE
