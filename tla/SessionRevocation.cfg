CONSTANTS
  Users = {u1}
  Workers = {w1}
  AccessAge = 1
  RefreshAge = 2
  Leeway = 1
  MaxTime = 2
  MaxChanges = 0
SPECIFICATION SpecRevocation
INVARIANT RevokedStaysRevoked
CHECK_DEADLOCK FALSE
