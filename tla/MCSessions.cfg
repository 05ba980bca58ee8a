CONSTANTS
  Users = {u1}
  Workers = {w1, w2}
  AccessAge = 1
  RefreshAge = 2
  Leeway = 1
  MaxTime = 4
  MaxChanges = 2
SPECIFICATION Spec
SYMMETRY Symmetry
INVARIANTS TypeOK StaleSessionsExplained
PROPERTIES AccessDrains LostTokensStayLost ImplementsSessionLifecycle
CHECK_DEADLOCK FALSE
