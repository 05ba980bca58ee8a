CONSTANTS
  Users = {u1}
  Emails = {e1}
  Names = {n1}
  Passwords = {p1, p2}
  Workers = {w1, w2}
  MaxTokens = 3
  Endpoints = {"verify", "forgot", "reset", "password", "email", "delete"}
SPECIFICATION Spec
INVARIANT TypeOK
PROPERTIES OutdatedByOthers DeadRegistrationsEnd ImplementsLifecycle
CHECK_DEADLOCK FALSE
