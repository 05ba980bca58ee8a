CONSTANTS
  Users = {u1}
  Emails = {e1, e2}
  Names = {n1}
  Passwords = {p1}
  Workers = {w1}
  MaxTokens = 3
  Endpoints = {"verify", "email"}
SPECIFICATION Spec
INVARIANT VerifiedMeansEmailVerified
CHECK_DEADLOCK FALSE
