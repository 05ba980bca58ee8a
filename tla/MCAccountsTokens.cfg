CONSTANTS
  Users = {u1, u2}
  Emails = {e1, e2}
  Names = {n1, n2}
  Passwords = {p1, p2}
  Workers = {w1, w2}
  MaxTokens = 3
  Endpoints = {"verify", "forgot", "reset", "email", "delete", "username"}
SPECIFICATION Spec
SYMMETRY Symmetry
INVARIANTS LookupUnambiguous LinksMatchAccounts UnverifiedHasToken VerifiedWitness EmailProvenance ResetLinksGoHome UnconfirmedOnlyByChange
PROPERTIES DeadLinksDrain PasswordChangeJustified
CHECK_DEADLOCK FALSE
