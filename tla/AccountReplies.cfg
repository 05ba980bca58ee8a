CONSTANTS
  Users = {u1}
  Emails = {e1}
  Names = {n1}
  Passwords = {p1}
  Workers = {w1}
  MaxTokens = 2
  Endpoints = {"forgot", "reset"}
SPECIFICATION SpecReplies
INVARIANT AnnouncedLinkWasSent
CHECK_DEADLOCK FALSE
