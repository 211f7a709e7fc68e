SPECIFICATION Spec
CONSTANTS
  Names = {n1, n2}
  Passwords = {p1}
  Schools = {s1}
  Emails = {e1, e2}
  MaxUsers = 2
  Faults = FALSE
  NoUser = NoUser
  Fds = {f1, f2}
  Queries <- Written
  Number <- Parsed
  to_string <- Text
  NoNumber = NoNumber
INVARIANTS
  RefusedOnlyIfTaken
CHECK_DEADLOCK FALSE
