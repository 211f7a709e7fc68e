SPECIFICATION Spec
CONSTANTS
  Names = {n1, n2}
  Passwords = {p1, p2}
  Schools = {s1, s2}
  Emails = {e1}
  MaxUsers = 2
  Faults = TRUE
  NoUser = NoUser
  Fds = {f1, f2}
  Queries <- Written
  Number <- Parsed
  to_string <- Text
  NoNumber = NoNumber
SYMMETRY Symmetry
INVARIANTS
  TypeOK
  StoredCanLogin
  LostOnlyToLateCallback
  StaleOnlyIfOddlyWritten
