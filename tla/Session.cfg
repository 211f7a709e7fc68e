SPECIFICATION FairLogoutSpec
CONSTANTS
  Handlers = {h1, h2}
  Users = {u1, u2}
  MaxLogins = 2
  LogLife = 2
  SessionExpire = 4
  RequestDelay = 1
  Faults = TRUE
  AppendRenews = FALSE
  NoRow = NoRow
INVARIANTS
  TypeOK
  ServedAsOwner
  CacheWithinLog
  OnlyExpiredRefused
  EndedWithinLog
PROPERTIES
  ExpiredRunsDown
  SessionsRunOut
