SPECIFICATION LogoutSpec
CONSTANTS
  Handlers = {h1}
  Users = {u1}
  MaxLogins = 1
  LogLife = 2
  SessionExpire = 3
  RequestDelay = 0
  Faults = FALSE
  AppendRenews = FALSE
  NoRow = NoRow
PROPERTIES
  LogoutEndsSession
