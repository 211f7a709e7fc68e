SPECIFICATION Spec
CONSTANTS
  Handlers = {h1}
  Users = {u1}
  MaxLogins = 1
  LogLife = 30
  SessionExpire = 35
  RequestDelay = 0
  Faults = FALSE
  AppendRenews = FALSE
  NoRow = NoRow
PROPERTIES
  ServedWithinLog
