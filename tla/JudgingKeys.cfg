SPECIFICATION PollSpec
CONSTANTS
  Handlers = {h1, h2}
  Workers = {w1}
  Users = {u1}
  MaxSolutions = 3
  MaxPoints = 0
  AskedIds = {1}
  IdSpan = 2
  KeyTTL = 2
  FinishTTL = 1
  Results = {0, 1}
  FailCodes = {3}
  SolutionColumns = {"result", "time_used", "memory_used", "mini_result", "score"}
  ForeignKeys = FALSE
  Faults = TRUE
  AppendRenews = FALSE
  NoRow = NoRow
INVARIANTS
  KeyFreshAtSend
  JudgedAsStored
PROPERTIES
  NotFoundMeansNotRunning
