SPECIFICATION FairSpec
CONSTANTS
  Handlers = {h1}
  Workers = {w1}
  Users = {u1}
  MaxSolutions = 1
  MaxPoints = 1
  AskedIds = {1}
  IdSpan = 10
  KeyTTL = 2
  FinishTTL = 1
  Results <- PassOrFail
  FailCodes <- OneFailCode
  SolutionColumns <- ShippedColumns
  ForeignKeys = TRUE
  Faults = FALSE
  AppendRenews = FALSE
  NoRow = NoRow
PROPERTIES
  JudgedEventually
