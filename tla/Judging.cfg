SPECIFICATION Spec
CONSTANTS
  Handlers = {h1}
  Workers = {w1, w2}
  Users = {u1}
  MaxSolutions = 2
  MaxPoints = 2
  AskedIds = {}
  IdSpan = 10
  KeyTTL = 2
  FinishTTL = 1
  Results <- PassOrFail
  FailCodes <- OneFailCode
  SolutionColumns <- AllColumns
  ForeignKeys = TRUE
  Faults = TRUE
  AppendRenews = FALSE
  NoRow = NoRow
SYMMETRY ThreadSymmetry
INVARIANTS
  TypeOK
  RowsBeforeVerdict
  FlagCoversRun
  FinishedFlagBounded
  FullListsEachPointOnce
  AcceptedMeansFullScore
PROPERTIES
  ImplementsLifecycle
