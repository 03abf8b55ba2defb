SPECIFICATION Spec
CONSTANTS
  draft = draft
  edit = edit
  check = check
  NoRun = NoRun
  MaxReworkIterations = 1
  MaxAttempts = 1
  Plans <- LongerPlan
  QaWirings = {TRUE}
  Measured = {TRUE, FALSE}
  InitialRuns <- EmptyStore
  MaxRecords = 0
INVARIANTS
  RefusalChangesNothing
