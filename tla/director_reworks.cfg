SPECIFICATION FairSpec
CONSTANTS
  draft = draft
  edit = edit
  check = check
  NoRun = NoRun
  MaxReworkIterations = 2
  MaxAttempts = 1
  Plans <- OneStep
  QaWirings = {TRUE}
  Measured = {TRUE, FALSE}
  InitialRuns <- EmptyStore
  MaxRecords = 1
INVARIANTS
  ReworkAnswersItsReview
PROPERTIES
  AlwaysSettles
