SPECIFICATION Spec
CONSTANTS
  edit = edit
  NoRun = NoRun
  NoStatus = NoStatus
  MaxReworkIterations = 1
  MaxAttempts = 1
  Plans <- OneStep
  QaWirings = {TRUE}
  Measured = {FALSE}
  InitialRuns <- EmptyStore
  MaxRecords = 1
  Played = {}
PROPERTIES
  SyncShowsStatus
