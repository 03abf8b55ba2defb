SPECIFICATION FairSpec
CONSTANTS
  edit = edit
  NoRun = NoRun
  NoStatus = NoStatus
  MaxReworkIterations = 1
  MaxAttempts = 1
  Plans <- OneStep
  QaWirings = {TRUE}
  Measured = {FALSE}
  InitialRuns <- EmptyStore
  MaxRecords = 0
  Played = {"approved"}
PROPERTIES
  ReviewIsLinked
  DecisionIsTaken
