SPECIFICATION Spec
CONSTANTS
  draft = draft
  edit = edit
  check = check
  NoRun = NoRun
  MaxReworkIterations = 1
  MaxAttempts = 2
  Plans <- TwoPlans
  QaWirings = {TRUE, FALSE}
  Measured = {TRUE, FALSE}
  InitialRuns <- OlderRuns
  MaxRecords = 0
INVARIANTS
  TypeOK
  AlwaysResumable
  OneLiveCandidate
  CallsAreAnnounced
  CallsAccountedOnce
  BadResultsStopThePlan
  RefusalChangesNothing
  FollowsSomePlan
PROPERTIES
  ReleasedOnlyThroughGates
  CommittedWorkIsKept
  ImplementsReviewedRelease
