SPECIFICATION Spec
CONSTANTS
  MaxReworkIterations = 1
  MaxAttempts = 1
  Steps = {step}
  Inputs = {input}
  Reasons = {reason}
  NoReason = NoReason
  Bounds <- OneTask
INVARIANTS
  EverySnapshotRestores
CHECK_DEADLOCK FALSE
