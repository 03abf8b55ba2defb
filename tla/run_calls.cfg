SPECIFICATION Spec
CONSTANTS
  MaxReworkIterations = 1
  MaxAttempts = 2
  Steps = {step}
  Inputs = {input}
  Reasons = {reason}
  NoReason = NoReason
  Bounds <- Small
INVARIANTS
  SnapshotRestorable
  JournalAgrees
  TypeOK
  ApprovalGate
  VersionChain
PROPERTIES
  DecisionsAreFinal
CHECK_DEADLOCK FALSE
