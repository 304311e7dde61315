SPECIFICATION Spec
CONSTANTS
  Faults = {"cut", "commit", "checkout", "conflict", "merge_commit", "save"}
  NewFiles = TRUE
  OperatorEdits = TRUE
  GateRegressions = TRUE
  RequireImprovement = TRUE
  MaxWork = 2
  MaxSession = 3
  MaxRun = 1
INVARIANT SpanReachable
INVARIANT GradedIsMerged
PROPERTY LossOnlyByVetoOrOverwrite
CHECK_DEADLOCK FALSE
