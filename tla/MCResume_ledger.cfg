SPECIFICATION Spec
CONSTANTS
  Configs <- MCConfigs
  Quality = 2
  Tolerance = 1
  GateRegressions = TRUE
  RequireImprovement = TRUE
  Faults = {"torn", "unrecorded", "boot"}
  MaxSessions = 3
  MaxRuns = 3
INVARIANT CeilingHolds
PROPERTY RatchetHolds
PROPERTY ResumesAtTheKeptGate
CHECK_DEADLOCK FALSE
